-------------------------- MODULE MCHttpConnection --------------------------
(* Small instances of an HTTP connection for TLC.                          *)
EXTENDS HttpConnection

Get == [method |-> "GET", version |-> "HTTP/1.1", malformedHeader |-> FALSE,
        length |-> None, connection |-> None, body |-> 0]
Post == [Get EXCEPT !.method = "POST", !.length = 2, !.body = 2]

Good == {Get, Post, [Post EXCEPT !.length = 0, !.body = 0],
         [Get EXCEPT !.version = "HTTP/1.0", !.connection = "Keep-Alive"]}
Closing == {[Get EXCEPT !.connection = "close"], [Get EXCEPT !.version = "HTTP/1.0"]}
Faulty == {[Get EXCEPT !.method = "unknown"], [Get EXCEPT !.version = "malformed"],
           [Post EXCEPT !.malformedHeader = TRUE],
           [Post EXCEPT !.length = None], [Post EXCEPT !.length = NotANumber],
           [Post EXCEPT !.length = -1]}

AnyRequest == Good \cup Closing \cup Faulty
=============================================================================
