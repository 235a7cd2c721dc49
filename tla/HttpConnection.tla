--------------------------- MODULE HttpConnection ---------------------------
(***************************************************************************)
(* One connection of the HTTP server: the parser of HttpContext, fed in    *)
(* arbitrary pieces, and HttpServer::onMessage, which answers at most one  *)
(* request per read event.                                                 *)
(*                                                                         *)
(* The stream is a sequence of units: a line with its CRLF, or a byte of a *)
(* body.  A unit names the request it was sent for, which stands for what  *)
(* it says.  onMessage runs to its end in one I/O thread: its steps        *)
(* interleave with the client alone.                                       *)
(***************************************************************************)
EXTENDS Integers, Sequences, SequencesExt

CONSTANTS
  Requests,     \* requests a client may send
  None,         \* no such header
  NotANumber,   \* a value std::stoi throws on
  Width,        \* contentLength_ is unsigned: 2^64
  MaxBody,      \* bound: units of a body
  MaxRequests   \* bound: requests in a behaviour

Outcomes == {"handled", "unmatched", "failed"}

(* What a client may send: a body has the length it declares, if any.      *)
WellSent(r) ==
  /\ r.method \in {"GET", "POST", "unknown"}
  /\ r.version \in {"HTTP/1.1", "HTTP/1.0", "malformed"}
  /\ r.malformedHeader \in BOOLEAN
  /\ r.length \in Int \cup {None, NotANumber}
  /\ r.connection \in {"close", "Keep-Alive", None}
  /\ r.body \in 0..MaxBody
  /\ r.length \in Nat => r.method = "POST" /\ r.body = r.length
  /\ r.method = "GET" => r.body = 0

ASSUME HttpAssumption ==
  /\ None \notin Int /\ NotANumber \notin Int
  /\ MaxRequests \in Nat /\ MaxBody \in Nat
  /\ Width \in Nat /\ MaxBody < Width
  /\ \A r \in Requests : WellSent(r)
  /\ \A r \in Requests : r.length \in Int /\ r.length < 0 =>
       MaxRequests * (MaxBody + 5) < r.length % Width  \* longer than any stream

VARIABLES
  script,     \* the requests the client has sent
  pipelined,  \* it has sent one before the answer to the last
  wire,       \* units on their way
  buf,        \* input buffer of the connection
  pc,         \* "wait" for a read event, "parse", "refuse", "respond"
  state,      \* HttpContext::state_
  request,    \* HttpContext::request_
  open,       \* the server has not shut down its side
  answers,    \* what has been sent to the client
  handled     \* the requests the handler was called with

client == <<script, pipelined, wire>>
context == <<state, request>>
replies == <<open, answers, handled>>
vars == <<client, buf, pc, context, replies>>

HeaderNames == {"Content-Length", "Connection"}

(* HttpRequest(): what a default-constructed request holds.  The field of  *)
(* is the path and the query.                                              *)
EmptyRequest ==
  [of |-> 0, method |-> "unknown", version |-> "Unknown",
   headers |-> [h \in HeaderNames |-> None], length |-> 0, body |-> <<>>]

Init ==
  /\ script = <<>> /\ pipelined = FALSE /\ wire = <<>>
  /\ buf = <<>> /\ pc = "wait"
  /\ state = "line" /\ request = EmptyRequest
  /\ open = TRUE /\ answers = <<>> /\ handled = <<>>

-----------------------------------------------------------------------------
(* The i-th request r of a client on the wire.                             *)
Header(i, name, value) ==
  IF value = None THEN <<>>
  ELSE <<[kind |-> "header", of |-> i, name |-> name, value |-> value]>>

Units(i, r) ==
  <<[kind |-> "start", of |-> i, method |-> r.method, version |-> r.version]>>
    \o Header(i, "Content-Length", r.length)
    \o Header(i, "Connection", r.connection)
    \o (IF r.malformedHeader THEN <<[kind |-> "no colon", of |-> i]>> ELSE <<>>)
    \o <<[kind |-> "blank", of |-> i]>>
    \o [k \in 1..r.body |-> [kind |-> "byte", of |-> i]]

ClientSends(r) ==
  /\ Len(script) < MaxRequests
  /\ script' = Append(script, r)
  /\ pipelined' = (pipelined \/ Len(answers) < Len(script))
  /\ wire' = wire \o Units(Len(script) + 1, r)
  /\ UNCHANGED <<buf, pc, context, replies>>

(* A read event: any number of units has come.                             *)
Read(n) ==
  /\ pc = "wait"
  /\ n <= Len(wire)
  /\ buf' = buf \o SubSeq(wire, 1, n)
  /\ wire' = SubSeq(wire, n + 1, Len(wire))
  /\ pc' = "parse"
  /\ UNCHANGED <<script, pipelined, context, replies>>

-----------------------------------------------------------------------------
(***************************************************************************)
(* The parser.  A line is what comes before the next CRLF: bytes of a body *)
(* nobody has read make one line with the line that follows them.          *)
(***************************************************************************)
LineEnd == SelectInSeq(buf, LAMBDA u : u.kind # "byte")
Line == IF LineEnd = 1 THEN buf[1] ELSE [kind |-> "mixed", of |-> buf[1].of]
Drop(n) == buf' = SubSeq(buf, n + 1, Len(buf))

Parsing(s) == pc = "parse" /\ state = s
LineArrived(s) == Parsing(s) /\ LineEnd # 0

(* The method, then path and query, then the version: what precedes the    *)
(* fault of a refused line has already been stored.                        *)
ParsedStart(u) ==
  CASE u.kind = "blank" -> request
    [] u.kind \notin {"blank", "start"} -> [request EXCEPT !.method = "unknown"]
    [] u.kind = "start" /\ u.method = "unknown" -> [request EXCEPT !.method = "unknown"]
    [] u.kind = "start" /\ u.method # "unknown" ->
         [request EXCEPT !.method = u.method, !.of = u.of,
            !.version = IF u.version = "malformed" THEN @ ELSE u.version]

GoodStart(u) == u.kind = "start" /\ u.method # "unknown" /\ u.version # "malformed"

RequestLine ==
  /\ LineArrived("line") /\ GoodStart(Line)
  /\ request' = ParsedStart(Line)
  /\ Drop(LineEnd)
  /\ state' = "headers"
  /\ UNCHANGED <<client, pc, replies>>

(* A refused line stays in the buffer.                                     *)
BadRequestLine ==
  /\ LineArrived("line") /\ ~GoodStart(Line)
  /\ request' = ParsedStart(Line)
  /\ pc' = "refuse"
  /\ UNCHANGED <<client, buf, state, replies>>

HeaderLine ==
  /\ LineArrived("headers")
  /\ \/ /\ Line.kind = "header"
        /\ request' = [request EXCEPT !.headers[Line.name] = Line.value]
     \/ Line.kind \in {"mixed", "start"} /\ UNCHANGED request  \* a colon somewhere
  /\ Drop(LineEnd)
  /\ UNCHANGED <<client, pc, state, replies>>

BadHeaderLine ==
  /\ LineArrived("headers")
  /\ Line.kind \in {"no colon", "mixed", "start"}
  /\ Drop(LineEnd)
  /\ pc' = "refuse"
  /\ UNCHANGED <<client, context, replies>>

-----------------------------------------------------------------------------
(* The end of the headers.                                                 *)
HasBody == request.method = "POST"    \* PUT alike
DeclaredLength == request.headers["Content-Length"]

GotHeaders ==
  /\ LineArrived("headers") /\ Line.kind = "blank"
  /\ Drop(1)
  /\ UNCHANGED <<client, replies>>

EndWithoutBody ==
  /\ GotHeaders
  /\ ~HasBody
  /\ state' = "all" /\ pc' = "respond"
  /\ UNCHANGED request

EndWithLength ==
  /\ GotHeaders
  /\ HasBody /\ DeclaredLength \in Int
  /\ request' = [request EXCEPT !.length = DeclaredLength % Width]
  /\ IF request'.length > 0
     THEN state' = "body" /\ UNCHANGED pc
     ELSE state' = "all" /\ pc' = "respond"

(* Slip: a POST without a length is one without a body.                    *)
EndAssumingNoBody ==
  /\ GotHeaders
  /\ HasBody /\ DeclaredLength = None
  /\ state' = "all" /\ pc' = "respond"
  /\ UNCHANGED request

EndWithoutLength ==
  /\ GotHeaders
  /\ HasBody /\ DeclaredLength = None
  /\ pc' = "refuse"
  /\ UNCHANGED context

(* std::stoi throws: the blank line has not been retrieved.                *)
EndWithBadLength ==
  /\ LineArrived("headers") /\ Line.kind = "blank"
  /\ HasBody /\ DeclaredLength = NotANumber
  /\ pc' = "refuse"
  /\ UNCHANGED <<client, buf, context, replies>>

(* Slip: one byte more than the body must have come.                       *)
BodyOffByOne ==
  /\ Parsing("body")
  /\ Len(buf) > request.length
  /\ request' = [request EXCEPT !.body = SubSeq(buf, 1, request.length)]
  /\ Drop(request.length)
  /\ state' = "all" /\ pc' = "respond"
  /\ UNCHANGED <<client, replies>>

Body ==
  /\ Parsing("body")
  /\ Len(buf) >= request.length
  /\ request' = [request EXCEPT !.body = SubSeq(buf, 1, request.length)]
  /\ Drop(request.length)
  /\ state' = "all" /\ pc' = "respond"
  /\ UNCHANGED <<client, replies>>

Incomplete ==
  /\ \/ (Parsing("line") \/ Parsing("headers")) /\ LineEnd = 0
     \/ Parsing("body") /\ Len(buf) < request.length
  /\ pc' = "wait"
  /\ UNCHANGED <<client, buf, context, replies>>

-----------------------------------------------------------------------------
(* Nothing can be sent once the server has shut down its side.             *)
Answer(to, outcome) ==
  answers' = IF open THEN Append(answers, [to |-> to, outcome |-> outcome])
             ELSE answers

(* sendErrorResponse: the context stays as it is.                          *)
Refuse ==
  /\ pc = "refuse"
  /\ Answer(Len(answers) + 1, "refused")
  /\ open' = FALSE
  /\ pc' = "wait"
  /\ UNCHANGED <<client, buf, context, handled>>

WantsClose ==
  LET connection == request.headers["Connection"]
  IN  connection = "close" \/ (request.version = "HTTP/1.0" /\ connection # "Keep-Alive")

(* Slip: HttpRequest::swap forgets the body and its length.                *)
OnRequestKeepsBody(outcome) ==
  /\ pc = "respond"
  /\ handled' = Append(handled, request)
  /\ Answer(request.of, outcome)
  /\ open' = (open /\ ~WantsClose /\ outcome # "unmatched")
  /\ state' = "line"
  /\ request' = [EmptyRequest EXCEPT !.length = request.length, !.body = request.body]
  /\ pc' = "wait"
  /\ UNCHANGED <<client, buf>>

(* onRequest, and HttpContext::reset for the next request.                 *)
OnRequest(outcome) ==
  /\ pc = "respond"
  /\ handled' = Append(handled, request)
  /\ Answer(request.of, outcome)
  /\ open' = (open /\ ~WantsClose /\ outcome # "unmatched")
  /\ state' = "line" /\ request' = EmptyRequest
  /\ pc' = "wait"
  /\ UNCHANGED <<client, buf>>

Parse ==
  \/ RequestLine \/ BadRequestLine \/ HeaderLine \/ BadHeaderLine
  \/ EndWithoutBody \/ EndWithLength \/ EndWithoutLength \/ EndWithBadLength
  \/ Body \/ Incomplete

OnMessage == Parse \/ Refuse \/ \E outcome \in Outcomes : OnRequest(outcome)

Next ==
  \/ \E r \in Requests : ClientSends(r)
  \/ \E n \in 1..Len(wire) : Read(n)
  \/ OnMessage

Spec == Init /\ [][Next]_vars

(* What was sent arrives, and the I/O thread runs.                         *)
FairSpec ==
  /\ Spec
  /\ WF_vars(OnMessage)
  /\ WF_vars(\E n \in 1..Len(wire) : Read(n))

-----------------------------------------------------------------------------
WellFormed(r) ==
  /\ r.method # "unknown" /\ r.version # "malformed" /\ ~r.malformedHeader
  /\ r.method = "POST" => r.length \in Int

(* What the handler should see of the i-th request r.                      *)
AsSent(i, r) ==
  [of |-> i, method |-> r.method, version |-> r.version,
   headers |-> [h \in HeaderNames |->
                  IF h = "Connection" THEN r.connection ELSE r.length],
   length |-> r.body,
   body |-> [k \in 1..r.body |-> [kind |-> "byte", of |-> i]]]

TypeOK ==
  /\ script \in Seq(Requests) /\ pipelined \in BOOLEAN
  /\ pc \in {"wait", "parse", "refuse", "respond"}
  /\ state \in {"line", "headers", "body", "all"}
  /\ request.length \in 0..(Width - 1)
  /\ request.body # <<>> => Len(request.body) = request.length
  /\ open \in BOOLEAN
  /\ pc = "respond" <=> state = "all"

(***************************************************************************)
(* However the stream is cut into reads and however far the client is      *)
(* ahead: the k-th answer is for the k-th request, and says whether it was *)
(* well formed; a refusal is the last answer.                              *)
(***************************************************************************)
AnswersInOrder ==
  /\ Len(answers) <= Len(script)
  /\ \A k \in DOMAIN answers :
       /\ answers[k].to = k
       /\ answers[k].outcome = "refused" <=> ~WellFormed(script[k])
       /\ answers[k].outcome = "refused" => k = Len(answers)

(***************************************************************************)
(* Up to the first malformed one the handler gets every request once, in   *)
(* order, with its own headers and its own body: nothing is left of the    *)
(* request before (docs/BUGS.md:61), even after the server has closed.     *)
(***************************************************************************)
HandledAsSent ==
  \A k \in DOMAIN handled :
    (\A j \in 1..k : WellFormed(script[j])) => handled[k] = AsSent(k, script[k])

Answerable(r) == r.length \in Int => r.length >= 0

(***************************************************************************)
(* A client that waits for each answer before it sends the next request    *)
(* gets every answer, or the server closes.  One that runs ahead may wait: *)
(* a request that arrived with the one before is answered at the next read *)
(* event.  A negative Content-Length is one no body ever reaches.          *)
(***************************************************************************)
LoneRequestAnswered ==
  \A i \in 1..MaxRequests :
    (Len(script) = i /\ ~pipelined /\ Answerable(script[i]))
      ~> (Len(answers) >= i \/ ~open \/ pipelined)

-----------------------------------------------------------------------------
(***************************************************************************)
(* The inductive strengthening.  While no line has been refused the parser *)
(* is in step with the client: all that was sent is one stream, request i  *)
(* begins behind the first starts[i] units, and buffer and wire hold what  *)
(* comes after the units that were taken.                                  *)
(***************************************************************************)
IsSequence(s) == Len(s) \in Nat /\ s = [k \in 1..Len(s) |-> s[k]]

IsRequest(q) ==
  q = [of |-> q.of, method |-> q.method, version |-> q.version,
       headers |-> q.headers, length |-> q.length, body |-> q.body]

IsStream(stream, starts) ==
  /\ IsSequence(stream)
  /\ starts \in [1..(Len(script) + 1) -> Nat]
  /\ starts[Len(script) + 1] = Len(stream)
  /\ \A i \in 1..Len(script) :
       /\ starts[i + 1] = starts[i] + Len(Units(i, script[i]))
       /\ starts[i + 1] <= Len(stream)
       /\ \A k \in 1..Len(Units(i, script[i])) :
            stream[starts[i] + k] = Units(i, script[i])[k]

Holds(stream, position) ==
  /\ position + Len(buf) + Len(wire) = Len(stream)
  /\ \A k \in 1..Len(buf) : buf[k] = stream[position + k]
  /\ \A k \in 1..Len(wire) : wire[k] = stream[position + Len(buf) + k]

(* Where the first line is behind which a header is unusual, and the end.  *)
Given(value) == IF value = None THEN 0 ELSE 1
GoodLines(r) == 1 + Given(r.length) + Given(r.connection)
BlankLine(r) == GoodLines(r) + (IF r.malformedHeader THEN 2 ELSE 1)

(* What request_ holds when the first lines of the i-th request were taken. *)
ReadSoFar(i, r, lines) ==
  [of |-> i, method |-> r.method, version |-> r.version,
   headers |-> [h \in HeaderNames |->
                  IF h = "Content-Length"
                  THEN IF lines > Given(r.length) THEN r.length ELSE None
                  ELSE IF lines >= GoodLines(r) THEN r.connection ELSE None],
   length |-> 0, body |-> <<>>]

InRequest(i, r, taken) ==
  /\ r.method # "unknown" /\ r.version # "malformed"
  /\ state = "headers" =>
       taken \in 1..GoodLines(r) /\ request = ReadSoFar(i, r, taken)
  /\ state = "body" =>
       /\ WellFormed(r) /\ r.method = "POST"
       /\ taken = BlankLine(r)
       /\ request = [ReadSoFar(i, r, taken) EXCEPT !.length = r.length % Width]
  /\ state = "all" =>
       /\ WellFormed(r)
       /\ taken = Len(Units(i, r))
       /\ request = AsSent(i, r)

ParsesFrom(stream, starts, taken) ==
  LET i == Len(handled) + 1
  IN  /\ IsStream(stream, starts)
      /\ i <= Len(script) + 1
      /\ Holds(stream, starts[i] + taken)
      /\ state = "line" => taken = 0 /\ request = EmptyRequest
      /\ state # "line" => i <= Len(script) /\ InRequest(i, script[i], taken)

InStep ==
  /\ \A i \in 1..Len(handled) : WellFormed(script[i]) /\ handled[i] = AsSent(i, script[i])
  /\ \A k \in 1..Len(answers) : answers[k].outcome # "refused"
  /\ Len(answers) <= Len(handled)
  /\ open => Len(answers) = Len(handled)
  /\ IF pc = "refuse"
     THEN Len(handled) < Len(script) /\ ~WellFormed(script[Len(handled) + 1])
     ELSE \E stream, starts : \E taken \in Nat : ParsesFrom(stream, starts, taken)

(* After a refusal it may be out of step, but nobody is answered any more. *)
Refused ==
  /\ ~open
  /\ \E i \in 1..Len(script) :
       /\ ~WellFormed(script[i])
       /\ i <= Len(handled) + 1
       /\ \A k \in 1..(i - 1) : handled[k] = AsSent(k, script[k])

(* What holds however far out of step the parser may be.                   *)
ShapeInv ==
  /\ TypeOK
  /\ IsSequence(wire) /\ IsSequence(buf) /\ IsSequence(answers) /\ IsSequence(handled)
  /\ IsRequest(request)
  /\ state # "all" => request.body = <<>>
  /\ Len(script) <= MaxRequests
  /\ Len(buf) + Len(wire) <= Len(script) * (MaxBody + 5)

Inv == ShapeInv /\ AnswersInOrder /\ (InStep \/ Refused)
=============================================================================
