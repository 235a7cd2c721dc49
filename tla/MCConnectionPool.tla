-------------------------- MODULE MCConnectionPool --------------------------
(* Small instances of the connection pool for TLC.                         *)
EXTENDS ConnectionPool
=============================================================================
