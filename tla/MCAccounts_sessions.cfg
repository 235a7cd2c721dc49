\* Two clients want one name; four requests on two threads, over three seconds, and
\* one failure: of MySQL, of Redis, of a connection, or a user disabled.
SPECIFICATION Spec
CONSTANTS
  c1 = c1
  c2 = c2
  Threads = {t1, t2}
  Clients = {c1, c2}
  Names <- Spellings
  normalize <- Lowercase
  Requests <- AnyRequest
  None = None
  SessionTtl = 2
  Limit = 1
  Window = 2
  MaxRequests = 4
  MaxFaults = 1
  Pauses = {750, 1250}
  MaxTime = 3500
INVARIANT AccountsAreSeparate
INVARIANT EndedSessionsAreDead
INVARIANT NoBurst
INVARIANT WindowEndsAsTold
SYMMETRY ThreadSymmetry
CHECK_DEADLOCK FALSE
