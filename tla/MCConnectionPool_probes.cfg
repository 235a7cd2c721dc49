\* More threads than connections, readiness requests among the queries, failed
\* reconnections.
SPECIFICATION FairSpec
CONSTANTS
  Threads = {t1, t2, t3, t4}
  Connections = {c1}
  None = None
  Kinds = {"query", "ready"}
  MaxRequests = 5
  MaxFaults = 2
INVARIANT ConnectionsConserved
PROPERTY QueriesAnswered
PROPERTY ProbeEnds
CHECK_DEADLOCK FALSE
