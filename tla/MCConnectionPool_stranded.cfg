\* A readiness request behind a thread that waits for a connection.
SPECIFICATION FairSpec
CONSTANTS
  Threads = {t1, t2, t3}
  Connections = {c1}
  None = None
  Kinds = {"query", "ready"}
  MaxRequests = 4
  MaxFaults = 0
PROPERTY ReadinessAnswered
CHECK_DEADLOCK FALSE
