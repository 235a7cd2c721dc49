\* Publishing, reports and a shutdown at any moment, with one failure; Kafka
\* may be silent for ever.
SPECIFICATION FairSpec
CONSTANTS
  Threads = {t1, t2}
  None = None
  Capacity = 2
  MaxVisits = 3
  MaxFaults = 1
INVARIANT EveryEventAccounted
INVARIANT ProducerOutlivesItsUsers
PROPERTY RedirectsAnswered
PROPERTY ShutdownEnds
PROPERTY GaugeCatchesUp
CHECK_DEADLOCK FALSE
