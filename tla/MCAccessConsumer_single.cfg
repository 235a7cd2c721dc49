\* One consumer, one partition, every kind of message, faults at every step.
SPECIFICATION FairSpec
CONSTANTS
  Codes = {"a", "b"}
  EventIds = {"e1", "e2", "e3", "e4"}
  Messages <- EveryKind
  None = None
  Consumers = {c1}
  Partitions = {p1}
  ProcessingMaxAttempts = 2
  OffsetCommitMaxAttempts = 2
  MaxLog = 3
  MaxFaults = 2
INVARIANT CommittedIsHandled
INVARIANT StatisticsMatchReceipts
PROPERTY EventuallyCaughtUp
PROPERTY CommitsInOrder
PROPERTY ImplementsProjection
CHECK_DEADLOCK FALSE
