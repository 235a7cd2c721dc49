\* Two consumers of one group: a member that stalls, is dropped and rejoins
\* still holds an old message while another handles it again, and commits late.
SPECIFICATION FairSpec
CONSTANTS
  Codes = {"a"}
  EventIds = {"e1"}
  Messages <- Poison
  None = None
  Consumers = {c1, c2}
  Partitions = {p1}
  ProcessingMaxAttempts = 1
  OffsetCommitMaxAttempts = 1
  MaxLog = 2
  MaxFaults = 2
PROPERTY ImplementsProjection
PROPERTY EventuallyHandled
CHECK_DEADLOCK FALSE
