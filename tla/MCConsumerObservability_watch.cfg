\* A partition that moves between this consumer and others, a client, and a
\* stop at any time.
SPECIFICATION FairWatchSpec
CONSTANTS
  Partitions = {p1}
  Clients = {k1}
  OffsetCommitMaxAttempts = 2
  MaxLog = 2
  MaxRebalances = 3
  MaxMishaps = 2
  Absent = Absent
INVARIANT LagCoversHand
INVARIANT RefreshNeverUnderstates
PROPERTY LagFallsBack
PROPERTY ConsumerEnds
CHECK_DEADLOCK FALSE
