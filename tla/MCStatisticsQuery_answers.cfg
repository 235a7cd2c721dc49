\* Two requests, of the owner of a link or of another user, while consumers
\* record four visits in any order.
SPECIFICATION Spec
CONSTANTS
  Codes = {"a"}
  EventIds = {"e1", "e2", "e3", "e4"}
  Messages <- SomeVisits
  None = None
  Garbled = Garbled
  Partitions = {p1, p2}
  Published <- TwoPartitions
  Users = {u1, u2}
  OwnerOf <- Owned
  Requests = {r1, r2}
  Inputs <- SomeInputs
  Times <- SomeTimes
SYMMETRY RequestSymmetry
INVARIANT PartsAgree
INVARIANT LastVisitIsInTrend
INVARIANT AnswersNeverGoBack
CHECK_DEADLOCK FALSE
