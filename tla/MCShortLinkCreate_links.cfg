\* Three threads, three creates, a custom code that is also the code of an id.
SPECIFICATION ListingSpec
CONSTANTS
  c1 = c1
  c2 = c2
  c3 = c3
  o1 = o1
  o2 = o2
  Threads = {t1, t2, t3}
  Owners = {o1, o2}
  Codes = {c1, c2, c3}
  Requests <- AnyRequest
  encodeBase62 <- CodeOfId
  None = None
  MaxRequests = 3
  MaxFaults = 1
  Limits = {1, 2}
INVARIANT CreatedIsStored
INVARIANT FailedLeavesNothing
INVARIANT LinksAreWhole
INVARIANT ListingIsExact
INVARIANT HoldersGoOn
CONSTRAINT Explored
SYMMETRY ThreadSymmetry
CHECK_DEADLOCK FALSE
