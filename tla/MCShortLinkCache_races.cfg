\* Lookups race with two updates through MySQL and Redis: fills and erasures
\* that arrive late, entries and links that expire, one failure anywhere.
SPECIFICATION Spec
CONSTANTS
  Readers = {r1}
  Updaters = {u1, u2}
  ConfiguredTtl = 2
  ExpiryTimes = {3}
  Never = Never
  None = None
  MaxDelay = 1
  MaxClock = 5
  MaxVersions = 3
  MaxFaults = 1
SYMMETRY RequestSymmetry
INVARIANT AnswersWereRecentlyRight
INVARIANT UpdatesInvalidate
CHECK_DEADLOCK FALSE
