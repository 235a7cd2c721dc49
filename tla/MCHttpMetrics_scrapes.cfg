\* Two I/O threads handle redirects, requests without a route and scrapes.
SPECIFICATION MetricsSpec
CONSTANTS
  Threads = {t1, t2}
  RedirectResults = {"success", "error"}
  Durations = {1, 2}
  Bounds <- OneBound
  MaxRequests = 3
  Unset = Unset
SYMMETRY ThreadSymmetry
INVARIANT EveryRequestIsFound
INVARIANT SkewBounded
INVARIANT ScrapesNeverGoBack
INVARIANT QuietScrapesAreExact
CHECK_DEADLOCK FALSE
