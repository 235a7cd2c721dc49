----------------------------- MODULE HttpMetrics -----------------------------
(***************************************************************************)
(* The metrics of the server: I/O threads record every request in the      *)
(* counters of its route, one atomic counter after another and without a   *)
(* lock, and GET /metrics, a request like any other, reads them one by one *)
(* while the other threads go on.  The business counter of the redirects   *)
(* is kept beside them by the short-link service.                          *)
(***************************************************************************)
EXTENDS Naturals, Sequences, FiniteSets, Sums

CONSTANTS
  Threads,          \* I/O threads of the server
  RedirectResults,  \* what a redirect may come to
  Durations,        \* how long a request may take
  Bounds,           \* kDurationBuckets
  MaxRequests,      \* bound: the requests of a behaviour
  Unset             \* no series, no request, no number

ASSUME MetricsAssumption ==
  /\ IsFiniteSet(Threads)
  /\ RedirectResults \subseteq {"success", "not_found", "disabled", "expired", "error"}
  /\ Durations \subseteq Nat
  /\ Bounds \in Seq(Nat)
  /\ \A i, j \in 1..Len(Bounds) : i < j => Bounds[i] < Bounds[j]
  /\ MaxRequests \in Nat
  /\ Unset \notin Nat

(* Method and route of a series: makeKey.  A request no route matches gets *)
(* a series when the first one is recorded.                                *)
Redirect == "GET /s/:code"
Scrape == "GET /metrics"
Unmatched == "GET unmatched"
Keys == {Redirect, Scrape, Unmatched}

VARIABLES
  routes,     \* routes_: the number of the series of a key, or Unset
  series,     \* every RouteMetrics made, by its number
  redirects,  \* redirectCounters_, by result
  pc,         \* what an I/O thread does next
  request,    \* the request it handles
  handle,     \* the series it records the request in
  parts,      \* the parts of the page it has still to render
  snapshot,   \* the routes it renders
  todo,       \* the counters it has still to read for a part
  page,       \* what it has read of each counter, or Unset
  left,       \* requests that may still come
  completed,  \* history: how many requests of a kind are recorded
  published,  \* history: the largest numbers the rendered pages show
  floor,      \* history: published when the scrape of a thread began
  alone       \* history: no other request was handled during its scrape

counters == <<routes, series, redirects>>
render == <<parts, snapshot, todo, page>>
history == <<completed, published, floor, alone>>
metricsVars == <<counters, pc, request, handle, render, left, history>>

-----------------------------------------------------------------------------
(* The status of a redirect, and the class a status is counted in.         *)
StatusOf(result) == CASE result = "success" -> 302
                      [] result = "error"   -> 500
                      [] OTHER              -> 404

StatusClass(status) ==
  IF status \in 200..599 THEN status \div 100 - 2 ELSE 4

Classes == {StatusClass(StatusOf(result)) : result \in RedirectResults}
             \cup {StatusClass(200), StatusClass(404)}

(* The bucket of a duration; one that is none stands for "above them all". *)
Bucket(duration) ==
  CHOOSE i \in 1..Len(Bounds) + 1 :
    /\ \A j \in 1..i - 1 : Bounds[j] < duration
    /\ i <= Len(Bounds) => duration <= Bounds[i]

NewSeries == [status |-> [class \in Classes |-> 0],
              bucket |-> [i \in 1..Len(Bounds) |-> 0],
              duration |-> 0,
              count |-> 0]

(* The counters of a page.                                                 *)
Counter(field, key, at) == [field |-> field, key |-> key, at |-> at]

StatusCounters(key) == {Counter("status", key, class) : class \in Classes}
BucketCounters(key) == {Counter("bucket", key, i) : i \in 1..Len(Bounds)}

HttpCounters(keys) ==
  UNION {StatusCounters(key) \cup BucketCounters(key)
           \cup {Counter("count", key, 0), Counter("duration", key, 0)} : key \in keys}

RedirectCounters == {Counter("redirects", result, 0) : result \in RedirectResults}

PageCounters == HttpCounters(Keys) \cup RedirectCounters

(* The order in which they are read: the statuses of all routes, then the  *)
(* histogram of one route after another.                                   *)
KeyOrder == <<Scrape, Redirect, Unmatched,
              "success", "not_found", "disabled", "expired", "error">>

(* Slip: the number of requests is read before the buckets.                *)
CountFirst == <<"status", "count", "bucket", "duration", "redirects">>

FieldOrder == <<"status", "bucket", "count", "duration", "redirects">>

Place(list, x) == CHOOSE i \in DOMAIN list : list[i] = x

ReadBefore(c, d) ==
  \/ c.field = "status" /\ d.field # "status"
  \/ /\ c.field = "status" <=> d.field = "status"
     /\ \/ Place(KeyOrder, c.key) < Place(KeyOrder, d.key)
        \/ /\ c.key = d.key
           /\ \/ Place(FieldOrder, c.field) < Place(FieldOrder, d.field)
              \/ c.field = d.field /\ c.at < d.at

(* What a counter holds; table says where the series of a route is.        *)
Holding(c, table) ==
  CASE c.field = "redirects" -> redirects[c.key]
    [] c.field = "status"    -> series[table[c.key]].status[c.at]
    [] c.field = "bucket"    -> series[table[c.key]].bucket[c.at]
    [] c.field = "duration"  -> series[table[c.key]].duration
    [] c.field = "count"     -> series[table[c.key]].count

-----------------------------------------------------------------------------
HttpRequests == [key : {Redirect}, result : RedirectResults,
             duration : Durations]
              \cup [key : {Scrape, Unmatched}, result : {Unset}, duration : Durations]

Status(r) == CASE r.key = Redirect  -> StatusOf(r.result)
               [] r.key = Scrape    -> 200
               [] r.key = Unmatched -> 404

Blank == [c \in PageCounters |-> Unset]

(* The routes are registered before the I/O threads start.                 *)
MetricsInit ==
  /\ routes = [key \in Keys |-> IF key = Scrape THEN 1
                                ELSE IF key = Redirect THEN 2 ELSE Unset]
  /\ series = <<NewSeries, NewSeries>>
  /\ redirects = [result \in RedirectResults |-> 0]
  /\ pc = [t \in Threads |-> "idle"]
  /\ request = [t \in Threads |-> Unset]
  /\ handle = [t \in Threads |-> Unset]
  /\ parts = [t \in Threads |-> {}]
  /\ snapshot = [t \in Threads |-> [key \in Keys |-> Unset]]
  /\ todo = [t \in Threads |-> {}]
  /\ page = [t \in Threads |-> Blank]
  /\ left = MaxRequests
  /\ completed = [r \in HttpRequests |-> 0]
  /\ published = Blank
  /\ floor = [t \in Threads |-> Blank]
  /\ alone = [t \in Threads |-> FALSE]

Proceed(t, label) == pc' = [pc EXCEPT ![t] = label]

(* A request comes; it disturbs the scrapes of the other threads.          *)
Begin(t) ==
  /\ pc[t] = "idle" /\ left > 0
  /\ left' = left - 1
  /\ \E r \in HttpRequests :
       /\ request' = [request EXCEPT ![t] = r]
       /\ Proceed(t, CASE r.key = Redirect  -> "resolve"
                       [] r.key = Scrape    -> "render"
                       [] r.key = Unmatched -> "find")
       /\ parts' = [parts EXCEPT ![t] = IF r.key = Scrape
                                         THEN {"http", "business"} ELSE {}]
  /\ page' = [page EXCEPT ![t] = Blank]
  /\ floor' = [floor EXCEPT ![t] = published]
  /\ alone' = [u \in Threads |->
                 IF u = t THEN \A v \in Threads \ {t} : pc[v] = "idle"
                 ELSE FALSE]
  /\ UNCHANGED <<counters, handle, snapshot, todo, completed, published>>

(* Slip: a redirect that fails is not counted.                             *)
ResolveUncounted(t) ==
  /\ pc[t] = "resolve"
  /\ redirects' = IF request[t].result = "error" THEN redirects
                  ELSE [redirects EXCEPT ![request[t].result] = @ + 1]
  /\ Proceed(t, "find")
  /\ UNCHANGED <<routes, series, request, handle, render, left, history>>

(* ShortLinkService::resolve counts what came of it, a failure too.        *)
Resolve(t) ==
  /\ pc[t] = "resolve"
  /\ redirects' = [redirects EXCEPT ![request[t].result] = @ + 1]
  /\ Proceed(t, "find")
  /\ UNCHANGED <<routes, series, request, handle, render, left, history>>

(* The two parts of a page are the operands of one +, in either order.     *)
(* renderPrometheus of the HTTP metrics lists the routes under the shared  *)
(* lock and reads their counters after it; the other part has no lock.     *)
OpenPart(t) ==
  /\ pc[t] = "render" /\ todo[t] = {}
  /\ \/ /\ "http" \in parts[t]
        /\ parts' = [parts EXCEPT ![t] = @ \ {"http"}]
        /\ snapshot' = [snapshot EXCEPT ![t] = routes]
        /\ todo' = [todo EXCEPT ![t] = HttpCounters({key \in Keys : routes[key] # Unset})]
     \/ /\ "business" \in parts[t]
        /\ parts' = [parts EXCEPT ![t] = @ \ {"business"}]
        /\ todo' = [todo EXCEPT ![t] = RedirectCounters]
        /\ UNCHANGED snapshot
  /\ UNCHANGED <<counters, pc, request, handle, page, left, history>>

IsNext(t, c) == c \in todo[t] /\ \A d \in todo[t] : ~ReadBefore(d, c)

(* Slip: a counter starts anew once it is reported.                        *)
ReadAndReset(t) ==
  /\ pc[t] = "render"
  /\ \E c \in todo[t] :
       /\ IsNext(t, c)
       /\ page' = [page EXCEPT ![t][c] = Holding(c, snapshot[t])]
       /\ redirects' = [result \in RedirectResults |->
                          IF c = Counter("redirects", result, 0) THEN 0
                          ELSE redirects[result]]
       /\ todo' = [todo EXCEPT ![t] = @ \ {c}]
  /\ UNCHANGED <<routes, series, pc, request, handle, parts, snapshot, left, history>>

Read(t) ==
  /\ pc[t] = "render"
  /\ \E c \in todo[t] :
       /\ IsNext(t, c)
       /\ page' = [page EXCEPT ![t][c] = Holding(c, snapshot[t])]
       /\ todo' = [todo EXCEPT ![t] = @ \ {c}]
  /\ UNCHANGED <<counters, pc, request, handle, parts, snapshot, left, history>>

Rendered(t) ==
  /\ pc[t] = "render" /\ todo[t] = {} /\ parts[t] = {}
  /\ Proceed(t, "find")
  /\ published' = [c \in PageCounters |->
                     IF page[t][c] = Unset THEN published[c]
                     ELSE IF published[c] = Unset \/ published[c] <= page[t][c]
                     THEN page[t][c] ELSE published[c]]
  /\ UNCHANGED <<counters, request, handle, render, left, completed, floor, alone>>

(* findOrRegister under the shared lock.                                   *)
Find(t) ==
  /\ pc[t] = "find"
  /\ IF routes[request[t].key] # Unset
     THEN /\ handle' = [handle EXCEPT ![t] = routes[request[t].key]]
          /\ Proceed(t, "status")
     ELSE /\ Proceed(t, "register")
          /\ UNCHANGED handle
  /\ UNCHANGED <<counters, request, render, left, history>>

Make(t) ==
  /\ series' = Append(series, NewSeries)
  /\ routes' = [routes EXCEPT ![request[t].key] = Len(series) + 1]
  /\ handle' = [handle EXCEPT ![t] = Len(series) + 1]

(* Slip: the second look is forgotten.                                     *)
RegisterBlindly(t) ==
  /\ pc[t] = "register"
  /\ Make(t)
  /\ Proceed(t, "status")
  /\ UNCHANGED <<redirects, request, render, left, history>>

(* findOrRegister under the unique lock: another thread may have been here *)
(* in between.                                                             *)
Register(t) ==
  /\ pc[t] = "register"
  /\ \/ /\ routes[request[t].key] # Unset
        /\ handle' = [handle EXCEPT ![t] = routes[request[t].key]]
        /\ UNCHANGED <<routes, series>>
     \/ /\ routes[request[t].key] = Unset
        /\ Make(t)
  /\ Proceed(t, "status")
  /\ UNCHANGED <<redirects, request, render, left, history>>

(* The four fetch_adds of record.                                          *)
CountStatus(t) ==
  /\ pc[t] = "status"
  /\ series' = [series EXCEPT
                  ![handle[t]].status[StatusClass(Status(request[t]))] = @ + 1]
  /\ Proceed(t, "bucket")
  /\ UNCHANGED <<routes, redirects, request, handle, render, left, history>>

CountBucket(t) ==
  /\ pc[t] = "bucket"
  /\ LET bucket == Bucket(request[t].duration)
     IN  series' = IF bucket > Len(Bounds) THEN series
                   ELSE [series EXCEPT ![handle[t]].bucket[bucket] = @ + 1]
  /\ Proceed(t, "duration")
  /\ UNCHANGED <<routes, redirects, request, handle, render, left, history>>

AddDuration(t) ==
  /\ pc[t] = "duration"
  /\ series' = [series EXCEPT ![handle[t]].duration = @ + request[t].duration]
  /\ Proceed(t, "count")
  /\ UNCHANGED <<routes, redirects, request, handle, render, left, history>>

(* The last of them; the answer is sent and the thread takes another event. *)
CountRequest(t) ==
  /\ pc[t] = "count"
  /\ series' = [series EXCEPT ![handle[t]].count = @ + 1]
  /\ Proceed(t, "idle")
  /\ completed' = [completed EXCEPT ![request[t]] = @ + 1]
  /\ UNCHANGED <<routes, redirects, request, handle, render, left,
                 published, floor, alone>>

MetricsNext ==
  \E t \in Threads :
    \/ Begin(t) \/ Resolve(t)
    \/ OpenPart(t) \/ Read(t) \/ Rendered(t)
    \/ Find(t) \/ Register(t)
    \/ CountStatus(t) \/ CountBucket(t) \/ AddDuration(t) \/ CountRequest(t)

MetricsSpec == MetricsInit /\ [][MetricsNext]_metricsVars

-----------------------------------------------------------------------------
Completed(requests) == SumOf([r \in requests |-> completed[r]])
OfRoute(key) == {r \in HttpRequests : r.key = key}
Within(key, i) == {r \in OfRoute(key) : r.duration <= Bounds[i]}
WithResult(result) == {r \in OfRoute(Redirect) : r.result = result}

(* The thread has a whole page in its hands.                               *)
HasPage(t) == pc[t] = "find" /\ request[t].key = Scrape

Listed(t) == {key \in Keys : snapshot[t][key] # Unset}

(* What a page says of a route: the requests of all classes, the requests  *)
(* up to a bound (renderPrometheus adds the buckets up) and all of them.   *)
ByStatus(t, key) == SumOf([class \in Classes |-> page[t][Counter("status", key, class)]])
UpTo(t, key, i) == SumOf([j \in 1..i |-> page[t][Counter("bucket", key, j)]])
Total(t, key) == page[t][Counter("count", key, 0)]

(* Every request that was recorded is in the one series a scrape will find *)
(* under its route: threads that meet a new route at the same time agree   *)
(* on one series, none of their requests is lost with another one.         *)
EveryRequestIsFound ==
  \A key \in Keys :
    Completed(OfRoute(key)) = IF routes[key] = Unset THEN 0 ELSE series[routes[key]].count

(* A page is read while requests go on, so its numbers belong to different *)
(* moments; yet no histogram counts more requests up to a bound, or by     *)
(* status, than in total, but for those that other threads were recording. *)
(* (The order of the reads and of the additions makes it so.)              *)
SkewBounded ==
  \A t \in Threads : HasPage(t) =>
    \A key \in Listed(t) :
      /\ ByStatus(t, key) <= Total(t, key) + Cardinality(Threads \ {t})
      /\ UpTo(t, key, Len(Bounds)) <= Total(t, key) + Cardinality(Threads \ {t})

(* A scrape shows no number smaller than a scrape that ended before it     *)
(* began, and no route less: to Prometheus nothing was restarted.          *)
ScrapesNeverGoBack ==
  \A t \in Threads : HasPage(t) =>
    \A c \in PageCounters :
      floor[t][c] # Unset => page[t][c] # Unset /\ floor[t][c] <= page[t][c]

(* A scrape during which no other request was handled is exact: every      *)
(* route shows its recorded requests by status, by duration and in total,  *)
(* and the redirects counted by the service are those the server answered. *)
QuietScrapesAreExact ==
  \A t \in Threads : (HasPage(t) /\ alone[t]) =>
    /\ \A key \in Listed(t) :
         /\ Total(t, key) = Completed(OfRoute(key))
         /\ ByStatus(t, key) = Total(t, key)
         /\ \A i \in 1..Len(Bounds) : UpTo(t, key, i) = Completed(Within(key, i))
    /\ \A result \in RedirectResults :
         page[t][Counter("redirects", result, 0)] = Completed(WithResult(result))

-----------------------------------------------------------------------------
SeriesType == [status : [Classes -> Nat], bucket : [1..Len(Bounds) -> Nat],
               duration : Nat, count : Nat]

Recording == {"status", "bucket", "duration", "count"}
Labels == {"idle", "resolve", "render", "find", "register"} \cup Recording

MetricsTypeOK ==
  /\ routes \in [Keys -> Nat \cup {Unset}]
  /\ series \in Seq(SeriesType)
  /\ redirects \in [RedirectResults -> Nat]
  /\ pc \in [Threads -> Labels]
  /\ request \in [Threads -> HttpRequests \cup {Unset}]
  /\ handle \in [Threads -> Nat \cup {Unset}]
  /\ parts \in [Threads -> SUBSET {"http", "business"}]
  /\ snapshot \in [Threads -> [Keys -> Nat \cup {Unset}]]
  /\ todo \in [Threads -> SUBSET PageCounters]
  /\ page \in [Threads -> [PageCounters -> Nat \cup {Unset}]]
  /\ left \in Nat
  /\ completed \in [HttpRequests -> Nat]
  /\ published \in [PageCounters -> Nat \cup {Unset}]
  /\ floor \in [Threads -> [PageCounters -> Nat \cup {Unset}]]
  /\ alone \in [Threads -> BOOLEAN]

(***************************************************************************)
(* The inductive strengthening.  A counter holds the requests that are     *)
(* recorded and those that threads have added to it on their way through   *)
(* record.                                                                 *)
(***************************************************************************)
Underway(requests, labels) == {t \in Threads : pc[t] \in labels /\ request[t] \in requests}

Reached(requests, labels) == Completed(requests) + Cardinality(Underway(requests, labels))

BucketsUpTo(n, i) == [j \in 1..i |-> series[n].bucket[j]]

SeriesInv(key) ==
  LET n == routes[key]
  IN  IF n = Unset
      THEN \A r \in OfRoute(key) : completed[r] = 0
      ELSE /\ n \in 1..Len(series)
           /\ \A other \in Keys : routes[other] = n => other = key
           /\ series[n].count = Completed(OfRoute(key))
           /\ SumOf(series[n].status) = Reached(OfRoute(key), {"bucket", "duration", "count"})
           /\ \A i \in 1..Len(Bounds) :
                SumOf(BucketsUpTo(n, i)) = Reached(Within(key, i), {"duration", "count"})

RedirectsInv ==
  \A result \in RedirectResults :
    redirects[result] = Reached(WithResult(result), {"find", "register"} \cup Recording)

(* A thread records a request in the series of its route.                  *)
ThreadInv(t) ==
  /\ pc[t] # "idle" => request[t] \in HttpRequests
  /\ pc[t] = "resolve" => request[t].key = Redirect
  /\ pc[t] = "render" => request[t].key = Scrape
  /\ pc[t] \in Recording => /\ routes[request[t].key] # Unset
                            /\ handle[t] = routes[request[t].key]

(* The counters that exist, and what they hold now: nothing that was read  *)
(* of them is more.                                                        *)
Exists(c) == c.field = "redirects" \/ routes[c.key] # Unset

Behind(numbers) ==
  \A c \in PageCounters :
    numbers[c] # Unset => Exists(c) /\ numbers[c] <= Holding(c, routes)

Scraping(t) == pc[t] = "render" \/ HasPage(t)

Asked(t) == (IF "http" \in parts[t] THEN {} ELSE HttpCounters(Listed(t)))
              \cup (IF "business" \in parts[t] THEN {} ELSE RedirectCounters)

(* What a page has been asked for is on it or still to be read.            *)
PageInv(t) ==
  /\ \A key \in Listed(t) : snapshot[t][key] = routes[key]
  /\ pc[t] # "render" => todo[t] = {} /\ parts[t] = {}
  /\ Scraping(t) =>
       /\ \A c \in PageCounters :
            (c \in todo[t] \/ page[t][c] # Unset) <=> c \in Asked(t)
       /\ Behind(page[t])
       /\ \A c \in PageCounters :
            (floor[t][c] # Unset /\ page[t][c] # Unset) => floor[t][c] <= page[t][c]
       /\ "http" \notin parts[t] =>
            \A c \in PageCounters :
              floor[t][c] # Unset => c.field = "redirects" \/ c.key \in Listed(t)

(* A route's total is read after its other numbers, and from then on they  *)
(* are in proportion.                                                      *)
SkewInv(t) ==
  Scraping(t) /\ "http" \notin parts[t] =>
    \A key \in Listed(t) :
      page[t][Counter("count", key, 0)] # Unset =>
        /\ (StatusCounters(key) \cup BucketCounters(key)) \cap todo[t] = {}
        /\ ByStatus(t, key) <= Total(t, key) + Cardinality(Threads \ {t})
        /\ UpTo(t, key, Len(Bounds)) <= Total(t, key) + Cardinality(Threads \ {t})

QuietInv(t) ==
  alone[t] /\ pc[t] # "idle" =>
    /\ \A u \in Threads \ {t} : pc[u] = "idle"
    /\ Scraping(t) =>
         \A c \in PageCounters : page[t][c] # Unset => page[t][c] = Holding(c, routes)

MetricsInv ==
  /\ MetricsTypeOK
  /\ IsFiniteSet(Units(completed))
  /\ \A key \in Keys : SeriesInv(key)
  /\ RedirectsInv
  /\ Behind(published)
  /\ \A t \in Threads :
       /\ ThreadInv(t) /\ PageInv(t) /\ SkewInv(t) /\ QuietInv(t)
       /\ Behind(floor[t])
=============================================================================
