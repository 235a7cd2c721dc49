--------------------------- MODULE StatisticsQuery ---------------------------
(***************************************************************************)
(* GET /api/short-links/{code}/statistics: a handler of the HTTP API finds *)
(* the link of its user, reads the window of the trend from the query, and *)
(* lets the repository read the statistics tables with three statements,   *)
(* each in a transaction of its own, while the event consumers go on       *)
(* recording.  The consumers appear as the projection they implement.      *)
(***************************************************************************)
EXTENDS AccessEvents, Sequences, Sums

CONSTANTS
  Partitions,  \* partitions of the access-event topic
  Published,   \* Published[p]: the messages of partition p
  Users,       \* users who ask
  OwnerOf,     \* OwnerOf[code]: the user a link belongs to
  Requests,    \* bound: the requests of a behaviour
  Inputs,      \* query strings: interval, from and to
  Garbled,     \* a value of from or to that is no UTC timestamp
  Times        \* bound: the seconds at which something happens

Week == 7 * 86400
InputType == [interval : STRING, from : Nat \cup {None, Garbled},
              to : Nat \cup {None, Garbled}]

ASSUME QueryAssumption ==
  /\ Published \in [Partitions -> Seq(Messages)]
  /\ OwnerOf \in [Codes -> Users]
  /\ Inputs \subseteq InputType
  /\ None \notin Nat /\ Garbled \notin Nat \cup {None}
  /\ Times \subseteq Nat /\ \A t \in Times : t >= Week

VARIABLES
  links,     \* codes with a row in short_links
  receipts,  \* processed_access_events
  totals,    \* short_link_access_totals
  hourly,    \* short_link_access_hourly
  now,       \* ShortLinkService::nowEpochSeconds
  stage,     \* what the handler of a request does next
  asked,     \* user, code and query string of a request
  earlier,   \* requests that were answered before a request began
  query,     \* the window it reads from its query string
  summary,   \* what it has read of the totals
  trend,     \* what it has read of the hourly rows
  answer     \* the status it is answered with

tables == <<links, receipts, totals, hourly>>
handler == <<stage, asked, earlier, query, summary, trend, answer>>
vars == <<tables, now, handler>>

(* The pipeline as its abstract specification; no query reads what it      *)
(* says about offsets and dead letters.                                    *)
Projection == INSTANCE AccessProjection
                WITH log <- Published,
                     committed <- [p \in Partitions |-> 0],
                     dlq <- {}

-----------------------------------------------------------------------------
(* The window of the trend.                                                *)
BucketSeconds(interval) == IF interval = "hour" THEN 3600 ELSE 86400

MaxRange(interval) == (IF interval = "hour" THEN 31 ELSE 366) * 86400

NextBoundary(t, size) == ((t + size - 1) \div size) * size

(* parseStatisticsQuery up to its checks, at time t.                       *)
Window(input, t) ==
  LET interval == IF input.interval = "hour" THEN "hour" ELSE "day"
      end == NextBoundary(t, BucketSeconds(interval))
  IN  [interval |-> interval,
       from |-> IF input.from = None THEN end - Week ELSE input.from,
       to   |-> IF input.to = None THEN end ELSE input.to]

Aligned(q) ==
  /\ q.from % BucketSeconds(q.interval) = 0
  /\ q.to % BucketSeconds(q.interval) = 0
  /\ q.from < q.to

(* A query string the handler refuses with 400.                            *)
Refused(input, t) ==
  \/ input.interval \notin {"", "hour", "day"}
  \/ Garbled \in {input.from, input.to}
  \/ ~Aligned(Window(input, t))
  \/ LET q == Window(input, t) IN q.to - q.from > MaxRange(q.interval)

(* isValidAccessStatisticsQuery: what the repository demands.              *)
IsValidQuery(q) ==
  /\ q.from >= 0
  /\ Aligned(q)
  /\ q.to - q.from <= (IF q.interval = "hour" THEN 31 ELSE 366) * 86400

(* Slip: the first bucket is left out.                                     *)
InWindowOpen(q, bucket) == q.from < bucket /\ bucket < q.to

(* The hours of the window.                                                *)
InWindow(q, bucket) == q.from <= bucket /\ bucket < q.to

(* Slip: days are counted from the beginning of the window.                *)
PointOfShifted(q, bucket) ==
  q.from + ((bucket - q.from) \div BucketSeconds(q.interval) + 1)
             * BucketSeconds(q.interval)

(* The point of the trend that an hour belongs to.                         *)
PointOf(q, bucket) == bucket - (bucket % BucketSeconds(q.interval))

-----------------------------------------------------------------------------
(* The rows of a link, as the three statements return them.                *)
HasRow(code, result) == totals[<<code, result>>].count > 0

LastOf(code, results) ==
  LET rows == {result \in results : HasRow(code, result)}
  IN  IF rows = {} THEN None
      ELSE CHOOSE last \in {totals[<<code, result>>].last : result \in rows} :
             \A result \in rows : totals[<<code, result>>].last <= last

ReadTotals(code) ==
  [count |-> [result \in AggregatedResults |-> totals[<<code, result>>].count],
   lastAccess |-> LastOf(code, {"success"}),
   lastAttempt |-> LastOf(code, AggregatedResults)]

(* SUM over the hourly rows of a link.                                     *)
HoursOf(code, result, buckets) ==
  [bucket \in buckets |-> hourly[<<code, bucket, result>>]]

Counted(code, result, buckets) == SumOf(HoursOf(code, result, buckets))

(* GROUP BY bucket_start, result; a point is there when it has a row.      *)
ReadTrend(code, q) ==
  LET hours == {bucket \in Buckets :
                  /\ InWindow(q, bucket)
                  /\ \E result \in AggregatedResults :
                       hourly[<<code, bucket, result>>] > 0}
  IN  [point \in {PointOf(q, bucket) : bucket \in hours} |->
         [result \in AggregatedResults |->
            Counted(code, result,
                    {bucket \in hours : PointOf(q, bucket) = point})]]

-----------------------------------------------------------------------------
Init ==
  /\ links \in SUBSET Codes
  /\ receipts = [e \in EventIds |-> None]
  /\ totals = [k \in TotalsKeys |-> NoTotals]
  /\ hourly = [k \in HourlyKeys |-> 0]
  /\ now \in Times
  /\ stage = [r \in Requests |-> "idle"]
  /\ asked = [r \in Requests |-> None]
  /\ earlier = [r \in Requests |-> {}]
  /\ query = [r \in Requests |-> None]
  /\ summary = [r \in Requests |-> None]
  /\ trend = [r \in Requests |-> None]
  /\ answer = [r \in Requests |-> "none"]

(* The rest of the system: time passes, links are created, and a consumer  *)
(* records a visit that has happened.                                      *)
Tick ==
  /\ now' \in {t \in Times : t > now}
  /\ UNCHANGED <<tables, handler>>

CreateLink(code) ==
  /\ Projection!CreateLink(code)
  /\ UNCHANGED <<now, handler>>

Record(p, o) ==
  /\ Published[p][o].at \div 1000 <= now
  /\ Projection!Record(p, o)
  /\ UNCHANGED <<now, handler>>

-----------------------------------------------------------------------------
Goto(r, next) == stage' = [stage EXCEPT ![r] = next]

Answer(r, status) ==
  /\ Goto(r, "answered")
  /\ answer' = [answer EXCEPT ![r] = status]

Ask(r, user, code, input) ==
  /\ stage[r] = "idle"
  /\ Goto(r, "owner")
  /\ asked' = [asked EXCEPT ![r] = [user |-> user, code |-> code,
                                    input |-> input]]
  /\ earlier' = [earlier EXCEPT ![r] = {s \in Requests :
                                          stage[s] = "answered"}]
  /\ UNCHANGED <<tables, now, query, summary, trend, answer>>

(* ShortLinkService::getForOwner: the first statement.                     *)
FindForOwner(r) ==
  LET code == asked[r].code
  IN  /\ stage[r] = "owner"
      /\ IF code \in links /\ OwnerOf[code] = asked[r].user
         THEN Goto(r, "parse") /\ UNCHANGED answer
         ELSE Answer(r, "404")
      /\ UNCHANGED <<tables, now, asked, earlier, query, summary, trend>>

ParseQuery(r) ==
  /\ stage[r] = "parse"
  /\ IF Refused(asked[r].input, now)
     THEN Answer(r, "400") /\ UNCHANGED query
     ELSE /\ Goto(r, "link")
          /\ query' = [query EXCEPT ![r] = Window(asked[r].input, now)]
          /\ UNCHANGED answer
  /\ UNCHANGED <<tables, now, asked, earlier, summary, trend>>

(* MySqlAccessStatisticsRepository::get: its check, which throws, and its  *)
(* first statement.                                                        *)
SelectLink(r) ==
  /\ stage[r] = "link"
  /\ IF ~IsValidQuery(query[r]) THEN Answer(r, "500")
     ELSE IF asked[r].code \notin links THEN Answer(r, "404")
     ELSE Goto(r, "totals") /\ UNCHANGED answer
  /\ UNCHANGED <<tables, now, asked, earlier, query, summary, trend>>

SelectTotals(r) ==
  /\ stage[r] = "totals"
  /\ Goto(r, "trend")
  /\ summary' = [summary EXCEPT ![r] = ReadTotals(asked[r].code)]
  /\ UNCHANGED <<tables, now, asked, earlier, query, trend, answer>>

SelectTrend(r) ==
  /\ stage[r] = "trend"
  /\ trend' = [trend EXCEPT ![r] = ReadTrend(asked[r].code, query[r])]
  /\ Answer(r, "200")
  /\ UNCHANGED <<tables, now, asked, earlier, query, summary>>

(* A statement fails, or no connection can be reopened: the exception      *)
(* becomes a 500.                                                          *)
StatementFails(r) ==
  /\ stage[r] \in {"owner", "link", "totals", "trend"}
  /\ Answer(r, "500")
  /\ UNCHANGED <<tables, now, asked, earlier, query, summary, trend>>

Handle(r) ==
  \/ FindForOwner(r)
  \/ ParseQuery(r)
  \/ SelectLink(r)
  \/ SelectTotals(r)
  \/ SelectTrend(r)
  \/ StatementFails(r)

Next ==
  \/ Tick
  \/ \E code \in Codes : CreateLink(code)
  \/ \E p \in Partitions : \E o \in DOMAIN Published[p] : Record(p, o)
  \/ \E r \in Requests, user \in Users, code \in Codes, input \in Inputs :
       Ask(r, user, code, input)
  \/ \E r \in Requests : Handle(r)

Spec == Init /\ [][Next]_vars

-----------------------------------------------------------------------------
Shown(r) == answer[r] = "200"

TrendTotal(r, result) ==
  SumOf([point \in DOMAIN trend[r] |-> trend[r][point][result]])

Outside(q) == {bucket \in Buckets : bucket < q.from \/ bucket >= q.to}

Agree(r) ==
  \A result \in AggregatedResults :
    summary[r].count[result] <=
      TrendTotal(r, result) + Counted(asked[r].code, result, Outside(query[r]))

CountsTrendOf(r, s) ==
  \A result \in AggregatedResults : TrendTotal(s, result) <= summary[r].count[result]

(***************************************************************************)
(* The summary and the trend are read at two moments, the trend after the  *)
(* summary: whatever the consumers record in between, a visit the summary  *)
(* counts is in the trend or lies outside of the window, and a visit that  *)
(* a trend has shown is counted by the summary of every later request      *)
(* (MySqlAccessStatisticsRepository::get, two SELECTs without a            *)
(* transaction around them; the consumer writes both rows in one).         *)
(***************************************************************************)
PartsAgree ==
  \A r \in Requests : Shown(r) =>
    /\ Agree(r)
    /\ \A s \in earlier[r] :
         Shown(s) /\ asked[s].code = asked[r].code => CountsTrendOf(r, s)

InTrend(r, at, results) ==
  at # None /\ query[r].from <= HourBucket(at) /\ HourBucket(at) < query[r].to =>
    \E point \in DOMAIN trend[r] :
      /\ point <= at \div 1000
      /\ at \div 1000 < point + BucketSeconds(query[r].interval)
      /\ \E result \in results : trend[r][point][result] > 0

LastVisitsShow(r) ==
  /\ InTrend(r, summary[r].lastAccess, {"success"})
  /\ InTrend(r, summary[r].lastAttempt, AggregatedResults)

(***************************************************************************)
(* An answer agrees with itself about the last visit: when last_access_at  *)
(* or last_attempt_at lies in the window, the trend has the point of that  *)
(* moment, and with visits in it.                                          *)
(***************************************************************************)
LastVisitIsInTrend == \A r \in Requests : Shown(r) => LastVisitsShow(r)

NotBefore(later, sooner) == sooner # None => later # None /\ sooner <= later

NoLess(later, sooner) ==
  /\ \A result \in AggregatedResults :
       sooner.count[result] <= later.count[result]
  /\ NotBefore(later.lastAccess, sooner.lastAccess)
  /\ NotBefore(later.lastAttempt, sooner.lastAttempt)

(***************************************************************************)
(* Eventual, but never backwards: an answer to a request that began after  *)
(* another was given shows no fewer visits and no earlier last visit, in   *)
(* whatever order the consumers record them.                               *)
(***************************************************************************)
AnswersNeverGoBack ==
  \A r \in Requests : \A s \in earlier[r] :
    Shown(r) /\ Shown(s) /\ asked[r].code = asked[s].code =>
      NoLess(summary[r], summary[s])

(***************************************************************************)
(* The handler and the repository check a query with code of their own:    *)
(* what the first lets through, the second never refuses, so no query      *)
(* string turns into a 500 by itself (parseStatisticsQuery against         *)
(* isValidAccessStatisticsQuery).                                          *)
(***************************************************************************)
AcceptedQueriesAreValid ==
  \A r \in Requests : stage[r] = "link" => IsValidQuery(query[r])

-----------------------------------------------------------------------------
AskedType == [user : Users, code : Codes, input : Inputs]

QueryType == [interval : {"hour", "day"}, from : Int, to : Int]

SummaryType == [count : [AggregatedResults -> Nat],
                lastAccess : Nat \cup {None},
                lastAttempt : Nat \cup {None}]

ReceiptType == [disposition : Dispositions,
                source : [partition : Partitions, offset : Nat]]

TypeOK ==
  /\ links \subseteq Codes
  /\ receipts \in [EventIds -> ReceiptType \cup {None}]
  /\ totals \in [TotalsKeys -> TotalsRow]
  /\ hourly \in [HourlyKeys -> Nat]
  /\ now \in Times
  /\ stage \in [Requests -> {"idle", "owner", "parse", "link", "totals", "trend",
                             "answered"}]
  /\ asked \in [Requests -> AskedType \cup {None}]
  /\ earlier \in [Requests -> SUBSET Requests]
  /\ query \in [Requests -> QueryType \cup {None}]
  /\ summary \in [Requests -> SummaryType \cup {None}]
  /\ answer \in [Requests -> {"none", "200", "400", "404", "500"}]

(***************************************************************************)
(* The inductive strengthening: what a request has read of the totals is   *)
(* never ahead of the table, and not behind what earlier answers show.     *)
(***************************************************************************)
HasRead(r) == stage[r] = "trend" \/ Shown(r)

RequestInv(r) ==
  /\ stage[r] # "idle" => asked[r] \in AskedType
  /\ answer[r] # "none" => stage[r] = "answered"
  /\ \A s \in earlier[r] : stage[s] = "answered"
  /\ HasRead(r) =>
       /\ summary[r] \in SummaryType
       /\ NoLess(ReadTotals(asked[r].code), summary[r])
       /\ \A s \in earlier[r] :
            Shown(s) /\ asked[r].code = asked[s].code => NoLess(summary[r], summary[s])

Inv ==
  /\ TypeOK
  /\ \A r \in Requests : RequestInv(r)
  /\ AcceptedQueriesAreValid

(***************************************************************************)
(* The two tables belong together: the hours of a link add up to its total *)
(* and the hour of its last visit has a row.  What a request has read of   *)
(* either stays behind the other, which it reads later or not again.       *)
(***************************************************************************)
HasVisit(code, result, at) ==
  /\ HourBucket(at) \in Buckets
  /\ hourly[<<code, HourBucket(at), result>>] > 0

TablesInv ==
  \A code \in Codes, result \in AggregatedResults :
    LET row == totals[<<code, result>>]
    IN  /\ IsFiniteSet(Units(HoursOf(code, result, Buckets)))
        /\ row.count = Counted(code, result, Buckets)
        /\ row.count > 0 => HasVisit(code, result, row.last)

ReadingInv(r) ==
  LET code == asked[r].code
  IN  /\ stage[r] \in {"link", "totals", "trend"} => query[r] \in QueryType
      /\ stage[r] = "trend" =>
           /\ summary[r].lastAccess # None =>
                HasVisit(code, "success", summary[r].lastAccess)
           /\ summary[r].lastAttempt # None =>
                \E result \in AggregatedResults :
                  HasVisit(code, result, summary[r].lastAttempt)
      /\ HasRead(r) =>
           \A s \in earlier[r] :
             Shown(s) /\ asked[s].code = code => CountsTrendOf(r, s)
      /\ Shown(r) =>
           /\ \A result \in AggregatedResults :
                /\ TrendTotal(r, result) \in Nat
                /\ TrendTotal(r, result) <= totals[<<code, result>>].count
           /\ Agree(r)
           /\ LastVisitsShow(r)

VisitsInv ==
  /\ TablesInv
  /\ DOMAIN trend = Requests
  /\ \A r \in Requests : ReadingInv(r)
=============================================================================
