--------------------------- MODULE CountingProofs ---------------------------
(***************************************************************************)
(* Proofs about the two places where requests are counted: the statistics  *)
(* query, which adds up the rows of the tables, for any number of requests,*)
(* links, partitions and messages; and the metrics of the server, which    *)
(* its threads count and read without a lock, for any number of threads,   *)
(* bounds and requests.  They share the lemmas about sums.                 *)
(***************************************************************************)
EXTENDS StatisticsQuery, HttpMetrics, FiniteSetTheorems, WellFoundedInduction, TLAPS

-----------------------------------------------------------------------------
(***************************************************************************)
(* Sums as numbers of units: what SUM gives grows with its rows, splits    *)
(* with them and may be taken group by group.                              *)
(***************************************************************************)
LEMMA UnitsOf ==
  ASSUME NEW S, NEW f \in [S -> Nat]
  PROVE  /\ \A x, i : <<x, i>> \in Units(f) <=> x \in S /\ i \in 1..f[x]
         /\ \A u \in Units(f) : u = <<u[1], u[2]>> /\ u[1] \in S /\ u[2] \in 1..f[u[1]]
BY DEF Units

LEMMA SumType ==
  ASSUME NEW S, NEW f \in [S -> Nat], IsFiniteSet(Units(f))
  PROVE  SumOf(f) \in Nat
BY FS_CardinalityType DEF SumOf

LEMMA SumOfNothing ==
  ASSUME NEW S, NEW f \in [S -> Nat], \A x \in S : f[x] = 0
  PROVE  IsFiniteSet(Units(f)) /\ SumOf(f) = 0
<1>1. Units(f) = {}
  BY DEF Units
<1> QED
  BY <1>1, FS_EmptySet DEF SumOf

LEMMA SumIsPositive ==
  ASSUME NEW S, NEW f \in [S -> Nat], IsFiniteSet(Units(f)), NEW x \in S, f[x] > 0
  PROVE  SumOf(f) > 0
<1>1. <<x, 1>> \in Units(f)
  BY UnitsOf
<1>2. SumOf(f) # 0 /\ SumOf(f) \in Nat
  BY <1>1, FS_EmptySet, SumType DEF SumOf
<1> QED
  BY <1>2

LEMMA SumGrows ==
  ASSUME NEW S, NEW f \in [S -> Nat], NEW T, NEW g \in [T -> Nat],
         S \subseteq T, \A x \in S : f[x] <= g[x], IsFiniteSet(Units(g))
  PROVE  IsFiniteSet(Units(f)) /\ SumOf(f) <= SumOf(g)
<1>1. ASSUME NEW u \in Units(f)
      PROVE  u \in Units(g)
  <2>1. u = <<u[1], u[2]>> /\ u[1] \in S /\ u[2] \in 1..f[u[1]]
    BY UnitsOf
  <2>2. u[2] \in 1..g[u[1]] /\ u[1] \in T
    BY <2>1
  <2> QED
    BY <2>1, <2>2, UnitsOf
<1>2. Units(f) \in SUBSET Units(g)
  BY <1>1
<1> QED
  BY <1>2, FS_Subset DEF SumOf

LEMMA SumSplits ==
  ASSUME NEW S, NEW f \in [S -> Nat], IsFiniteSet(Units(f)),
         NEW A \in SUBSET S, NEW B \in SUBSET S,
         \A x \in S : x \in A \/ x \in B \/ f[x] = 0
  PROVE  SumOf(f) <= SumOf([x \in A |-> f[x]]) + SumOf([x \in B |-> f[x]])
<1> DEFINE g == [x \in A |-> f[x]]
           h == [x \in B |-> f[x]]
<1>1. g \in [A -> Nat] /\ h \in [B -> Nat]
  OBVIOUS
<1>2. IsFiniteSet(Units(g)) /\ IsFiniteSet(Units(h))
  <2>1. (\A x \in A : g[x] <= f[x]) /\ (\A x \in B : h[x] <= f[x])
    OBVIOUS
  <2> HIDE DEF g, h
  <2> QED
    BY <1>1, <2>1, SumGrows
<1>3. Units(f) = Units(g) \cup Units(h)
  BY DEF Units
<1> HIDE DEF g, h
<1>4. Cardinality(Units(f)) =
        Cardinality(Units(g)) + Cardinality(Units(h)) - Cardinality(Units(g) \cap Units(h))
  BY <1>2, <1>3, FS_Union
<1>5. /\ Cardinality(Units(g)) \in Nat /\ Cardinality(Units(h)) \in Nat
      /\ Cardinality(Units(g) \cap Units(h)) \in Nat
  BY <1>2, FS_CardinalityType, FS_Intersection
<1>6. SumOf(f) <= SumOf(g) + SumOf(h)
  BY <1>4, <1>5 DEF SumOf
<1> QED
  BY <1>6 DEF g, h

LEMMA SumCountsOneMore ==
  ASSUME NEW S, NEW f \in [S -> Nat], IsFiniteSet(Units(f)), NEW k \in S
  PROVE  LET g == [f EXCEPT ![k] = f[k] + 1]
         IN  IsFiniteSet(Units(g)) /\ SumOf(g) = SumOf(f) + 1
<1> DEFINE g == [f EXCEPT ![k] = f[k] + 1]
           unit == <<k, f[k] + 1>>
<1>1. g \in [S -> Nat] /\ g[k] = f[k] + 1 /\ f[k] \in Nat
      /\ \A x \in S : x # k => g[x] = f[x]
  OBVIOUS
<1> HIDE DEF g
<1>2. unit \notin Units(f)
  BY <1>1, UnitsOf
<1>3. ASSUME NEW x \in S, NEW i
      PROVE  i \in 1..g[x] <=> i \in 1..f[x] \/ (x = k /\ i = f[k] + 1)
  <2>1. CASE x = k
    BY <1>1, <2>1
  <2>2. CASE x # k
    BY <1>1, <2>2
  <2> QED
    BY <2>1, <2>2
<1>4. ASSUME NEW u \in Units(g)
      PROVE  u \in Units(f) \cup {unit}
  <2>1. u = <<u[1], u[2]>> /\ u[1] \in S /\ u[2] \in 1..g[u[1]]
    BY <1>1, UnitsOf
  <2>2. u[2] \in 1..f[u[1]] \/ (u[1] = k /\ u[2] = f[k] + 1)
    BY <1>3, <2>1
  <2> QED
    BY <2>1, <2>2, UnitsOf
<1>5. ASSUME NEW u \in Units(f) \cup {unit}
      PROVE  u \in Units(g)
  <2>1. CASE u = unit
    <3>1. f[k] + 1 \in 1..g[k]
      BY <1>1
    <3> QED
      BY <1>1, <2>1, <3>1, UnitsOf
  <2>2. CASE u \in Units(f)
    <3>1. u = <<u[1], u[2]>> /\ u[1] \in S /\ u[2] \in 1..f[u[1]]
      BY <2>2, UnitsOf
    <3>2. u[2] \in 1..g[u[1]]
      BY <1>3, <3>1
    <3> QED
      BY <1>1, <3>1, <3>2, UnitsOf
  <2> QED
    BY <2>1, <2>2
<1>6. Units(g) = Units(f) \cup {unit}
  BY <1>4, <1>5
<1>7. IsFiniteSet(Units(g)) /\ SumOf(g) = SumOf(f) + 1
  BY <1>2, <1>6, FS_AddElement DEF SumOf
<1> QED
  BY <1>7 DEF g

(* A sum over finitely many rows is finite.                                *)
LEMMA UnitsAreFinite ==
  ASSUME NEW S, IsFiniteSet(S), NEW f \in [S -> Nat]
  PROVE  IsFiniteSet(Units(f))
<1> DEFINE column == [x \in S |-> {x} \X (1..f[x])]
           columns == {{x} \X (1..f[x]) : x \in S}
<1>1. column \in Surjection(S, columns)
  BY DEF Surjection
<1>2. IsFiniteSet(columns)
  BY <1>1, FS_Surjection
<1>3. ASSUME NEW C \in columns
      PROVE  IsFiniteSet(C)
  <2>1. PICK x \in S : C = {x} \X (1..f[x])
    OBVIOUS
  <2>2. IsFiniteSet({x})
    BY FS_Singleton
  <2>3. IsFiniteSet(1..f[x])
    <3>1. 1 \in Int /\ f[x] \in Int
      OBVIOUS
    <3> QED
      BY <3>1, FS_Interval
  <2> QED
    BY <2>1, <2>2, <2>3, FS_Product
<1>4. Units(f) = UNION columns
  BY DEF Units
<1> QED
  BY <1>2, <1>3, <1>4, FS_UNION

-----------------------------------------------------------------------------
(***************************************************************************)
(* The statistics query.                                                   *)
(***************************************************************************)
Stages == {"idle", "owner", "parse", "link", "totals", "trend", "answered"}
Statuses == {"none", "200", "400", "404", "500"}

-----------------------------------------------------------------------------
(***************************************************************************)
(* The two checks of a query agree.                                        *)
(***************************************************************************)
LEMMA NextBoundaryReaches ==
  ASSUME NEW t \in Nat, NEW size \in {3600, 86400}
  PROVE  NextBoundary(t, size) \in Nat /\ NextBoundary(t, size) >= t
<1>1. CASE size = 3600
  BY <1>1, SMTT(30) DEF NextBoundary
<1>2. CASE size = 86400
  BY <1>2, SMTT(30) DEF NextBoundary
<1> QED
  BY <1>1, <1>2

LEMMA WindowType ==
  ASSUME NEW input \in Inputs, NEW t \in Times, ~Refused(input, t)
  PROVE  Window(input, t) \in QueryType /\ Window(input, t).from >= 0
<1> DEFINE q == Window(input, t)
           interval == IF input.interval = "hour" THEN "hour" ELSE "day"
           end == NextBoundary(t, BucketSeconds(interval))
<1>1. t \in Nat /\ t >= Week /\ Week \in Nat
  BY QueryAssumption DEF Week
<1>2. BucketSeconds(interval) \in {3600, 86400}
  BY DEF BucketSeconds
<1>3. end \in Nat /\ end >= Week
  BY <1>1, <1>2, NextBoundaryReaches
<1>4. /\ input.from \in Nat \cup {None, Garbled} /\ input.to \in Nat \cup {None, Garbled}
      /\ input.from # Garbled /\ input.to # Garbled
  BY QueryAssumption DEF InputType, Refused
<1>5. q = [interval |-> interval,
           from |-> IF input.from = None THEN end - Week ELSE input.from,
           to   |-> IF input.to = None THEN end ELSE input.to]
  BY DEF Window
<1> HIDE DEF end
<1>6. q.from \in Nat /\ q.to \in Nat /\ q.interval \in {"hour", "day"}
  BY <1>1, <1>3, <1>4, <1>5
<1> QED
  BY <1>5, <1>6 DEF QueryType

(***************************************************************************)
(* What parseStatisticsQuery lets through, isValidAccessStatisticsQuery    *)
(* never refuses, at any time of day and for any query string.             *)
(***************************************************************************)
THEOREM ParsedQueriesAreValid ==
  ASSUME NEW input \in Inputs, NEW t \in Times, ~Refused(input, t)
  PROVE  IsValidQuery(Window(input, t))
<1> DEFINE q == Window(input, t)
<1>1. q \in QueryType /\ q.from >= 0
  BY WindowType
<1>2. Aligned(q) /\ ~(q.to - q.from > MaxRange(q.interval))
  BY DEF Refused
<1> HIDE DEF q
<1>3. q.to - q.from <= MaxRange(q.interval)
  BY <1>1, <1>2 DEF QueryType, MaxRange
<1>4. IsValidQuery(q)
  BY <1>1, <1>2, <1>3 DEF IsValidQuery, MaxRange
<1> QED
  BY <1>4 DEF q

-----------------------------------------------------------------------------
(***************************************************************************)
(* The last access of a link over some results: the largest in their rows. *)
(***************************************************************************)
LEMMA LargestExists ==
  ASSUME NEW f \in [AggregatedResults -> Nat], NEW R \in SUBSET AggregatedResults, R # {}
  PROVE  \E x \in R : \A y \in R : f[y] <= f[x]
<1> DEFINE Largest(S) == \E x \in S : \A y \in S : f[y] <= f[x]
<1>1. ASSUME NEW S \in SUBSET AggregatedResults, NEW z \in AggregatedResults,
             S = {} \/ Largest(S)
      PROVE  Largest(S \cup {z})
  <2>1. CASE S = {}
    BY <2>1
  <2>2. CASE S # {}
    <3>1. PICK x \in S : \A y \in S : f[y] <= f[x]
      BY <1>1, <2>2
    <3>2. CASE f[z] <= f[x]
      BY <3>1, <3>2
    <3>3. CASE ~(f[z] <= f[x])
      <4>1. \A y \in S : f[y] <= f[z]
        BY <3>1, <3>3
      <4> QED
        BY <4>1
    <3> QED
      BY <3>2, <3>3
  <2> QED
    BY <2>1, <2>2
<1> DEFINE Part(z) == R \cap {z}
           R1 == Part("success")
           R2 == R1 \cup Part("disabled")
           R3 == R2 \cup Part("expired")
           R4 == R3 \cup Part("error")
<1>2. ASSUME NEW S \in SUBSET AggregatedResults, NEW z \in AggregatedResults,
             S = {} \/ Largest(S)
      PROVE  S \cup Part(z) = {} \/ Largest(S \cup Part(z))
  <2> HIDE DEF Largest
  <2>1. CASE z \in R
    <3>1. S \cup Part(z) = S \cup {z}
      BY <2>1
    <3> QED
      BY <1>1, <1>2, <3>1
  <2>2. CASE z \notin R
    <3>1. S \cup Part(z) = S
      BY <2>2
    <3> QED
      BY <1>2, <3>1
  <2> QED
    BY <2>1, <2>2
<1> HIDE DEF Largest, Part
<1>3. \A z \in AggregatedResults : Part(z) \subseteq AggregatedResults
  BY DEF Part
<1>4. {} \cup R1 = R1 /\ {"success", "disabled", "expired", "error"} = AggregatedResults
  BY DEF AggregatedResults
<1>5. R1 = {} \/ Largest(R1)
  BY <1>2, <1>4
<1>6. R2 = {} \/ Largest(R2)
  BY <1>2, <1>3, <1>4, <1>5
<1>7. R3 = {} \/ Largest(R3)
  BY <1>2, <1>3, <1>4, <1>6
<1>8. R4 = {} \/ Largest(R4)
  BY <1>2, <1>3, <1>4, <1>7
<1>9. R4 = R
  BY <1>4 DEF Part
<1> QED
  BY <1>8, <1>9 DEF Largest

(* LastOf, of a table that is given.                                       *)
Rows(table, code, results) ==
  {result \in results : table[<<code, result>>].count > 0}

LastIn(table, code, results) ==
  LET rows == Rows(table, code, results)
  IN  IF rows = {} THEN None
      ELSE CHOOSE last \in {table[<<code, result>>].last : result \in rows} :
             \A result \in rows : table[<<code, result>>].last <= last

LEMMA LastInFacts ==
  ASSUME NEW table \in [TotalsKeys -> TotalsRow], NEW code \in Codes,
         NEW results \in SUBSET AggregatedResults
  PROVE  LET R == Rows(table, code, results)
             last == LastIn(table, code, results)
         IN  /\ R = {} => last = None
             /\ R # {} => /\ last \in Nat
                          /\ \E result \in R : last = table[<<code, result>>].last
                          /\ \A result \in R : table[<<code, result>>].last <= last
<1> DEFINE R == Rows(table, code, results)
           f == [result \in AggregatedResults |-> table[<<code, result>>].last]
           Values == {table[<<code, result>>].last : result \in R}
<1>1. f \in [AggregatedResults -> Nat] /\ R \in SUBSET AggregatedResults
  BY DEF TotalsKeys, TotalsRow, Rows
<1>2. CASE R = {}
  BY <1>2 DEF LastIn
<1>3. CASE R # {}
  <2>1. PICK x \in R : \A y \in R : f[y] <= f[x]
    <3> HIDE DEF R, f
    <3> QED
      BY <1>1, <1>3, LargestExists
  <2>2. \E last \in Values : \A y \in R : table[<<code, y>>].last <= last
    BY <1>1, <2>1
  <2>3. LastIn(table, code, results) =
          CHOOSE last \in Values : \A y \in R : table[<<code, y>>].last <= last
    BY <1>3 DEF LastIn
  <2>4. /\ LastIn(table, code, results) \in Values
        /\ \A y \in R : table[<<code, y>>].last <= LastIn(table, code, results)
    <3> HIDE DEF Values, R
    <3> QED
      BY <2>2, <2>3
  <2>5. Values \subseteq Nat
    BY <1>1
  <2> QED
    BY <1>3, <2>4, <2>5
<1> QED
  BY <1>2, <1>3

(* A table grows when no count and no last access becomes less.            *)
Grows(old, new) ==
  \A key \in TotalsKeys :
    /\ old[key].count <= new[key].count
    /\ old[key].count > 0 => old[key].last <= new[key].last

LEMMA LastInGrows ==
  ASSUME NEW old \in [TotalsKeys -> TotalsRow], NEW new \in [TotalsKeys -> TotalsRow],
         Grows(old, new), NEW code \in Codes, NEW results \in SUBSET AggregatedResults
  PROVE  NotBefore(LastIn(new, code, results), LastIn(old, code, results))
<1> DEFINE R == Rows(old, code, results)
           S == Rows(new, code, results)
<1>1. CASE R = {}
  BY <1>1, LastInFacts DEF NotBefore
<1>2. CASE R # {}
  <2>1. PICK x \in R : LastIn(old, code, results) = old[<<code, x>>].last
    BY <1>2, LastInFacts
  <2>2. /\ <<code, x>> \in TotalsKeys /\ old[<<code, x>>].count > 0
        /\ old[<<code, x>>] \in TotalsRow /\ new[<<code, x>>] \in TotalsRow
    BY DEF TotalsKeys, Rows
  <2>3. old[<<code, x>>].last <= new[<<code, x>>].last /\ x \in S
    BY <2>2 DEF Grows, Rows, TotalsRow
  <2>4. /\ LastIn(new, code, results) \in Nat
        /\ new[<<code, x>>].last <= LastIn(new, code, results)
    BY <2>3, LastInFacts
  <2> QED
    BY <2>1, <2>2, <2>3, <2>4, QueryAssumption DEF NotBefore, TotalsRow
<1> QED
  BY <1>1, <1>2

(* What the second statement returns, of a table that is given.            *)
TotalsIn(table, code) ==
  [count |-> [result \in AggregatedResults |-> table[<<code, result>>].count],
   lastAccess |-> LastIn(table, code, {"success"}),
   lastAttempt |-> LastIn(table, code, AggregatedResults)]

LEMMA ReadTotalsIsTotalsIn ==
  ASSUME NEW code
  PROVE  ReadTotals(code) = TotalsIn(totals, code)
BY DEF ReadTotals, TotalsIn, LastOf, LastIn, Rows, HasRow

LEMMA TotalsInFacts ==
  ASSUME NEW table \in [TotalsKeys -> TotalsRow], NEW code \in Codes
  PROVE  TotalsIn(table, code) \in SummaryType
<1>1. /\ {"success"} \in SUBSET AggregatedResults
      /\ AggregatedResults \in SUBSET AggregatedResults
  BY DEF AggregatedResults
<1>2. \A results \in SUBSET AggregatedResults :
        LastIn(table, code, results) \in Nat \cup {None}
  BY LastInFacts
<1>3. [result \in AggregatedResults |-> table[<<code, result>>].count]
        \in [AggregatedResults -> Nat]
  BY DEF TotalsKeys, TotalsRow
<1> QED
  BY <1>1, <1>2, <1>3 DEF TotalsIn, SummaryType

LEMMA TotalsInGrow ==
  ASSUME NEW old \in [TotalsKeys -> TotalsRow], NEW new \in [TotalsKeys -> TotalsRow],
         Grows(old, new), NEW code \in Codes
  PROVE  NoLess(TotalsIn(new, code), TotalsIn(old, code))
<1>1. /\ {"success"} \in SUBSET AggregatedResults
      /\ AggregatedResults \in SUBSET AggregatedResults
  BY DEF AggregatedResults
<1>2. \A results \in SUBSET AggregatedResults :
        NotBefore(LastIn(new, code, results), LastIn(old, code, results))
  BY LastInGrows
<1>3. \A result \in AggregatedResults : <<code, result>> \in TotalsKeys
  BY DEF TotalsKeys
<1> QED
  BY <1>1, <1>2, <1>3 DEF NoLess, TotalsIn, Grows

LEMMA NoLessTransitive ==
  ASSUME NEW a \in SummaryType, NEW b \in SummaryType, NEW c \in SummaryType,
         NoLess(a, b), NoLess(b, c)
  PROVE  NoLess(a, c)
BY QueryAssumption DEF NoLess, NotBefore, SummaryType

LEMMA NoLessReflexive ==
  ASSUME NEW a \in SummaryType
  PROVE  NoLess(a, a)
BY QueryAssumption DEF NoLess, NotBefore, SummaryType

-----------------------------------------------------------------------------
(***************************************************************************)
(* The tables grow: a visit raises one count and never lowers the last     *)
(* access of its row, whenever it is recorded.                             *)
(***************************************************************************)
LEMMA MessageFields ==
  ASSUME NEW p \in Partitions, NEW o \in DOMAIN Published[p]
  PROVE  /\ o \in Nat
         /\ Published[p][o] \in Messages
         /\ Published[p][o].at \in Nat
         /\ Published[p][o].id \in EventIds
         /\ Published[p][o].result \in Results
BY QueryAssumption, MessagesAssumption DEF MessageType

LEMMA UpsertGrows ==
  ASSUME NEW old \in [TotalsKeys -> TotalsRow], NEW key, NEW at \in Nat,
         NEW new,
         new = [old EXCEPT ![key] =
                  IF old[key].count = 0
                  THEN [count |-> 1, first |-> at, last |-> at]
                  ELSE [count |-> old[key].count + 1,
                        first |-> Lesser(old[key].first, at),
                        last  |-> Greater(old[key].last, at)]]
  PROVE  new \in [TotalsKeys -> TotalsRow] /\ Grows(old, new)
<1>1. CASE key \in TotalsKeys
  <2> DEFINE row == IF old[key].count = 0
                    THEN [count |-> 1, first |-> at, last |-> at]
                    ELSE [count |-> old[key].count + 1,
                          first |-> Lesser(old[key].first, at),
                          last  |-> Greater(old[key].last, at)]
  <2>1. old[key] \in TotalsRow
    BY <1>1
  <2>2. /\ row \in TotalsRow /\ old[key].count <= row.count
        /\ old[key].count > 0 => old[key].last <= row.last
    BY <2>1 DEF TotalsRow, Lesser, Greater
  <2> HIDE DEF row
  <2>3. new = [old EXCEPT ![key] = row]
    BY DEF row
  <2>4. new \in [TotalsKeys -> TotalsRow]
    BY <2>2, <2>3
  <2>5. \A k \in TotalsKeys : k # key => new[k] = old[k] /\ old[k] \in TotalsRow
    BY <2>3
  <2> QED
    BY <1>1, <2>2, <2>3, <2>4, <2>5 DEF Grows, TotalsRow
<1>2. CASE key \notin TotalsKeys
  <2>1. new = old
    BY <1>2
  <2>2. \A k \in TotalsKeys : old[k] \in TotalsRow
    OBVIOUS
  <2>3. Grows(old, old)
    BY <2>2 DEF Grows, TotalsRow
  <2> QED
    BY <2>1, <2>3
<1> QED
  BY <1>1, <1>2

LEMMA RecordGrows ==
  ASSUME TypeOK, NEW p \in Partitions, NEW o \in DOMAIN Published[p], Record(p, o)
  PROVE  /\ totals' \in [TotalsKeys -> TotalsRow] /\ Grows(totals, totals')
         /\ hourly' \in [HourlyKeys -> Nat]
         /\ receipts' \in [EventIds -> ReceiptType \cup {None}]
         /\ UNCHANGED <<links, now, handler>>
<1> DEFINE m == Published[p][o]
<1>1. /\ o \in Nat /\ m \in Messages /\ m.at \in Nat /\ m.id \in EventIds
      /\ m.result \in Results
  BY MessageFields
<1>2. UNCHANGED <<links, now, handler>>
  BY DEF Record, Projection!Record
<1>3. receipts' \in [EventIds -> ReceiptType \cup {None}]
  BY <1>1 DEF TypeOK, Record, Projection!Record, Projection!FinalDisposition,
       Projection!Source, ReceiptType, Dispositions
<1>4. CASE m.result = "not_found"
  BY <1>2, <1>3, <1>4 DEF TypeOK, Record, Projection!Record, Grows, TotalsRow
<1>5. CASE m.result # "not_found"
  <2>1. totals' = Projection!UpsertedTotals(totals, m)
        /\ hourly' = Projection!UpsertedHourly(hourly, m)
    BY <1>5 DEF Record, Projection!Record
  <2>2. hourly' \in [HourlyKeys -> Nat]
    <3> DEFINE k == Projection!HourlyKey(m)
    <3>1. hourly' = [hourly EXCEPT ![k] = hourly[k] + 1]
      BY <2>1 DEF Projection!UpsertedHourly
    <3> HIDE DEF k
    <3>2. CASE k \in HourlyKeys
      BY <3>1, <3>2 DEF TypeOK
    <3>3. CASE k \notin HourlyKeys
      BY <3>1, <3>3 DEF TypeOK
    <3> QED
      BY <3>2, <3>3
  <2>3. PICK old, new, key :
          /\ old = totals /\ old \in [TotalsKeys -> TotalsRow]
          /\ new = totals' /\ key = Projection!TotalsKey(m)
    BY DEF TypeOK
  <2>4. new = [old EXCEPT ![key] =
                 IF old[key].count = 0
                 THEN [count |-> 1, first |-> m.at, last |-> m.at]
                 ELSE [count |-> old[key].count + 1,
                       first |-> Lesser(old[key].first, m.at),
                       last  |-> Greater(old[key].last, m.at)]]
    BY <2>1, <2>3 DEF Projection!UpsertedTotals, Projection!Lesser, Projection!Greater,
         Lesser, Greater
  <2>5. old \in [TotalsKeys -> TotalsRow]
    BY <2>3
  <2>6. new \in [TotalsKeys -> TotalsRow] /\ Grows(old, new)
    <3> HIDE DEF m
    <3> QED
      BY <1>1, <2>4, <2>5, UpsertGrows
  <2> QED
    BY <1>2, <1>3, <2>2, <2>3, <2>6
<1> QED
  BY <1>4, <1>5

(* What a request has read stays behind the table.                         *)
LEMMA StillBehind ==
  ASSUME TypeOK, totals' \in [TotalsKeys -> TotalsRow], Grows(totals, totals'),
         NEW code \in Codes, NEW read \in SummaryType, NoLess(ReadTotals(code), read)
  PROVE  NoLess(ReadTotals(code)', read)
<1>1. PICK old \in [TotalsKeys -> TotalsRow], new \in [TotalsKeys -> TotalsRow] :
        old = totals /\ new = totals'
  BY DEF TypeOK
<1>2. ReadTotals(code) = TotalsIn(old, code) /\ ReadTotals(code)' = TotalsIn(new, code)
  BY <1>1 DEF ReadTotals, TotalsIn, LastOf, LastIn, Rows, HasRow
<1>3. /\ NoLess(TotalsIn(new, code), TotalsIn(old, code))
      /\ TotalsIn(new, code) \in SummaryType /\ TotalsIn(old, code) \in SummaryType
  BY <1>1, TotalsInGrow, TotalsInFacts
<1> QED
  BY <1>2, <1>3, NoLessTransitive

-----------------------------------------------------------------------------
(* The rest of the system takes a step.                                    *)
LEMMA TablesStep ==
  ASSUME Inv, UNCHANGED handler, TypeOK', Grows(totals, totals')
  PROVE  Inv'
<1>1. ASSUME NEW r \in Requests, HasRead(r)
      PROVE  NoLess(ReadTotals(asked[r].code)', summary[r])
  <2>1. PICK code \in Codes : code = asked[r].code
    BY <1>1 DEF Inv, RequestInv, AskedType, HasRead, Shown
  <2>2. PICK read \in SummaryType : read = summary[r]
    BY <1>1 DEF Inv, RequestInv
  <2>3. NoLess(ReadTotals(code), read)
    BY <1>1, <2>1, <2>2 DEF Inv, RequestInv
  <2>4. NoLess(ReadTotals(code)', read)
    BY <2>3, StillBehind DEF Inv, TypeOK
  <2>5. ReadTotals(asked[r].code)' = ReadTotals(code)'
    BY <2>1 DEF handler
  <2> QED
    BY <2>2, <2>4, <2>5
<1>2. ASSUME NEW r \in Requests
      PROVE  RequestInv(r)'
  BY <1>1, <1>2 DEF Inv, RequestInv, HasRead, Shown, handler
<1>3. AcceptedQueriesAreValid'
  BY DEF Inv, AcceptedQueriesAreValid, handler
<1> QED
  BY <1>2, <1>3 DEF Inv

LEMMA EnvironmentInv ==
  ASSUME Inv,
         \/ Tick
         \/ \E code \in Codes : CreateLink(code)
         \/ \E p \in Partitions : \E o \in DOMAIN Published[p] : Record(p, o)
  PROVE  Inv'
<1>0. Grows(totals, totals)
  <2>1. \A k \in TotalsKeys : totals[k] \in TotalsRow
    BY DEF Inv, TypeOK
  <2> QED
    BY <2>1 DEF Grows, TotalsRow
<1>1. CASE Tick
  <2>1. /\ UNCHANGED handler /\ totals' = totals
        /\ TypeOK'
    BY <1>1 DEF Tick, Inv, TypeOK, tables, handler
  <2> QED
    BY <1>0, <2>1, TablesStep
<1>2. ASSUME NEW code \in Codes, CreateLink(code)
      PROVE  Inv'
  <2>1. /\ UNCHANGED handler /\ totals' = totals
        /\ TypeOK'
    BY <1>2 DEF CreateLink, Projection!CreateLink, Inv, TypeOK, handler
  <2> QED
    BY <1>0, <2>1, TablesStep
<1>3. ASSUME NEW p \in Partitions, NEW o \in DOMAIN Published[p], Record(p, o)
      PROVE  Inv'
  <2>1. /\ totals' \in [TotalsKeys -> TotalsRow] /\ Grows(totals, totals')
        /\ hourly' \in [HourlyKeys -> Nat]
        /\ receipts' \in [EventIds -> ReceiptType \cup {None}]
        /\ UNCHANGED <<links, now, handler>>
    BY <1>3, RecordGrows DEF Inv
  <2>2. TypeOK'
    BY <2>1 DEF Inv, TypeOK, handler
  <2> QED
    BY <2>1, <2>2, TablesStep
<1> QED
  BY <1>1, <1>2, <1>3

-----------------------------------------------------------------------------
LEMMA AskInv ==
  ASSUME Inv, NEW r \in Requests, NEW user \in Users, NEW code \in Codes,
         NEW input \in Inputs, Ask(r, user, code, input)
  PROVE  Inv'
<1>1. /\ stage[r] = "idle" /\ stage' = [stage EXCEPT ![r] = "owner"]
      /\ asked' = [asked EXCEPT ![r] = [user |-> user, code |-> code, input |-> input]]
      /\ earlier' = [earlier EXCEPT ![r] = {s \in Requests : stage[s] = "answered"}]
      /\ UNCHANGED <<tables, now, query, summary, trend, answer>>
  BY DEF Ask, Goto
<1>2. TypeOK'
  BY <1>1 DEF Inv, TypeOK, AskedType, tables
<1>3. answer[r] = "none"
  BY <1>1 DEF Inv, TypeOK, RequestInv
<1>4. ASSUME NEW s \in Requests
      PROVE  RequestInv(s)'
  <2>1. CASE s = r
    BY <1>1, <1>3, <2>1 DEF Inv, TypeOK, RequestInv, HasRead, Shown, AskedType
  <2>2. CASE s # r
    <3>1. /\ stage'[s] = stage[s] /\ asked'[s] = asked[s] /\ earlier'[s] = earlier[s]
          /\ earlier[s] \subseteq Requests /\ r \notin earlier[s]
      BY <1>1, <2>2 DEF Inv, TypeOK, RequestInv
    <3>2. \A u \in earlier[s] : stage'[u] = stage[u] /\ asked'[u] = asked[u]
      BY <1>1, <3>1 DEF Inv, TypeOK
    <3>3. ReadTotals(asked[s].code)' = ReadTotals(asked[s].code)
      <4>1. PICK asks : asks = asked[s] /\ asks = asked'[s]
        BY <3>1
      <4>2. ReadTotals(asks.code)' = ReadTotals(asks.code)
        BY <1>1 DEF ReadTotals, LastOf, HasRow, tables
      <4>3. /\ ReadTotals(asked[s].code)' = ReadTotals(asks.code)'
            /\ ReadTotals(asked[s].code) = ReadTotals(asks.code)
        BY <4>1
      <4> QED
        BY <4>2, <4>3
    <3> QED
      BY <1>1, <3>1, <3>2, <3>3 DEF Inv, RequestInv, HasRead, Shown
  <2> QED
    BY <2>1, <2>2
<1>5. AcceptedQueriesAreValid'
  BY <1>1 DEF Inv, TypeOK, AcceptedQueriesAreValid
<1> QED
  BY <1>2, <1>4, <1>5 DEF Inv

(* A step of a handler that has begun and not answered: the other requests *)
(* do not see it, and the tables stay as they are.                         *)
LEMMA HandlerStep ==
  ASSUME Inv, NEW r \in Requests, TypeOK',
         stage[r] \notin {"idle", "answered"},
         UNCHANGED <<tables, asked, earlier>>,
         \A s \in Requests \ {r} :
           /\ stage'[s] = stage[s] /\ query'[s] = query[s]
           /\ summary'[s] = summary[s] /\ answer'[s] = answer[s],
         answer'[r] # "none" => stage'[r] = "answered",
         stage'[r] = "link" => IsValidQuery(query'[r]),
         HasRead(r)' =>
           /\ summary'[r] \in SummaryType
           /\ NoLess(ReadTotals(asked[r].code), summary'[r])
           /\ \A s \in earlier[r] :
                Shown(s) /\ asked[r].code = asked[s].code =>
                  NoLess(summary'[r], summary[s])
  PROVE  Inv'
<1>1. \A s \in Requests : earlier[s] \subseteq Requests /\ r \notin earlier[s]
  BY DEF Inv, TypeOK, RequestInv
<1>2. \A s \in Requests :
        ReadTotals(asked[s].code)' = ReadTotals(asked[s].code)
  BY DEF ReadTotals, LastOf, HasRow, tables
<1>3. ASSUME NEW s \in Requests
      PROVE  RequestInv(s)'
  <2>1. /\ \A u \in earlier[s] : /\ stage'[u] = stage[u] /\ answer'[u] = answer[u]
                               /\ summary'[u] = summary[u]
    BY <1>1
  <2>2. CASE s = r
    BY <1>1, <1>2, <2>1, <2>2 DEF Inv, RequestInv, HasRead, Shown
  <2>3. CASE s # r
    BY <1>1, <1>2, <2>1, <2>3 DEF Inv, RequestInv, HasRead, Shown
  <2> QED
    BY <2>2, <2>3
<1>4. AcceptedQueriesAreValid'
  BY DEF Inv, AcceptedQueriesAreValid
<1> QED
  BY <1>3, <1>4 DEF Inv

(* A handler that answers with something else than the statistics.         *)
LEMMA FailureInv ==
  ASSUME Inv, NEW r \in Requests, NEW status \in {"400", "404", "500"},
         Answer(r, status), stage[r] \notin {"idle", "answered"},
         UNCHANGED <<tables, now, asked, earlier, query, summary>>
  PROVE  Inv'
<1>1. /\ stage' = [stage EXCEPT ![r] = "answered"]
      /\ answer' = [answer EXCEPT ![r] = status]
  BY DEF Answer, Goto
<1>2. TypeOK'
  BY <1>1 DEF Inv, TypeOK, tables
<1>3. /\ stage'[r] = "answered" /\ answer'[r] = status /\ ~HasRead(r)'
      /\ \A s \in Requests \ {r} : stage'[s] = stage[s] /\ answer'[s] = answer[s]
  BY <1>1 DEF Inv, TypeOK, HasRead, Shown
<1> QED
  BY <1>2, <1>3, HandlerStep

LEMMA HandleInv ==
  ASSUME Inv, NEW r \in Requests, Handle(r)
  PROVE  Inv'
<1>1. stage[r] \notin {"idle", "answered"} /\ answer[r] = "none"
  BY DEF Handle, FindForOwner, ParseQuery, SelectLink, SelectTotals, SelectTrend,
         StatementFails, Inv, TypeOK, RequestInv
<1>2. ASSUME NEW next \in Stages \ {"trend", "answered"}, Goto(r, next),
             next # "link" \/ IsValidQuery(query'[r]),
             UNCHANGED <<tables, now, asked, earlier, summary, answer>>,
             \A s \in Requests \ {r} : query'[s] = query[s],
             query' \in [Requests -> QueryType \cup {None}]
      PROVE  Inv'
  <2>1. stage' = [stage EXCEPT ![r] = next]
    BY <1>2 DEF Goto
  <2>2. TypeOK'
    BY <1>2, <2>1 DEF Inv, TypeOK, tables, Stages
  <2>3. /\ stage'[r] = next /\ ~HasRead(r)' /\ answer'[r] = "none"
        /\ \A s \in Requests \ {r} : stage'[s] = stage[s]
    BY <1>1, <1>2, <2>1 DEF Inv, TypeOK, HasRead, Shown
  <2> QED
    BY <1>1, <1>2, <2>2, <2>3, HandlerStep
<1>3. CASE FindForOwner(r)
  <2>1. CASE Answer(r, "404")
    BY <1>1, <1>3, <2>1, FailureInv DEF FindForOwner
  <2>2. CASE ~Answer(r, "404")
    <3>1. /\ Goto(r, "parse") /\ UNCHANGED query
          /\ UNCHANGED <<tables, now, asked, earlier, summary, answer>>
      BY <1>3, <2>2 DEF FindForOwner
    <3>2. "parse" \in Stages \ {"trend", "answered"}
      BY DEF Stages
    <3> QED
      BY <1>2, <3>1, <3>2 DEF Inv, TypeOK
  <2> QED
    BY <2>1, <2>2
<1>4. CASE ParseQuery(r)
  <2>1. PICK input \in Inputs, t \in Times : input = asked[r].input /\ t = now
    BY <1>1 DEF Inv, TypeOK, RequestInv, AskedType
  <2>2. CASE Refused(input, t)
    <3>1. Answer(r, "400") /\ UNCHANGED <<tables, now, asked, earlier, query, summary>>
      BY <1>4, <2>1, <2>2 DEF ParseQuery
    <3> QED
      BY <1>1, <3>1, FailureInv
  <2>3. CASE ~Refused(input, t)
    <3>1. /\ Goto(r, "link") /\ query' = [query EXCEPT ![r] = Window(input, t)]
          /\ UNCHANGED <<tables, now, asked, earlier, summary, answer>>
      BY <1>4, <2>1, <2>3 DEF ParseQuery
    <3>2. Window(input, t) \in QueryType /\ IsValidQuery(Window(input, t))
      BY <2>3, WindowType, ParsedQueriesAreValid
    <3>3. /\ query' \in [Requests -> QueryType \cup {None}]
          /\ IsValidQuery(query'[r])
          /\ \A s \in Requests \ {r} : query'[s] = query[s]
      BY <3>1, <3>2 DEF Inv, TypeOK
    <3>4. "link" \in Stages \ {"trend", "answered"}
      BY DEF Stages
    <3> QED
      BY <1>2, <3>1, <3>3, <3>4
  <2> QED
    BY <2>2, <2>3
<1>5. CASE SelectLink(r)
  <2>1. CASE \E status \in {"404", "500"} : Answer(r, status)
    BY <1>1, <1>5, <2>1, FailureInv DEF SelectLink
  <2>2. CASE ~\E status \in {"404", "500"} : Answer(r, status)
    <3>1. /\ Goto(r, "totals") /\ UNCHANGED query
          /\ UNCHANGED <<tables, now, asked, earlier, summary, answer>>
      BY <1>5, <2>2 DEF SelectLink
    <3>2. "totals" \in Stages \ {"trend", "answered"}
      BY DEF Stages
    <3> QED
      BY <1>2, <3>1, <3>2 DEF Inv, TypeOK
  <2> QED
    BY <2>1, <2>2
<1>6. CASE SelectTotals(r)
  <2>1. PICK code \in Codes : code = asked[r].code
    BY <1>1 DEF Inv, TypeOK, RequestInv, AskedType
  <2>2. /\ stage' = [stage EXCEPT ![r] = "trend"]
        /\ summary' = [summary EXCEPT ![r] = ReadTotals(code)]
        /\ UNCHANGED <<tables, now, asked, earlier, query, answer>>
    BY <1>6, <2>1 DEF SelectTotals, Goto
  <2>3. ReadTotals(code) \in SummaryType
    BY ReadTotalsIsTotalsIn, TotalsInFacts DEF Inv, TypeOK
  <2>4. TypeOK'
    BY <2>2, <2>3 DEF Inv, TypeOK, tables
  <2>5. /\ stage'[r] = "trend" /\ summary'[r] = ReadTotals(code)
        /\ \A s \in Requests \ {r} : stage'[s] = stage[s] /\ summary'[s] = summary[s]
    BY <2>2 DEF Inv, TypeOK
  <2>6. NoLess(ReadTotals(asked[r].code), summary'[r])
    BY <2>1, <2>3, <2>5, NoLessReflexive
  <2>7. ASSUME NEW s \in earlier[r], Shown(s), asked[r].code = asked[s].code
        PROVE  NoLess(summary'[r], summary[s])
    BY <2>1, <2>5, <2>7 DEF Inv, TypeOK, RequestInv, HasRead
  <2> QED
    BY <1>1, <2>2, <2>3, <2>4, <2>5, <2>6, <2>7, HandlerStep
<1>7. CASE SelectTrend(r)
  <2>1. /\ stage[r] = "trend" /\ stage' = [stage EXCEPT ![r] = "answered"]
        /\ answer' = [answer EXCEPT ![r] = "200"]
        /\ UNCHANGED <<tables, now, asked, earlier, query, summary>>
    BY <1>7 DEF SelectTrend, Answer, Goto
  <2>2. TypeOK'
    BY <2>1 DEF Inv, TypeOK, tables
  <2>3. /\ stage'[r] = "answered"
        /\ \A s \in Requests \ {r} : stage'[s] = stage[s] /\ answer'[s] = answer[s]
    BY <2>1 DEF Inv, TypeOK
  <2>4. /\ summary[r] \in SummaryType
        /\ NoLess(ReadTotals(asked[r].code), summary[r])
        /\ \A s \in earlier[r] :
             Shown(s) /\ asked[r].code = asked[s].code => NoLess(summary[r], summary[s])
    BY <2>1 DEF Inv, RequestInv, HasRead
  <2> QED
    BY <1>1, <2>1, <2>2, <2>3, <2>4, HandlerStep
<1>8. CASE StatementFails(r)
  BY <1>1, <1>8, FailureInv DEF StatementFails
<1> QED
  BY <1>3, <1>4, <1>5, <1>6, <1>7, <1>8 DEF Handle

-----------------------------------------------------------------------------
LEMMA InitInv == Init => Inv
<1> SUFFICES ASSUME Init PROVE Inv
  OBVIOUS
<1>1. TypeOK
  BY DEF Init, TypeOK, TotalsRow, NoTotals
<1>2. AcceptedQueriesAreValid /\ \A r \in Requests : RequestInv(r)
  BY DEF Init, AcceptedQueriesAreValid, RequestInv, HasRead, Shown
<1> QED
  BY <1>1, <1>2 DEF Inv

LEMMA NextInv ==
  ASSUME Inv, [Next]_vars
  PROVE  Inv'
<1>1. CASE UNCHANGED vars
  <2>1. TypeOK'
    BY <1>1 DEF vars, tables, handler, Inv, TypeOK
  <2>2. Grows(totals, totals')
    <3>1. \A k \in TotalsKeys : totals[k] \in TotalsRow
      BY DEF Inv, TypeOK
    <3> QED
      BY <1>1, <3>1 DEF vars, tables, Grows, TotalsRow
  <2> QED
    BY <1>1, <2>1, <2>2, TablesStep DEF vars
<1> QED
  BY <1>1, EnvironmentInv, AskInv, HandleInv DEF Next

(***************************************************************************)
(* The strengthened invariant holds in every reachable state.              *)
(***************************************************************************)
THEOREM QueryInvariance == Spec => []Inv
<1> QED
  BY InitInv, NextInv, PTL DEF Spec

(***************************************************************************)
(* An answer shows no fewer visits and no earlier last visit than any      *)
(* answer given before its request began (MySqlAccessStatisticsRepository, *)
(* while the consumers record visits in any order).                        *)
(***************************************************************************)
THEOREM AnswersGoForward == Spec => []AnswersNeverGoBack
<1>1. Inv => AnswersNeverGoBack
  BY DEF Inv, RequestInv, HasRead, AnswersNeverGoBack
<1> QED
  BY <1>1, QueryInvariance, PTL

(***************************************************************************)
(* No query string that the handler accepts becomes a 500 in the           *)
(* repository.                                                             *)
(***************************************************************************)
THEOREM AcceptedQueriesStayValid == Spec => []AcceptedQueriesAreValid
<1>1. Inv => AcceptedQueriesAreValid
  BY DEF Inv
<1> QED
  BY <1>1, QueryInvariance, PTL

-----------------------------------------------------------------------------
(* Grouped by g: the groups' sums, added up.                               *)
InGroup(f, g, p) == [x \in {y \in DOMAIN f : g[y] = p} |-> f[x]]
GroupSums(f, g) == [p \in {g[x] : x \in DOMAIN f} |-> SumOf(InGroup(f, g, p))]

LEMMA GroupUnits ==
  ASSUME NEW S, NEW f \in [S -> Nat], IsFiniteSet(Units(f)), NEW g, NEW p
  PROVE  /\ Units(InGroup(f, g, p)) = {u \in Units(f) : g[u[1]] = p}
         /\ IsFiniteSet(Units(InGroup(f, g, p)))
         /\ SumOf(InGroup(f, g, p)) \in Nat
         /\ ExistsBijection(1..SumOf(InGroup(f, g, p)), Units(InGroup(f, g, p)))
<1> DEFINE h == InGroup(f, g, p)
           G == {y \in S : g[y] = p}
<1>1. h \in [G -> Nat] /\ \A x \in G : h[x] = f[x]
  BY DEF InGroup
<1> HIDE DEF h
<1>2. ASSUME NEW u \in Units(h)
      PROVE  u \in Units(f) /\ g[u[1]] = p
  <2>1. u = <<u[1], u[2]>> /\ u[1] \in G /\ u[2] \in 1..h[u[1]]
    BY <1>1, UnitsOf
  <2>2. u[1] \in S /\ g[u[1]] = p /\ u[2] \in 1..f[u[1]]
    BY <1>1, <2>1
  <2> QED
    BY <2>1, <2>2, UnitsOf
<1>3. ASSUME NEW u \in Units(f), g[u[1]] = p
      PROVE  u \in Units(h)
  <2>1. u = <<u[1], u[2]>> /\ u[1] \in S /\ u[2] \in 1..f[u[1]]
    BY UnitsOf
  <2>2. u[1] \in G /\ u[2] \in 1..h[u[1]]
    BY <1>1, <1>3, <2>1
  <2> QED
    BY <1>1, <2>1, <2>2, UnitsOf
<1>4. Units(h) = {u \in Units(f) : g[u[1]] = p}
  BY <1>2, <1>3
<1>5. IsFiniteSet(Units(h))
  BY <1>4, FS_Subset
<1>6. Cardinality(Units(h)) \in Nat /\ ExistsBijection(1..Cardinality(Units(h)), Units(h))
  BY <1>5, FS_CardinalityType
<1> QED
  BY <1>4, <1>5, <1>6 DEF h, SumOf

LEMMA SumInGroups ==
  ASSUME NEW S, NEW f \in [S -> Nat], IsFiniteSet(Units(f)), NEW g
  PROVE  /\ GroupSums(f, g) \in [{g[x] : x \in S} -> Nat]
         /\ IsFiniteSet(Units(GroupSums(f, g)))
         /\ SumOf(GroupSums(f, g)) = SumOf(f)
<1> DEFINE F == GroupSums(f, g)
           P == {g[x] : x \in S}
           Part(p) == Units(InGroup(f, g, p))
           b == [p \in P |-> CHOOSE m : m \in Bijection(1..F[p], Part(p))]
           h == [v \in Units(F) |-> b[v[1]][v[2]]]
<1>1. F \in [P -> Nat] /\ \A p \in P : F[p] = SumOf(InGroup(f, g, p))
  BY GroupUnits DEF GroupSums
<1>2. \A p \in P : Part(p) = {u \in Units(f) : g[u[1]] = p}
  BY GroupUnits
<1>3. ASSUME NEW p \in P
      PROVE  b[p] \in Bijection(1..F[p], Part(p))
  <2>1. ExistsBijection(1..F[p], Part(p))
    BY <1>1, GroupUnits
  <2> HIDE DEF F, Part
  <2> QED
    BY <2>1 DEF ExistsBijection
<1> HIDE DEF F, Part, b
<1>4. ASSUME NEW v \in Units(F)
      PROVE  /\ v = <<v[1], v[2]>> /\ v[1] \in P /\ v[2] \in 1..F[v[1]]
             /\ h[v] \in Units(f) /\ g[h[v][1]] = v[1]
  <2>1. v = <<v[1], v[2]>> /\ v[1] \in P /\ v[2] \in 1..F[v[1]]
    BY <1>1, UnitsOf
  <2>2. b[v[1]][v[2]] \in Part(v[1])
    BY <1>3, <2>1 DEF Bijection, Injection
  <2> QED
    BY <1>2, <2>1, <2>2
<1>5. ASSUME NEW v \in Units(F), NEW w \in Units(F), h[v] = h[w]
      PROVE  v = w
  <2>1. v[1] = w[1]
    BY <1>4, <1>5
  <2>2. /\ v[1] \in P /\ v[2] \in 1..F[v[1]] /\ w[2] \in 1..F[v[1]]
        /\ b[v[1]][v[2]] = b[v[1]][w[2]]
    BY <1>4, <1>5, <2>1
  <2>3. v[2] = w[2]
    BY <1>3, <2>2 DEF Bijection, Injection, IsInjective
  <2> QED
    BY <1>4, <2>1, <2>3
<1>6. ASSUME NEW u \in Units(f)
      PROVE  \E v \in Units(F) : h[v] = u
  <2>1. u[1] \in S
    BY UnitsOf
  <2> DEFINE p == g[u[1]]
  <2>2. p \in P /\ u \in Part(p)
    BY <1>2, <2>1
  <2>3. PICK i \in 1..F[p] : b[p][i] = u
    BY <1>3, <2>2 DEF Bijection, Surjection
  <2>4. <<p, i>> \in Units(F)
    BY <1>1, <2>2, UnitsOf
  <2> QED
    BY <2>3, <2>4
<1>7. h \in Injection(Units(F), Units(f))
  BY <1>4, <1>5 DEF Injection, IsInjective
<1>8. h \in Surjection(Units(F), Units(f))
  BY <1>4, <1>6 DEF Surjection
<1> HIDE DEF h
<1>9. IsFiniteSet(Units(F)) /\ Cardinality(Units(F)) = Cardinality(Units(f))
  BY <1>7, <1>8, FS_Injection
<1> QED
  BY <1>1, <1>9 DEF F, SumOf

-----------------------------------------------------------------------------
(***************************************************************************)
(* The hours of a link.                                                    *)
(***************************************************************************)
LEMMA HoursType ==
  ASSUME TypeOK, NEW code \in Codes, NEW result \in AggregatedResults,
         NEW hours \in SUBSET Buckets
  PROVE  HoursOf(code, result, hours) \in [hours -> Nat]
BY DEF TypeOK, HoursOf, HourlyKeys

LEMMA SomeHours ==
  ASSUME TypeOK, TablesInv, NEW code \in Codes, NEW result \in AggregatedResults,
         NEW hours \in SUBSET Buckets
  PROVE  /\ IsFiniteSet(Units(HoursOf(code, result, hours)))
         /\ Counted(code, result, hours) \in Nat
         /\ Counted(code, result, hours) <= Counted(code, result, Buckets)
<1> DEFINE f == HoursOf(code, result, hours)
           g == HoursOf(code, result, Buckets)
<1>1. f \in [hours -> Nat] /\ g \in [Buckets -> Nat]
  BY HoursType
<1>2. \A bucket \in hours : f[bucket] = g[bucket]
  BY DEF HoursOf
<1>3. IsFiniteSet(Units(g))
  BY DEF TablesInv
<1> HIDE DEF f, g
<1>4. \A bucket \in hours : f[bucket] <= g[bucket]
  BY <1>1, <1>2
<1>5. IsFiniteSet(Units(f)) /\ SumOf(f) <= SumOf(g) /\ SumOf(f) \in Nat
  BY <1>1, <1>3, <1>4, SumGrows, SumType
<1> QED
  BY <1>5 DEF f, g, Counted

(* HasVisit, of hours that are given; and what TablesInv says of one link. *)
VisitIn(hours, code, result, at) ==
  HourBucket(at) \in Buckets /\ hours[<<code, HourBucket(at), result>>] > 0

RowsAgree(row, hours, code, result) ==
  LET f == [bucket \in Buckets |-> hours[<<code, bucket, result>>]]
  IN  /\ IsFiniteSet(Units(f))
      /\ row.count = SumOf(f)
      /\ row.count > 0 => VisitIn(hours, code, result, row.last)

LEMMA TablesAgree ==
  /\ TablesInv <=> \A code \in Codes, result \in AggregatedResults :
                     RowsAgree(totals[<<code, result>>], hourly, code, result)
  /\ TablesInv' <=> \A code \in Codes, result \in AggregatedResults :
                      RowsAgree(totals'[<<code, result>>], hourly', code, result)
BY DEF TablesInv, RowsAgree, HoursOf, Counted, HasVisit, VisitIn, SumOf, Units

LEMMA SomeHoursNext ==
  ASSUME TypeOK', TablesInv', NEW code \in Codes, NEW result \in AggregatedResults,
         NEW hours \in SUBSET Buckets
  PROVE  Counted(code, result, hours)' \in Nat
<1>1. PICK f, g : f = HoursOf(code, result, hours)' /\ g = HoursOf(code, result, Buckets)'
  OBVIOUS
<1>2. /\ f \in [hours -> Nat] /\ g \in [Buckets -> Nat]
      /\ \A bucket \in hours : f[bucket] = g[bucket]
  BY <1>1 DEF TypeOK, HoursOf, HourlyKeys
<1>3. IsFiniteSet(Units(g))
  <2>1. g = [bucket \in Buckets |-> hourly'[<<code, bucket, result>>]]
    BY <1>1 DEF HoursOf
  <2> QED
    BY <2>1, TablesAgree DEF RowsAgree
<1>4. SumOf(f) \in Nat
  BY <1>2, <1>3, SumGrows, SumType
<1> QED
  BY <1>1, <1>4 DEF Counted, SumOf, Units

(* Hours only gain visits.                                                 *)
HoursGrow == \A k \in HourlyKeys : hourly[k] <= hourly'[k]

LEMMA CountedGrows ==
  ASSUME TypeOK, TypeOK', TablesInv', HoursGrow,
         NEW code \in Codes, NEW result \in AggregatedResults, NEW hours \in SUBSET Buckets
  PROVE  Counted(code, result, hours) <= Counted(code, result, hours)'
<1> DEFINE f == HoursOf(code, result, hours)
<1>1. f \in [hours -> Nat] /\ f' \in [hours -> Nat]
  BY DEF TypeOK, HoursOf, HourlyKeys
<1>2. \A bucket \in hours : f[bucket] <= f'[bucket]
  BY DEF HoursGrow, HoursOf, HourlyKeys
<1>3. IsFiniteSet(Units(f'))
  <2> DEFINE g == HoursOf(code, result, Buckets)
  <2>1. g' \in [Buckets -> Nat]
    BY DEF TypeOK, HoursOf, HourlyKeys
  <2>2. \A bucket \in hours : f'[bucket] = g'[bucket] /\ f'[bucket] \in Nat
    BY <1>1 DEF HoursOf
  <2>3. \A bucket \in hours : f'[bucket] <= g'[bucket]
    BY <2>2
  <2>4. IsFiniteSet(Units(g'))
    BY DEF TablesInv, Units
  <2> HIDE DEF f, g
  <2>5. PICK F, G : F = f' /\ G = g'
    OBVIOUS
  <2> QED
    BY <1>1, <2>1, <2>3, <2>4, <2>5, SumGrows
<1> HIDE DEF f
<1>4. PICK F : F = f'
  OBVIOUS
<1>5. SumOf(f) <= SumOf(F)
  BY <1>1, <1>2, <1>3, <1>4, SumGrows
<1> QED
  BY <1>4, <1>5 DEF f, Counted, SumOf, Units

(***************************************************************************)
(* A visit is recorded: one hour and the total of the same result count    *)
(* one more.                                                               *)
(***************************************************************************)
LEMMA RecordTables ==
  ASSUME TypeOK, TablesInv, NEW p \in Partitions, NEW o \in DOMAIN Published[p],
         Record(p, o)
  PROVE  TablesInv' /\ HoursGrow
<1> DEFINE m == Published[p][o]
<1>1. /\ m \in Messages /\ m.at \in Nat /\ m.code \in Codes /\ m.result \in Results
      /\ HourBucket(m.at) \in Buckets
  BY MessageFields, MessagesAssumption DEF MessageType, Buckets
<1>2. CASE m.result = "not_found"
  <2>1. totals' = totals /\ hourly' = hourly
    BY <1>2 DEF Record, Projection!Record
  <2>2. HoursGrow
    BY <2>1 DEF HoursGrow, TypeOK
  <2> QED
    BY <2>1, <2>2, TablesAgree
<1>3. CASE m.result # "not_found"
  <2> DEFINE T == <<m.code, m.result>>
             H == <<m.code, HourBucket(m.at), m.result>>
             row == totals[T]
             new == IF row.count = 0
                    THEN [count |-> 1, first |-> m.at, last |-> m.at]
                    ELSE [count |-> row.count + 1,
                          first |-> Lesser(row.first, m.at),
                          last  |-> Greater(row.last, m.at)]
  <2>1. m.result \in AggregatedResults
    BY <1>1, <1>3 DEF Results
  <2>2. /\ totals' = [totals EXCEPT ![T] = new]
        /\ hourly' = [hourly EXCEPT ![H] = hourly[H] + 1]
    BY <1>3 DEF Record, Projection!Record, Projection!UpsertedTotals,
         Projection!UpsertedHourly, Projection!TotalsKey, Projection!HourlyKey,
         Projection!HourBucket, HourBucket, Projection!Lesser, Projection!Greater,
         Lesser, Greater
  <2>3. T \in TotalsKeys /\ H \in HourlyKeys /\ row \in TotalsRow
    BY <1>1, <2>1 DEF TypeOK, TotalsKeys, HourlyKeys
  <2>4. new.count = row.count + 1 /\ (new.last = m.at \/ (row.count > 0 /\ new.last = row.last))
    BY <2>3 DEF TotalsRow, Greater
  <2> HIDE DEF m, new
  <2>5. /\ totals'[T] = new /\ hourly'[H] = hourly[H] + 1 /\ hourly[H] \in Nat
        /\ \A k \in TotalsKeys : k # T => totals'[k] = totals[k]
        /\ \A k \in HourlyKeys : k # H => hourly'[k] = hourly[k] /\ hourly[k] \in Nat
    BY <2>2, <2>3 DEF TypeOK
  <2>6. HoursGrow
    BY <2>5 DEF HoursGrow
  <2>7. ASSUME NEW code \in Codes, NEW result \in AggregatedResults
        PROVE  RowsAgree(totals'[<<code, result>>], hourly', code, result)
    <3> DEFINE f == [bucket \in Buckets |-> hourly[<<code, bucket, result>>]]
               g == [bucket \in Buckets |-> hourly'[<<code, bucket, result>>]]
               k == <<code, result>>
    <3>1. f \in [Buckets -> Nat] /\ k \in TotalsKeys /\ totals[k] \in TotalsRow
      BY DEF TypeOK, TotalsKeys, HourlyKeys
    <3>2. /\ IsFiniteSet(Units(f)) /\ totals[k].count = SumOf(f)
          /\ totals[k].count > 0 => VisitIn(hourly, code, result, totals[k].last)
      BY TablesAgree DEF RowsAgree
    <3>3. \A bucket \in Buckets : <<code, bucket, result>> \in HourlyKeys
      BY DEF HourlyKeys
    <3>4. ASSUME NEW at, VisitIn(hourly, code, result, at)
          PROVE  VisitIn(hourly', code, result, at)
      BY <2>5, <3>3, <3>4 DEF VisitIn
    <3>5. CASE k = T
      <4>1. code = m.code /\ result = m.result /\ HourBucket(m.at) \in Buckets
        BY <1>1, <3>5 DEF m
      <4>2. \A bucket \in Buckets :
              hourly'[<<code, bucket, result>>] =
                IF bucket = HourBucket(m.at) THEN hourly[<<code, bucket, result>>] + 1
                ELSE hourly[<<code, bucket, result>>]
        BY <2>5, <3>3, <4>1
      <4>3. g = [f EXCEPT ![HourBucket(m.at)] = f[HourBucket(m.at)] + 1]
        BY <4>1, <4>2
      <4>4. IsFiniteSet(Units(g)) /\ SumOf(g) = SumOf(f) + 1
        <5> HIDE DEF f, g
        <5> QED
          BY <3>1, <3>2, <4>1, <4>3, SumCountsOneMore
      <4>5. VisitIn(hourly', code, result, m.at)
        BY <2>5, <4>1 DEF VisitIn
      <4>6. VisitIn(hourly', code, result, new.last)
        BY <2>4, <3>2, <3>4, <3>5, <4>5
      <4>7. totals'[k].count = SumOf(g)
        BY <2>4, <2>5, <3>2, <3>5, <4>4
      <4> QED
        BY <2>5, <3>5, <4>4, <4>6, <4>7 DEF RowsAgree
    <3>6. CASE k # T
      <4>1. \A bucket \in Buckets :
              hourly'[<<code, bucket, result>>] = hourly[<<code, bucket, result>>]
        BY <2>5, <3>3, <3>6
      <4>2. g = f
        BY <4>1
      <4>3. totals'[k] = totals[k]
        BY <2>5, <3>1, <3>6
      <4> QED
        BY <3>2, <3>4, <4>2, <4>3 DEF RowsAgree
    <3> QED
      BY <3>5, <3>6
  <2> QED
    BY <2>6, <2>7, TablesAgree
<1> QED
  BY <1>2, <1>3

-----------------------------------------------------------------------------
(***************************************************************************)
(* The trend, point by point.                                              *)
(***************************************************************************)
HoursShown(code, q) ==
  {bucket \in Buckets : /\ InWindow(q, bucket)
                        /\ \E result \in AggregatedResults :
                             hourly[<<code, bucket, result>>] > 0}

LEMMA BucketsAreTimes == Buckets \subseteq Nat
<1>1. ASSUME NEW at \in Nat
      PROVE  HourBucket(at) \in Nat
  BY SMTT(30) DEF HourBucket
<1> QED
  BY <1>1, MessagesAssumption DEF Buckets, MessageType

(* No visit in the window is missing and none is shown that was not made.  *)
LEMMA TrendIsComplete ==
  ASSUME TypeOK, TablesInv, NEW code \in Codes, NEW q \in QueryType,
         NEW result \in AggregatedResults
  PROVE  LET points == ReadTrend(code, q)
             shown == SumOf([point \in DOMAIN points |-> points[point][result]])
         IN  /\ shown \in Nat
             /\ shown <= Counted(code, result, Buckets)
             /\ Counted(code, result, Buckets)
                  <= shown + Counted(code, result, Outside(q))
<1> DEFINE hours == HoursShown(code, q)
           points == ReadTrend(code, q)
           f == HoursOf(code, result, hours)
           all == HoursOf(code, result, Buckets)
           g == [bucket \in hours |-> PointOf(q, bucket)]
<1>1. hours \in SUBSET Buckets /\ Outside(q) \in SUBSET Buckets
  BY DEF HoursShown, Outside
<1>2. f \in [hours -> Nat] /\ all \in [Buckets -> Nat]
  BY <1>1, HoursType
<1>3. IsFiniteSet(Units(f)) /\ SumOf(f) \in Nat /\ SumOf(f) <= Counted(code, result, Buckets)
  BY <1>1, SomeHours DEF Counted
<1>4. \A p : InGroup(f, g, p)
             = HoursOf(code, result, {bucket \in hours : PointOf(q, bucket) = p})
  BY DEF InGroup, HoursOf
<1>5. [point \in DOMAIN points |-> points[point][result]] = GroupSums(f, g)
  <2>1. DOMAIN points = {PointOf(q, bucket) : bucket \in hours}
    BY DEF ReadTrend, HoursShown
  <2>2. {g[x] : x \in DOMAIN f} = {PointOf(q, bucket) : bucket \in hours}
    BY DEF HoursOf
  <2>3. \A p \in DOMAIN points : points[p][result] = SumOf(InGroup(f, g, p))
    BY <1>4 DEF ReadTrend, HoursShown, Counted
  <2> HIDE DEF points, f, g, hours
  <2> QED
    BY <2>1, <2>2, <2>3 DEF GroupSums
<1>6. SumOf(GroupSums(f, g)) = SumOf(f)
  <2> HIDE DEF f, g, hours
  <2> QED
    BY <1>2, <1>3, SumInGroups
<1>7. SumOf(all) <= SumOf(f) + Counted(code, result, Outside(q))
  <2>1. \A bucket \in Buckets :
          bucket \in hours \/ bucket \in Outside(q) \/ all[bucket] = 0
    <3> SUFFICES ASSUME NEW bucket \in Buckets, bucket \notin hours, bucket \notin Outside(q)
                 PROVE  all[bucket] = 0
      OBVIOUS
    <3>1. q.from \in Int /\ q.to \in Int /\ bucket \in Nat
      BY BucketsAreTimes DEF QueryType
    <3>2. InWindow(q, bucket)
      BY <3>1 DEF Outside, InWindow
    <3>3. ~(all[bucket] > 0)
      BY <3>2 DEF HoursShown, HoursOf
    <3> QED
      BY <1>2, <3>3
  <2>2. /\ [bucket \in hours |-> all[bucket]] = f
        /\ [bucket \in Outside(q) |-> all[bucket]] = HoursOf(code, result, Outside(q))
    BY <1>1 DEF HoursOf
  <2>3. IsFiniteSet(Units(all))
    BY DEF TablesInv
  <2> HIDE DEF all, f, hours
  <2>4. SumOf(all) <= SumOf([bucket \in hours |-> all[bucket]])
                       + SumOf([bucket \in Outside(q) |-> all[bucket]])
    BY <1>1, <1>2, <2>1, <2>3, SumSplits
  <2> QED
    BY <2>2, <2>4 DEF Counted
<1>8. SumOf(all) = Counted(code, result, Buckets)
  BY DEF Counted
<1> HIDE DEF points, f, g, all, hours
<1> QED
  BY <1>3, <1>5, <1>6, <1>7, <1>8 DEF points

(* The point of an hour is the one in which its moments lie.               *)
LEMMA PointHolds ==
  ASSUME NEW q \in QueryType, NEW at \in Nat
  PROVE  /\ PointOf(q, HourBucket(at)) <= at \div 1000
         /\ at \div 1000 < PointOf(q, HourBucket(at)) + BucketSeconds(q.interval)
<1> DEFINE seconds == at \div 1000
           hour == seconds - (seconds % 3600)
<1>1. seconds \in Nat /\ seconds = at \div 1000
  BY SMTT(30)
<1>2. HourBucket(at) = hour
  BY DEF HourBucket
<1> HIDE DEF seconds
<1>3. hour \in Nat /\ hour % 3600 = 0 /\ hour <= seconds /\ seconds < hour + 3600
  BY <1>1, SMTT(30)
<1> HIDE DEF hour
<1>4. CASE q.interval = "hour"
  <2>1. PointOf(q, hour) = hour /\ BucketSeconds(q.interval) = 3600
    BY <1>3, <1>4 DEF PointOf, BucketSeconds
  <2> QED
    BY <1>1, <1>2, <1>3, <2>1
<1>5. CASE q.interval # "hour"
  <2> DEFINE day == hour \div 86400
             rest == hour % 86400
             h == hour \div 3600
             n == h - 24 * day
  <2>1. hour = 86400 * day + rest /\ rest \in Int /\ 0 <= rest /\ rest < 86400 /\ day \in Int
    <3>1. rest \in Int /\ 0 <= rest /\ rest < 86400
      BY <1>3, SMTT(30)
    <3>2. day \in Int
      BY <1>3, SMTT(30)
    <3>3. hour = 86400 * day + rest
      BY <1>3, SMTT(30)
    <3> QED
      BY <3>1, <3>2, <3>3
  <2>2. hour = 3600 * h /\ h \in Int
    BY <1>3, SMTT(30)
  <2>3. PointOf(q, hour) = hour - rest /\ BucketSeconds(q.interval) = 86400
    BY <1>5 DEF PointOf, BucketSeconds
  <2> HIDE DEF day, rest, h
  <2>4. n \in Int /\ rest = 3600 * n
    BY <2>1, <2>2
  <2> HIDE DEF n
  <2>5. rest <= 82800
    <3>1. CASE n <= 23
      BY <2>4, <3>1
    <3>2. CASE n >= 24
      BY <2>1, <2>4, <3>2
    <3> QED
      BY <2>4, <3>1, <3>2
  <2> QED
    BY <1>1, <1>2, <1>3, <2>1, <2>3, <2>5
<1> QED
  BY <1>4, <1>5

(* A visit in the window shows at its point.                               *)
LEMMA TrendShowsVisit ==
  ASSUME TypeOK, TablesInv, NEW code \in Codes, NEW q \in QueryType,
         NEW result \in AggregatedResults, NEW at \in Nat,
         HasVisit(code, result, at), q.from <= HourBucket(at), HourBucket(at) < q.to
  PROVE  LET points == ReadTrend(code, q)
         IN  \E point \in DOMAIN points :
               /\ point <= at \div 1000
               /\ at \div 1000 < point + BucketSeconds(q.interval)
               /\ points[point][result] > 0
<1> DEFINE hour == HourBucket(at)
           point == PointOf(q, hour)
           hours == HoursShown(code, q)
           group == {bucket \in hours : PointOf(q, bucket) = point}
           f == HoursOf(code, result, group)
<1>1. hour \in hours /\ hour \in group
  BY DEF HasVisit, HoursShown, InWindow
<1>2. group \in SUBSET Buckets
  BY DEF HoursShown
<1>3. point \in DOMAIN ReadTrend(code, q)
  BY <1>1 DEF ReadTrend, HoursShown
<1>4. ReadTrend(code, q)[point][result] = SumOf(f)
  BY <1>3 DEF ReadTrend, HoursShown, Counted
<1>5. f \in [group -> Nat] /\ IsFiniteSet(Units(f)) /\ f[hour] > 0
  <2>1. f \in [group -> Nat]
    BY <1>2, HoursType
  <2>2. IsFiniteSet(Units(f))
    BY <1>2, SomeHours
  <2>3. f[hour] > 0
    BY <1>1 DEF HoursOf, HasVisit
  <2> QED
    BY <2>1, <2>2, <2>3
<1>6. SumOf(f) > 0
  <2> HIDE DEF f, group, hour
  <2> QED
    BY <1>1, <1>5, SumIsPositive
<1>7. point <= at \div 1000 /\ at \div 1000 < point + BucketSeconds(q.interval)
  BY PointHolds
<1> HIDE DEF point, f
<1> QED
  BY <1>3, <1>4, <1>6, <1>7

-----------------------------------------------------------------------------
(***************************************************************************)
(* What a request has read stays in agreement while it does not move.      *)
(***************************************************************************)
SameTrend(s) ==
  asked'[s] = asked[s] /\ trend'[s] = trend[s] /\ answer'[s] = answer[s]

Unmoved(r) ==
  /\ stage'[r] = stage[r] /\ earlier'[r] = earlier[r]
  /\ query'[r] = query[r] /\ summary'[r] = summary[r]

LEMMA TrendKept ==
  ASSUME NEW s, trend'[s] = trend[s], NEW result
  PROVE  TrendTotal(s, result)' = TrendTotal(s, result)
BY DEF TrendTotal, SumOf, Units

LEMMA VisitsStay ==
  ASSUME HoursGrow, TypeOK, TypeOK', NEW code \in Codes, NEW result \in AggregatedResults,
         NEW at, HasVisit(code, result, at)
  PROVE  HasVisit(code, result, at)'
<1>1. <<code, HourBucket(at), result>> \in HourlyKeys
  BY DEF HasVisit, HourlyKeys
<1> QED
  BY <1>1 DEF HasVisit, HoursGrow, TypeOK

LEMMA AgreementStays ==
  ASSUME TypeOK, TypeOK', TablesInv, TablesInv', HoursGrow, NEW r \in Requests, Agree(r),
         asked[r] \in AskedType, summary[r] \in SummaryType,
         \A result \in AggregatedResults : TrendTotal(r, result) \in Nat,
         Unmoved(r), SameTrend(r)
  PROVE  Agree(r)'
<1> SUFFICES ASSUME NEW result \in AggregatedResults
             PROVE  summary'[r].count[result] <=
                      TrendTotal(r, result)'
                      + Counted(asked[r].code, result, Outside(query[r]))'
  BY DEF Agree
<1>1. PICK code \in Codes, hours \in SUBSET Buckets :
        code = asked[r].code /\ hours = Outside(query[r])
  BY DEF AskedType, Outside
<1>2. /\ Counted(asked[r].code, result, Outside(query[r])) = Counted(code, result, hours)
      /\ Counted(asked[r].code, result, Outside(query[r]))' = Counted(code, result, hours)'
  <2>1. Outside(query[r])' = hours /\ asked'[r].code = code
    BY <1>1 DEF Outside, Unmoved, SameTrend
  <2> QED
    BY <1>1, <2>1 DEF Counted, HoursOf, SumOf, Units
<1>3. Counted(code, result, hours) <= Counted(code, result, hours)'
  BY CountedGrows
<1>4. Counted(code, result, hours) \in Nat /\ Counted(code, result, hours)' \in Nat
  <2>1. Counted(code, result, hours) \in Nat
    BY SomeHours
  <2>2. Counted(code, result, hours)' \in Nat
    BY SomeHoursNext
  <2> QED
    BY <2>1, <2>2
<1>5. summary[r].count[result] <= TrendTotal(r, result) + Counted(code, result, hours)
  BY <1>2 DEF Agree
<1>6. /\ TrendTotal(r, result)' = TrendTotal(r, result)
      /\ summary'[r].count[result] = summary[r].count[result]
      /\ summary[r].count[result] \in Nat
  BY TrendKept DEF Unmoved, SameTrend, SummaryType
<1> QED
  BY <1>2, <1>3, <1>4, <1>5, <1>6

LEMMA LastVisitsStay ==
  ASSUME NEW r \in Requests, Unmoved(r), SameTrend(r), LastVisitsShow(r)
  PROVE  LastVisitsShow(r)'
BY DEF LastVisitsShow, InTrend, Unmoved, SameTrend

LEMMA ReadingStays ==
  ASSUME Inv, TablesInv, TypeOK', TablesInv', HoursGrow, Grows(totals, totals'),
         NEW r \in Requests, ReadingInv(r), Unmoved(r), SameTrend(r),
         \A s \in earlier[r] : SameTrend(s)
  PROVE  ReadingInv(r)'
<1> DEFINE code == asked[r].code
<1>1. TypeOK /\ RequestInv(r)
  BY DEF Inv
<1>2. stage[r] # "idle" => asked[r] \in AskedType /\ code \in Codes
  BY <1>1 DEF RequestInv, AskedType
<1>3. /\ HasRead(r) <=> HasRead(r)'
      /\ Shown(r) <=> Shown(r)'
      /\ asked'[r].code = code /\ stage'[r] = stage[r]
      /\ Shown(r) => HasRead(r) /\ stage[r] # "idle"
      /\ HasRead(r) => summary[r] \in SummaryType /\ stage[r] # "idle"
  BY <1>1 DEF Unmoved, SameTrend, HasRead, Shown, RequestInv
<1>4. stage'[r] \in {"link", "totals", "trend"} => query'[r] \in QueryType
  BY DEF ReadingInv, Unmoved
<1>5. ASSUME stage'[r] = "trend"
      PROVE  /\ summary'[r].lastAccess # None =>
                  HasVisit(asked[r].code, "success", summary[r].lastAccess)'
             /\ summary'[r].lastAttempt # None =>
                  \E result \in AggregatedResults :
                    HasVisit(asked[r].code, result, summary[r].lastAttempt)'
  <2>1. PICK c \in Codes, access \in Nat \cup {None}, attempt \in Nat \cup {None} :
          c = code /\ access = summary[r].lastAccess /\ attempt = summary[r].lastAttempt
    BY <1>2, <1>3, <1>5 DEF HasRead, SummaryType
  <2>2. /\ asked'[r].code = c /\ summary'[r].lastAccess = access
        /\ summary'[r].lastAttempt = attempt
    BY <1>3, <2>1 DEF Unmoved
  <2>3. /\ access # None => HasVisit(c, "success", access)
        /\ attempt # None => \E result \in AggregatedResults : HasVisit(c, result, attempt)
    BY <1>3, <1>5, <2>1 DEF ReadingInv
  <2>4. "success" \in AggregatedResults
    BY DEF AggregatedResults
  <2>5. /\ access # None => HasVisit(c, "success", access)'
        /\ attempt # None => \E result \in AggregatedResults : HasVisit(c, result, attempt)'
    BY <1>1, <2>3, <2>4, VisitsStay
  <2> QED
    BY <2>2, <2>5 DEF HasVisit
<1>6. ASSUME HasRead(r)', NEW s \in earlier'[r], Shown(s)', asked'[s].code = asked'[r].code
      PROVE  CountsTrendOf(r, s)'
  <2>1. s \in earlier[r] /\ SameTrend(s) /\ Shown(s) /\ asked[s].code = code
    BY <1>3, <1>6 DEF Unmoved, SameTrend, Shown
  <2>2. CountsTrendOf(r, s)
    BY <1>3, <1>6, <2>1 DEF ReadingInv
  <2>3. \A result : TrendTotal(s, result)' = TrendTotal(s, result)
    BY <2>1, TrendKept DEF SameTrend
  <2> QED
    BY <2>2, <2>3 DEF CountsTrendOf, Unmoved
<1>7. ASSUME Shown(r)'
      PROVE  /\ \A result \in AggregatedResults :
                  /\ TrendTotal(r, result)' \in Nat
                  /\ TrendTotal(r, result)' <= totals'[<<asked'[r].code, result>>].count
             /\ Agree(r)'
             /\ LastVisitsShow(r)'
  <2>1. /\ \A result \in AggregatedResults :
             /\ TrendTotal(r, result) \in Nat
             /\ TrendTotal(r, result) <= totals[<<code, result>>].count
        /\ Agree(r) /\ LastVisitsShow(r)
    BY <1>3, <1>7 DEF ReadingInv
  <2>2. ASSUME NEW result \in AggregatedResults
        PROVE  TrendTotal(r, result)' <= totals'[<<code, result>>].count
    <3>1. PICK k \in TotalsKeys : k = <<code, result>>
      BY <1>2, <1>3, <1>7 DEF TotalsKeys
    <3>2. /\ totals[k].count \in Nat /\ totals'[k].count \in Nat
          /\ totals[k].count <= totals'[k].count
      BY <1>1 DEF TypeOK, TotalsRow, Grows
    <3>3. TrendTotal(r, result)' = TrendTotal(r, result)
      BY TrendKept DEF SameTrend
    <3> QED
      BY <2>1, <3>1, <3>2, <3>3
  <2>3. Agree(r)' /\ LastVisitsShow(r)'
    BY <1>1, <1>2, <1>3, <1>7, <2>1, AgreementStays, LastVisitsStay
  <2>4. \A result \in AggregatedResults : TrendTotal(r, result)' \in Nat
    BY <2>1, TrendKept DEF SameTrend
  <2> QED
    BY <1>3, <2>2, <2>3, <2>4
<1> QED
  BY <1>4, <1>5, <1>6, <1>7 DEF ReadingInv

-----------------------------------------------------------------------------
(* The rest of the system takes a step, or none.                           *)
LEMMA VisitsEnvironment ==
  ASSUME Inv, VisitsInv, Inv', UNCHANGED handler, TablesInv', HoursGrow,
         Grows(totals, totals')
  PROVE  VisitsInv'
<1>1. ASSUME NEW r \in Requests
      PROVE  ReadingInv(r)'
  <2>1. Unmoved(r) /\ \A s : SameTrend(s)
    BY DEF handler, Unmoved, SameTrend
  <2>2. TypeOK' /\ ReadingInv(r)
    BY DEF Inv, VisitsInv
  <2> QED
    BY <2>1, <2>2, ReadingStays DEF VisitsInv
<1>2. DOMAIN trend' = Requests
  BY DEF VisitsInv, handler
<1> QED
  BY <1>1, <1>2 DEF VisitsInv

LEMMA SameTables ==
  ASSUME TypeOK, TablesInv, totals' = totals, hourly' = hourly
  PROVE  TablesInv' /\ HoursGrow /\ Grows(totals, totals')
<1>1. TablesInv'
  BY TablesAgree
<1>2. HoursGrow
  BY DEF HoursGrow, TypeOK
<1>3. \A k \in TotalsKeys : totals[k] \in TotalsRow
  BY DEF TypeOK
<1> QED
  BY <1>1, <1>2, <1>3 DEF Grows, TotalsRow

LEMMA EnvironmentVisits ==
  ASSUME Inv, VisitsInv, Inv',
         \/ Tick \/ UNCHANGED vars
         \/ \E code \in Codes : CreateLink(code)
         \/ \E p \in Partitions : \E o \in DOMAIN Published[p] : Record(p, o)
  PROVE  VisitsInv'
<1>0. TypeOK /\ TablesInv
  BY DEF Inv, VisitsInv
<1>1. CASE totals' = totals /\ hourly' = hourly /\ UNCHANGED handler
  BY <1>0, <1>1, SameTables, VisitsEnvironment
<1>2. ASSUME NEW p \in Partitions, NEW o \in DOMAIN Published[p], Record(p, o)
      PROVE  VisitsInv'
  <2>1. TablesInv' /\ HoursGrow
    BY <1>0, <1>2, RecordTables
  <2>2. Grows(totals, totals') /\ UNCHANGED handler
    BY <1>0, <1>2, RecordGrows
  <2> QED
    BY <2>1, <2>2, VisitsEnvironment
<1>3. CASE Tick \/ UNCHANGED vars
  BY <1>1, <1>3 DEF Tick, vars, tables
<1>4. ASSUME NEW code \in Codes, CreateLink(code)
      PROVE  VisitsInv'
  BY <1>1, <1>4 DEF CreateLink, Projection!CreateLink
<1> QED
  BY <1>2, <1>3, <1>4

(* A request moves; the others, and those answered before it, do not.      *)
LEMMA RequestVisits ==
  ASSUME Inv, VisitsInv, Inv', NEW r \in Requests, stage[r] # "answered",
         UNCHANGED tables, ReadingInv(r)', DOMAIN trend' = Requests,
         \A s \in Requests \ {r} : Unmoved(s) /\ SameTrend(s)
  PROVE  VisitsInv'
<1>1. TypeOK /\ TablesInv /\ TypeOK'
  BY DEF Inv, VisitsInv
<1>2. TablesInv' /\ HoursGrow /\ Grows(totals, totals')
  BY <1>1, SameTables DEF tables
<1>3. ASSUME NEW s \in Requests \ {r}
      PROVE  ReadingInv(s)'
  <2>1. \A u \in earlier[s] : u \in Requests \ {r}
    BY <1>1 DEF TypeOK, Inv, RequestInv
  <2>2. ReadingInv(s) /\ Unmoved(s) /\ SameTrend(s) /\ \A u \in earlier[s] : SameTrend(u)
    BY <2>1 DEF VisitsInv
  <2> QED
    BY <1>1, <1>2, <2>2, ReadingStays
<1> QED
  BY <1>2, <1>3 DEF VisitsInv

LEMMA AskVisits ==
  ASSUME Inv, VisitsInv, Inv', NEW r \in Requests, NEW user \in Users, NEW code \in Codes,
         NEW input \in Inputs, Ask(r, user, code, input)
  PROVE  VisitsInv'
<1>1. TypeOK /\ RequestInv(r) /\ stage[r] = "idle"
  BY DEF Ask, Inv
<1>2. stage'[r] = "owner" /\ answer'[r] = "none" /\ UNCHANGED tables
  BY <1>1 DEF Ask, Goto, TypeOK, RequestInv
<1>3. ReadingInv(r)'
  BY <1>2 DEF ReadingInv, HasRead, Shown
<1>4. \A s \in Requests \ {r} : Unmoved(s) /\ SameTrend(s)
  BY <1>1 DEF Ask, Goto, TypeOK, Unmoved, SameTrend
<1>5. DOMAIN trend' = Requests
  BY DEF Ask, VisitsInv
<1> QED
  BY <1>1, <1>2, <1>3, <1>4, <1>5, RequestVisits

(* Whoever reads the totals finds every visit behind a last access.        *)
LEMMA TotalsHaveVisits ==
  ASSUME TypeOK, TablesInv, NEW code \in Codes
  PROVE  LET read == ReadTotals(code)
         IN  /\ read.lastAccess # None => HasVisit(code, "success", read.lastAccess)
             /\ read.lastAttempt # None =>
                  \E result \in AggregatedResults : HasVisit(code, result, read.lastAttempt)
<1>1. PICK table \in [TotalsKeys -> TotalsRow] : table = totals
  BY DEF TypeOK
<1>2. ASSUME NEW results \in SUBSET AggregatedResults,
             LastIn(table, code, results) # None
      PROVE  \E result \in results : HasVisit(code, result, LastIn(table, code, results))
  <2>1. PICK result \in Rows(table, code, results) :
          LastIn(table, code, results) = table[<<code, result>>].last
    BY <1>2, LastInFacts
  <2>2. result \in results /\ result \in AggregatedResults /\ table[<<code, result>>].count > 0
    BY <2>1 DEF Rows
  <2>3. HasVisit(code, result, table[<<code, result>>].last)
    BY <1>1, <2>2 DEF TablesInv
  <2> QED
    BY <2>1, <2>2, <2>3
<1>3. /\ {"success"} \in SUBSET AggregatedResults
      /\ AggregatedResults \in SUBSET AggregatedResults
  BY DEF AggregatedResults
<1>4. /\ ReadTotals(code).lastAccess = LastIn(table, code, {"success"})
      /\ ReadTotals(code).lastAttempt = LastIn(table, code, AggregatedResults)
  BY <1>1, ReadTotalsIsTotalsIn DEF TotalsIn
<1> QED
  BY <1>2, <1>3, <1>4

LEMMA SelectTotalsReads ==
  ASSUME Inv, VisitsInv, Inv', NEW r \in Requests, SelectTotals(r)
  PROVE  ReadingInv(r)'
<1>1. TypeOK /\ TablesInv /\ RequestInv(r) /\ ReadingInv(r) /\ stage[r] = "totals"
  BY DEF Inv, VisitsInv, SelectTotals
<1>2. PICK code \in Codes : code = asked[r].code
  BY <1>1 DEF RequestInv, AskedType
<1>3. /\ stage'[r] = "trend" /\ summary'[r] = ReadTotals(code)
      /\ answer'[r] = "none" /\ asked'[r].code = code
      /\ UNCHANGED <<tables, asked, earlier, query, trend, answer>>
  BY <1>1, <1>2 DEF SelectTotals, Goto, TypeOK, RequestInv
<1>4. query'[r] \in QueryType
  BY <1>1, <1>3 DEF ReadingInv
<1>5. /\ summary'[r].lastAccess # None =>
           HasVisit(asked[r].code, "success", summary[r].lastAccess)'
      /\ summary'[r].lastAttempt # None =>
           \E result \in AggregatedResults :
             HasVisit(asked[r].code, result, summary[r].lastAttempt)'
  <2>1. PICK read : read = ReadTotals(code)
    OBVIOUS
  <2>2. /\ read.lastAccess # None => HasVisit(code, "success", read.lastAccess)
        /\ read.lastAttempt # None =>
             \E result \in AggregatedResults : HasVisit(code, result, read.lastAttempt)
    BY <1>1, <2>1, TotalsHaveVisits
  <2>3. summary'[r] = read
    BY <1>3, <2>1
  <2> QED
    BY <1>3, <2>2, <2>3 DEF HasVisit, tables
<1>6. ASSUME NEW s \in earlier'[r], Shown(s)', asked'[s].code = asked'[r].code
      PROVE  CountsTrendOf(r, s)'
  <2>1. s \in Requests /\ Shown(s) /\ asked[s].code = code
    BY <1>1, <1>2, <1>3, <1>6 DEF TypeOK, Shown
  <2>2. \A result \in AggregatedResults :
          TrendTotal(s, result) <= totals[<<code, result>>].count
    BY <2>1 DEF VisitsInv, ReadingInv
  <2>3. \A result \in AggregatedResults :
          summary'[r].count[result] = totals[<<code, result>>].count
    BY <1>3 DEF ReadTotals
  <2>4. \A result : TrendTotal(s, result)' = TrendTotal(s, result)
    BY <1>3, TrendKept
  <2> QED
    BY <2>2, <2>3, <2>4 DEF CountsTrendOf
<1>7. ~Shown(r)'
  BY <1>3 DEF Shown
<1> QED
  BY <1>3, <1>4, <1>5, <1>6, <1>7 DEF ReadingInv

LEMMA SelectTrendReads ==
  ASSUME Inv, VisitsInv, Inv', NEW r \in Requests, SelectTrend(r)
  PROVE  ReadingInv(r)'
<1>1. TypeOK /\ TablesInv /\ RequestInv(r) /\ ReadingInv(r) /\ stage[r] = "trend" /\ HasRead(r)
  BY DEF Inv, VisitsInv, SelectTrend, HasRead
<1>2. PICK code \in Codes, q \in QueryType, read \in SummaryType :
        code = asked[r].code /\ q = query[r] /\ read = summary[r]
  BY <1>1 DEF RequestInv, AskedType, ReadingInv
<1>3. /\ stage'[r] = "answered" /\ summary'[r] = read /\ query'[r] = q
      /\ asked'[r].code = code /\ asked' = asked /\ earlier' = earlier
      /\ UNCHANGED tables
      /\ \A s \in Requests \ {r} : trend'[s] = trend[s] /\ answer'[s] = answer[s]
  BY <1>2 DEF SelectTrend, Answer, Goto, Inv, TypeOK, VisitsInv
<1>4. trend' = [trend EXCEPT ![r] = ReadTrend(code, q)]
  BY <1>2 DEF SelectTrend
<1>5. ASSUME NEW s \in earlier'[r], Shown(s)', asked'[s].code = asked'[r].code
      PROVE  CountsTrendOf(r, s)'
  <2>1. s \in Requests \ {r} /\ s \in earlier[r]
    BY <1>1, <1>3, <1>5 DEF TypeOK, RequestInv
  <2>2. CountsTrendOf(r, s)
    BY <1>1, <1>3, <1>5, <2>1 DEF ReadingInv, Shown
  <2>3. \A result : TrendTotal(s, result)' = TrendTotal(s, result)
    BY <1>3, <2>1, TrendKept
  <2> QED
    BY <1>2, <1>3, <2>2, <2>3 DEF CountsTrendOf
<1>6. PICK points : points = ReadTrend(code, q)
  OBVIOUS
<1>7. trend'[r] = points
  BY <1>4, <1>6 DEF VisitsInv
<1>8. ASSUME NEW result \in AggregatedResults
      PROVE  /\ TrendTotal(r, result)' \in Nat
             /\ TrendTotal(r, result)' <= totals'[<<code, result>>].count
             /\ read.count[result] <=
                  TrendTotal(r, result)' + Counted(code, result, Outside(q))
  <2>1. TrendTotal(r, result)' = SumOf([point \in DOMAIN points |-> points[point][result]])
    BY <1>7 DEF TrendTotal, SumOf, Units
  <2>2. /\ TrendTotal(r, result)' \in Nat
        /\ TrendTotal(r, result)' <= Counted(code, result, Buckets)
        /\ Counted(code, result, Buckets)
             <= TrendTotal(r, result)' + Counted(code, result, Outside(q))
    BY <1>1, <1>6, <2>1, TrendIsComplete
  <2>3. totals[<<code, result>>].count = Counted(code, result, Buckets)
    BY <1>1 DEF TablesInv
  <2>4. read.count[result] <= totals[<<code, result>>].count
    BY <1>1, <1>2 DEF RequestInv, NoLess, ReadTotals
  <2>5. /\ totals[<<code, result>>].count \in Nat /\ read.count[result] \in Nat
        /\ Counted(code, result, Outside(q)) \in Nat
    <3>1. <<code, result>> \in TotalsKeys /\ Outside(q) \in SUBSET Buckets
      BY DEF TotalsKeys, Outside
    <3> QED
      BY <1>1, <3>1, SomeHours DEF TypeOK, TotalsRow, SummaryType
  <2>6. totals' = totals
    BY <1>3 DEF tables
  <2> QED
    BY <2>2, <2>3, <2>4, <2>5, <2>6
<1>9. Agree(r)'
  <2>1. \A result : Counted(asked[r].code, result, Outside(query[r]))'
                    = Counted(code, result, Outside(q))
    BY <1>3 DEF Counted, HoursOf, SumOf, Units, Outside, tables
  <2> QED
    BY <1>3, <1>8, <2>1 DEF Agree
<1>10. LastVisitsShow(r)'
  <2>1. ASSUME NEW results \in SUBSET AggregatedResults, NEW at,
               at # None => at \in Nat /\ \E result \in results : HasVisit(code, result, at),
               at # None, q.from <= HourBucket(at), HourBucket(at) < q.to
        PROVE  \E point \in DOMAIN points :
                 /\ point <= at \div 1000
                 /\ at \div 1000 < point + BucketSeconds(q.interval)
                 /\ \E result \in results : points[point][result] > 0
    <3>1. PICK result \in results : HasVisit(code, result, at)
      BY <2>1
    <3>2. at \in Nat /\ result \in AggregatedResults
      BY <2>1
    <3> QED
      BY <1>1, <1>6, <2>1, <3>1, <3>2, TrendShowsVisit
  <2>2. /\ read.lastAccess # None =>
             read.lastAccess \in Nat /\ \E result \in {"success"} : HasVisit(code, result, read.lastAccess)
        /\ read.lastAttempt # None =>
             /\ read.lastAttempt \in Nat
             /\ \E result \in AggregatedResults : HasVisit(code, result, read.lastAttempt)
    BY <1>1, <1>2 DEF ReadingInv, SummaryType
  <2>3. /\ {"success"} \in SUBSET AggregatedResults
        /\ AggregatedResults \in SUBSET AggregatedResults
    BY DEF AggregatedResults
  <2>4. InTrend(r, summary[r].lastAccess, {"success"})'
    <3>1. PICK at, successes : at = read.lastAccess /\ successes = {"success"}
      OBVIOUS
    <3>2. at # None /\ q.from <= HourBucket(at) /\ HourBucket(at) < q.to =>
            \E point \in DOMAIN points :
              /\ point <= at \div 1000
              /\ at \div 1000 < point + BucketSeconds(q.interval)
              /\ \E result \in successes : points[point][result] > 0
      BY <2>1, <2>2, <2>3, <3>1
    <3>3. summary'[r].lastAccess = at
      BY <1>3, <3>1
    <3> QED
      BY <1>3, <1>7, <3>1, <3>2, <3>3 DEF InTrend
  <2>5. InTrend(r, summary[r].lastAttempt, AggregatedResults)'
    BY <1>3, <1>7, <2>1, <2>2, <2>3 DEF InTrend
  <2> QED
    BY <2>4, <2>5 DEF LastVisitsShow
<1> QED
  BY <1>3, <1>5, <1>8, <1>9, <1>10 DEF ReadingInv

LEMMA HandleVisits ==
  ASSUME Inv, VisitsInv, Inv', NEW r \in Requests, Handle(r)
  PROVE  VisitsInv'
<1>1. /\ TypeOK /\ RequestInv(r) /\ ReadingInv(r)
      /\ stage[r] \notin {"idle", "answered"} /\ answer[r] = "none"
  BY DEF Handle, FindForOwner, ParseQuery, SelectLink, SelectTotals, SelectTrend,
         StatementFails, Inv, VisitsInv, TypeOK, RequestInv
<1>2. UNCHANGED tables /\ DOMAIN trend' = Requests
  BY DEF Handle, FindForOwner, ParseQuery, SelectLink, SelectTotals, SelectTrend,
         StatementFails, VisitsInv
<1>3. /\ asked' = asked /\ earlier' = earlier
      /\ \A s \in Requests \ {r} : stage'[s] = stage[s] /\ answer'[s] = answer[s]
  BY <1>1 DEF TypeOK, Handle, FindForOwner, ParseQuery, SelectLink, SelectTotals,
         SelectTrend, StatementFails, Answer, Goto
<1>4. \A s \in Requests \ {r} :
        query'[s] = query[s] /\ summary'[s] = summary[s] /\ trend'[s] = trend[s]
  BY <1>1 DEF TypeOK, VisitsInv, Handle, FindForOwner, ParseQuery, SelectLink,
         SelectTotals, SelectTrend, StatementFails
<1>5. \A s \in Requests \ {r} : Unmoved(s) /\ SameTrend(s)
  BY <1>3, <1>4 DEF Unmoved, SameTrend
<1>6. ASSUME stage'[r] # "trend", answer'[r] # "200",
             stage'[r] \in {"link", "totals", "trend"} => query'[r] \in QueryType
      PROVE  ReadingInv(r)'
  BY <1>6 DEF ReadingInv, HasRead, Shown
<1>7. CASE \E status \in {"400", "404", "500"} : Answer(r, status)
  <2>1. stage'[r] = "answered" /\ answer'[r] # "200"
    BY <1>1, <1>7 DEF Answer, Goto, TypeOK
  <2> QED
    BY <1>1, <1>2, <1>5, <1>6, <2>1, RequestVisits
<1>8. CASE FindForOwner(r) /\ Goto(r, "parse") /\ UNCHANGED answer
  <2>1. stage'[r] = "parse" /\ answer'[r] # "200"
    BY <1>1, <1>8 DEF Goto, TypeOK
  <2> QED
    BY <1>1, <1>2, <1>5, <1>6, <2>1, RequestVisits
<1>9. CASE ParseQuery(r) /\ ~Refused(asked[r].input, now)
  <2>1. PICK input \in Inputs, t \in Times : input = asked[r].input /\ t = now
    BY <1>1 DEF TypeOK, RequestInv, AskedType
  <2>2. Window(input, t) \in QueryType
    BY <1>9, <2>1, WindowType
  <2>3. stage'[r] = "link" /\ answer'[r] # "200" /\ query'[r] = Window(input, t)
    BY <1>1, <1>9, <2>1 DEF ParseQuery, Goto, TypeOK
  <2> QED
    BY <1>1, <1>2, <1>5, <1>6, <2>2, <2>3, RequestVisits
<1>10. CASE SelectLink(r) /\ Goto(r, "totals") /\ UNCHANGED answer
  <2>1. stage[r] = "link" /\ stage'[r] = "totals" /\ answer'[r] # "200" /\ query' = query
    BY <1>1, <1>10 DEF SelectLink, Goto, TypeOK
  <2>2. query'[r] \in QueryType
    BY <1>1, <2>1 DEF ReadingInv
  <2> QED
    BY <1>1, <1>2, <1>5, <1>6, <2>1, <2>2, RequestVisits
<1>11. CASE SelectTotals(r)
  BY <1>1, <1>2, <1>5, <1>11, SelectTotalsReads, RequestVisits
<1>12. CASE SelectTrend(r)
  BY <1>1, <1>2, <1>5, <1>12, SelectTrendReads, RequestVisits
<1> QED
  BY <1>7, <1>8, <1>9, <1>10, <1>11, <1>12
  DEF Handle, FindForOwner, ParseQuery, SelectLink, StatementFails

LEMMA InitVisits == Init => VisitsInv
<1> SUFFICES ASSUME Init PROVE VisitsInv
  OBVIOUS
<1>1. ASSUME NEW code \in Codes, NEW result \in AggregatedResults
      PROVE  RowsAgree(totals[<<code, result>>], hourly, code, result)
  <2> DEFINE f == [bucket \in Buckets |-> hourly[<<code, bucket, result>>]]
  <2>1. f \in [Buckets -> Nat] /\ \A bucket \in Buckets : f[bucket] = 0
    BY DEF Init, HourlyKeys
  <2>2. IsFiniteSet(Units(f)) /\ SumOf(f) = 0
    <3> HIDE DEF f
    <3> QED
      BY <2>1, SumOfNothing
  <2>3. totals[<<code, result>>].count = 0
    BY DEF Init, TotalsKeys, NoTotals
  <2> QED
    BY <2>2, <2>3 DEF RowsAgree
<1>2. TablesInv
  BY <1>1, TablesAgree
<1>3. \A r \in Requests : ReadingInv(r)
  BY DEF Init, ReadingInv, HasRead, Shown
<1>4. DOMAIN trend = Requests
  BY DEF Init
<1> QED
  BY <1>2, <1>3, <1>4 DEF VisitsInv

(***************************************************************************)
(* The tables belong together in every state, and so does whatever get has *)
(* read of them: the hours of a link add up to its totals, and its last    *)
(* visit is in one of them.                                                *)
(***************************************************************************)
THEOREM VisitsInvariance == Spec => []VisitsInv
<1>1. Inv /\ Inv' /\ VisitsInv /\ [Next]_vars => VisitsInv'
  BY EnvironmentVisits, AskVisits, HandleVisits DEF Next
<1> QED
  BY <1>1, InitVisits, QueryInvariance, PTL DEF Spec

(***************************************************************************)
(* The two parts of a statistics answer agree, although get reads them     *)
(* with two statements outside of a transaction: the trend misses no visit *)
(* that the summary counts, unless it lies outside of the window, and      *)
(* later summaries count all that it showed.                               *)
(***************************************************************************)
THEOREM PartsAlwaysAgree == Spec => []PartsAgree
<1>1. VisitsInv => PartsAgree
  BY DEF VisitsInv, ReadingInv, HasRead, PartsAgree
<1> QED
  BY <1>1, VisitsInvariance, PTL

(* The last access and the last attempt an answer of get names show in its *)
(* trend, at the point in which they lie, whenever they are in the window. *)
THEOREM LastVisitAlwaysInTrend == Spec => []LastVisitIsInTrend
<1>1. VisitsInv => LastVisitIsInTrend
  BY DEF VisitsInv, ReadingInv, LastVisitIsInTrend
<1> QED
  BY <1>1, VisitsInvariance, PTL

-----------------------------------------------------------------------------
(***************************************************************************)
(* The metrics.                                                            *)
(***************************************************************************)
(* Facts about the constants of the metrics.                               *)
LEMMA Least ==
  ASSUME NEW T \in SUBSET Nat, T # {}
  PROVE  \E x \in T : \A y \in T : x <= y
<1>1. PICK x \in T : \A y \in T : ~(<<y, x>> \in OpToRel(<, Nat))
  BY NatLessThanWellFounded, WFMin, Zenon
<1>2. \A y \in T : ~(y < x)
  BY <1>1 DEF OpToRel
<1> QED
  BY <1>2

LEMMA BoundsType == Len(Bounds) \in Nat /\ \A i \in 1..Len(Bounds) : Bounds[i] \in Nat
BY MetricsAssumption

(* A duration is in the bucket of the first bound that is not below it.    *)
LEMMA BucketFacts ==
  ASSUME NEW d \in Nat
  PROVE  /\ Bucket(d) \in 1..Len(Bounds) + 1
         /\ \A i \in 1..Len(Bounds) : Bucket(d) <= i <=> d <= Bounds[i]
<1> DEFINE reached == {i \in 1..Len(Bounds) : d <= Bounds[i]}
           Fits(i) == /\ \A j \in 1..i - 1 : Bounds[j] < d
                      /\ i <= Len(Bounds) => d <= Bounds[i]
<1>1. \E i \in 1..Len(Bounds) + 1 : Fits(i)
  <2>1. CASE reached = {}
    <3>1. Fits(Len(Bounds) + 1)
      BY <2>1, BoundsType
    <3> QED
      BY <3>1, BoundsType
  <2>2. CASE reached # {}
    <3>1. reached \in SUBSET Nat
      BY BoundsType
    <3>2. PICK i \in reached : \A j \in reached : i <= j
      BY <2>2, <3>1, Least
    <3>3. Fits(i)
      BY <3>2, BoundsType
    <3> QED
      BY <3>2, <3>3, BoundsType
  <2> QED
    BY <2>1, <2>2
<1>2. Bucket(d) \in 1..Len(Bounds) + 1 /\ Fits(Bucket(d))
  BY <1>1 DEF Bucket
<1>3. ASSUME NEW i \in 1..Len(Bounds)
      PROVE  Bucket(d) <= i <=> d <= Bounds[i]
  <2>1. CASE Bucket(d) <= i
    <3>1. Bucket(d) \in 1..Len(Bounds) /\ d <= Bounds[Bucket(d)]
      BY <1>2, <2>1, BoundsType
    <3>2. Bounds[Bucket(d)] <= Bounds[i]
      BY <2>1, <3>1, BoundsType, MetricsAssumption
    <3> QED
      BY <2>1, <3>1, <3>2, BoundsType
  <2>2. CASE ~(Bucket(d) <= i)
    <3>1. i \in 1..Bucket(d) - 1
      BY <1>2, <2>2, BoundsType
    <3> QED
      BY <1>2, <2>2, <3>1, BoundsType
  <2> QED
    BY <2>1, <2>2
<1> QED
  BY <1>2, <1>3

LEMMA RequestFacts ==
  ASSUME NEW r \in HttpRequests
  PROVE  /\ r.key \in Keys /\ r.duration \in Nat
         /\ r.key = Redirect => r.result \in RedirectResults
BY MetricsAssumption DEF HttpRequests, Keys, Redirect, Scrape, Unmatched

LEMMA ClassFacts ==
  /\ IsFiniteSet(Classes)
  /\ \A r \in HttpRequests : StatusClass(Status(r)) \in Classes
<1>1. \A result : StatusOf(result) \in {302, 404, 500}
  BY DEF StatusOf
<1>2. \A status \in {200, 302, 404, 500} : StatusClass(status) \in 0..4
  BY DEF StatusClass
<1>3. Classes \in SUBSET (0..4)
  BY <1>1, <1>2 DEF Classes
<1>4. IsFiniteSet(0..4)
  <2>1. 0 \in Int /\ 4 \in Int
    OBVIOUS
  <2> QED
    BY <2>1, FS_Interval
<1>5. ASSUME NEW r \in HttpRequests
      PROVE  StatusClass(Status(r)) \in Classes
  <2>1. CASE r.key = Redirect
    BY <2>1, RequestFacts DEF Status, Classes
  <2>2. CASE r.key # Redirect
    <3>1. r.key = Scrape \/ r.key = Unmatched
      BY <2>2, RequestFacts DEF Keys
    <3>2. Scrape # Redirect /\ Unmatched # Redirect /\ Scrape # Unmatched
      BY DEF Redirect, Scrape, Unmatched
    <3>3. Status(r) \in {200, 404}
      BY <3>1, <3>2 DEF Status
    <3> QED
      BY <3>3 DEF Classes
  <2> QED
    BY <2>1, <2>2
<1> QED
  BY <1>3, <1>4, <1>5, FS_Subset

LEMMA CounterFacts ==
  /\ \A key \in Keys :
       /\ \A class \in Classes : Counter("status", key, class) \in StatusCounters(key)
       /\ \A i \in 1..Len(Bounds) : Counter("bucket", key, i) \in BucketCounters(key)
  /\ \A keys \in SUBSET Keys :
       /\ HttpCounters(keys) \subseteq PageCounters
       /\ \A key \in keys :
            /\ StatusCounters(key) \subseteq HttpCounters(keys)
            /\ BucketCounters(key) \subseteq HttpCounters(keys)
            /\ Counter("count", key, 0) \in HttpCounters(keys)
  /\ RedirectCounters \subseteq PageCounters
  /\ \A result \in RedirectResults : Counter("redirects", result, 0) \in RedirectCounters
BY DEF StatusCounters, BucketCounters, HttpCounters, PageCounters, RedirectCounters

(* The counters of routes and those of results.                            *)
LEMMA CounterKinds ==
  ASSUME NEW c \in PageCounters
  PROVE  \/ c.field = "redirects" /\ c.key \in RedirectResults /\ c \in RedirectCounters
         \/ /\ c.field \in {"status", "bucket", "count", "duration"} /\ c.key \in Keys
            /\ c.field = "status" => c.at \in Classes
            /\ c.field = "bucket" => c.at \in 1..Len(Bounds)
            /\ c \notin RedirectCounters
            /\ \A keys \in SUBSET Keys : c \in HttpCounters(keys) <=> c.key \in keys
<1>1. CASE c \in RedirectCounters
  BY <1>1 DEF RedirectCounters, Counter
<1>2. CASE c \in HttpCounters(Keys)
  <2>1. PICK key \in Keys :
          \/ \E class \in Classes : c = Counter("status", key, class)
          \/ \E i \in 1..Len(Bounds) : c = Counter("bucket", key, i)
          \/ c = Counter("count", key, 0)
          \/ c = Counter("duration", key, 0)
    BY <1>2 DEF HttpCounters, StatusCounters, BucketCounters
  <2>2. /\ c.field \in {"status", "bucket", "count", "duration"} /\ c.key = key
        /\ c.field = "status" => c.at \in Classes
        /\ c.field = "bucket" => c.at \in 1..Len(Bounds)
    BY <2>1 DEF Counter
  <2>3. c \notin RedirectCounters
    BY <2>2 DEF RedirectCounters, Counter
  <2>4. ASSUME NEW keys \in SUBSET Keys
        PROVE  c \in HttpCounters(keys) <=> c.key \in keys
    <3>1. ASSUME c \in HttpCounters(keys)
          PROVE  c.key \in keys
      BY <3>1 DEF HttpCounters, StatusCounters, BucketCounters, Counter
    <3>2. ASSUME key \in keys
          PROVE  c \in HttpCounters(keys)
      BY <2>1, <3>2 DEF HttpCounters, StatusCounters, BucketCounters
    <3> QED
      BY <2>2, <3>1, <3>2
  <2> QED
    BY <2>2, <2>3, <2>4
<1> QED
  BY <1>1, <1>2 DEF PageCounters

-----------------------------------------------------------------------------
(* The thread t takes a step; the others stay where they are.              *)
OthersStay(t) == \A u \in Threads \ {t} : pc'[u] = pc[u] /\ request'[u] = request[u]

LEMMA UnderwayType ==
  ASSUME NEW R, NEW L
  PROVE  IsFiniteSet(Underway(R, L)) /\ Cardinality(Underway(R, L)) \in Nat
<1>1. Underway(R, L) \in SUBSET Threads
  BY DEF Underway
<1> QED
  BY <1>1, MetricsAssumption, FS_Subset, FS_CardinalityType

LEMMA UnderwaySteps ==
  ASSUME NEW t \in Threads, OthersStay(t), NEW R, NEW L
  PROVE  /\ IF pc'[t] \in L /\ request'[t] \in R
            THEN Underway(R, L)' = Underway(R, L) \cup {t}
            ELSE Underway(R, L)' = Underway(R, L) \ {t}
         /\ t \in Underway(R, L) <=> pc[t] \in L /\ request[t] \in R
BY DEF OthersStay, Underway

LEMMA CompletedType ==
  ASSUME completed \in [HttpRequests -> Nat], IsFiniteSet(Units(completed)),
         NEW R \in SUBSET HttpRequests
  PROVE  /\ [r \in R |-> completed[r]] \in [R -> Nat]
         /\ IsFiniteSet(Units([r \in R |-> completed[r]]))
         /\ Completed(R) \in Nat
<1> DEFINE f == [r \in R |-> completed[r]]
<1>1. f \in [R -> Nat] /\ \A r \in R : f[r] <= completed[r]
  OBVIOUS
<1> HIDE DEF f
<1>2. IsFiniteSet(Units(f))
  BY <1>1, SumGrows
<1>3. SumOf(f) \in Nat
  BY <1>1, <1>2, SumType
<1> QED
  BY <1>1, <1>2, <1>3 DEF f, Completed

LEMMA CompletedGrows ==
  ASSUME completed \in [HttpRequests -> Nat], IsFiniteSet(Units(completed)),
         NEW R \in SUBSET HttpRequests, NEW S \in SUBSET R
  PROVE  Completed(S) <= Completed(R)
<1> DEFINE f == [r \in S |-> completed[r]]
           g == [r \in R |-> completed[r]]
<1>1. f \in [S -> Nat] /\ g \in [R -> Nat] /\ \A r \in S : f[r] <= g[r]
  OBVIOUS
<1>2. IsFiniteSet(Units(g))
  BY CompletedType
<1> HIDE DEF f, g
<1>3. SumOf(f) <= SumOf(g)
  BY <1>1, <1>2, SumGrows
<1> QED
  BY <1>3 DEF f, g, Completed

LEMMA CompletedOfNone ==
  ASSUME completed \in [HttpRequests -> Nat],
         NEW R \in SUBSET HttpRequests, \A r \in R : completed[r] = 0
  PROVE  Completed(R) = 0
<1> DEFINE f == [r \in R |-> completed[r]]
<1>1. f \in [R -> Nat] /\ \A r \in R : f[r] = 0
  OBVIOUS
<1> HIDE DEF f
<1>2. SumOf(f) = 0
  BY <1>1, SumOfNothing
<1> QED
  BY <1>2 DEF f, Completed

LEMMA CompletedOneMore ==
  ASSUME completed \in [HttpRequests -> Nat], IsFiniteSet(Units(completed)),
         NEW k \in HttpRequests, completed' = [completed EXCEPT ![k] = @ + 1]
  PROVE  /\ completed' \in [HttpRequests -> Nat]
         /\ IsFiniteSet(Units(completed))'
         /\ \A R \in SUBSET HttpRequests :
              Completed(R)' = IF k \in R THEN Completed(R) + 1 ELSE Completed(R)
<1>1. completed' \in [HttpRequests -> Nat]
  OBVIOUS
<1>2. IsFiniteSet(Units(completed'))
  <2>1. completed' = [completed EXCEPT ![k] = completed[k] + 1]
    OBVIOUS
  <2>2. IsFiniteSet(Units([completed EXCEPT ![k] = completed[k] + 1]))
    BY SumCountsOneMore
  <2> QED
    BY <2>1, <2>2
<1>3. ASSUME NEW R \in SUBSET HttpRequests
      PROVE  Completed(R)' = IF k \in R THEN Completed(R) + 1 ELSE Completed(R)
  <2> DEFINE f == [r \in R |-> completed[r]]
             g == [r \in R |-> completed'[r]]
  <2>1. f \in [R -> Nat] /\ IsFiniteSet(Units(f))
    BY CompletedType
  <2>2. Completed(R) = SumOf(f) /\ Completed(R)' = SumOf(g)
    BY DEF Completed
  <2>3. CASE k \in R
    <3>1. g = [f EXCEPT ![k] = f[k] + 1]
      BY <2>3
    <3> HIDE DEF f, g
    <3>2. SumOf(g) = SumOf(f) + 1
      BY <2>1, <2>3, <3>1, SumCountsOneMore
    <3> QED
      BY <2>2, <2>3, <3>2
  <2>4. CASE k \notin R
    <3>1. g = f
      BY <2>4
    <3> QED
      BY <2>2, <2>4, <3>1
  <2> QED
    BY <2>3, <2>4
<1> QED
  BY <1>1, <1>2, <1>3 DEF SumOf

(* What a step of t does to the number of requests that reached a counter. *)
LEMMA ReachedKept ==
  ASSUME NEW t \in Threads, OthersStay(t), completed' = completed, NEW R, NEW L,
         (pc[t] \in L /\ request[t] \in R) <=> (pc'[t] \in L /\ request'[t] \in R)
  PROVE  Reached(R, L)' = Reached(R, L)
<1>1. Underway(R, L)' = Underway(R, L)
  BY DEF OthersStay, Underway
<1>2. Completed(R)' = Completed(R)
  BY DEF Completed
<1> QED
  BY <1>1, <1>2 DEF Reached

LEMMA ReachedOneMore ==
  ASSUME completed \in [HttpRequests -> Nat], IsFiniteSet(Units(completed)),
         NEW t \in Threads, OthersStay(t), completed' = completed,
         NEW R \in SUBSET HttpRequests, NEW L,
         pc[t] \notin L, pc'[t] \in L, request'[t] \in R
  PROVE  Reached(R, L)' = Reached(R, L) + 1
<1>1. Underway(R, L)' = Underway(R, L) \cup {t} /\ t \notin Underway(R, L)
  BY UnderwaySteps
<1>2. Cardinality(Underway(R, L)') = Cardinality(Underway(R, L)) + 1
  BY <1>1, UnderwayType, FS_AddElement
<1>3. Completed(R)' = Completed(R)
  BY DEF Completed
<1>4. Completed(R) \in Nat /\ Cardinality(Underway(R, L)) \in Nat
  BY CompletedType, UnderwayType
<1> QED
  BY <1>2, <1>3, <1>4 DEF Reached

LEMMA ReachedAtTheEnd ==
  ASSUME completed \in [HttpRequests -> Nat], IsFiniteSet(Units(completed)),
         NEW t \in Threads, OthersStay(t), request'[t] = request[t],
         request[t] \in HttpRequests,
         completed' = [completed EXCEPT ![request[t]] = @ + 1],
         NEW R \in SUBSET HttpRequests, NEW L,
         pc[t] \in L, pc'[t] \notin L
  PROVE  Reached(R, L)' = Reached(R, L)
<1>1. Completed(R)' = IF request[t] \in R THEN Completed(R) + 1 ELSE Completed(R)
  BY CompletedOneMore
<1>2. Underway(R, L)' = Underway(R, L) \ {t} /\ (t \in Underway(R, L) <=> request[t] \in R)
  BY UnderwaySteps
<1>3. Cardinality(Underway(R, L)') =
        IF request[t] \in R THEN Cardinality(Underway(R, L)) - 1 ELSE Cardinality(Underway(R, L))
  <2>1. IsFiniteSet(Underway(R, L))
    BY UnderwayType
  <2>2. Cardinality(Underway(R, L) \ {t}) =
          IF t \in Underway(R, L) THEN Cardinality(Underway(R, L)) - 1
          ELSE Cardinality(Underway(R, L))
    BY <2>1, FS_RemoveElement
  <2> QED
    BY <1>2, <2>2
<1>4. Completed(R) \in Nat /\ Cardinality(Underway(R, L)) \in Nat
  BY CompletedType, UnderwayType
<1> QED
  BY <1>1, <1>3, <1>4 DEF Reached

-----------------------------------------------------------------------------
(* What the invariant says of one thread, and of the counters of a route.  *)
CountersInv ==
  /\ MetricsTypeOK
  /\ IsFiniteSet(Units(completed))
  /\ \A key \in Keys : SeriesInv(key)
  /\ RedirectsInv

LEMMA RequestSets ==
  /\ \A key \in Keys : OfRoute(key) \in SUBSET HttpRequests
  /\ \A key \in Keys, i \in 1..Len(Bounds) : Within(key, i) \in SUBSET OfRoute(key)
  /\ \A result \in RedirectResults : WithResult(result) \in SUBSET OfRoute(Redirect)
  /\ \A r \in HttpRequests, key \in Keys : r \in OfRoute(key) <=> r.key = key
  /\ {Redirect, Scrape, Unmatched} \subseteq Keys
  /\ Redirect # Scrape /\ Redirect # Unmatched /\ Scrape # Unmatched
BY DEF OfRoute, Within, WithResult, Keys, Redirect, Scrape, Unmatched

LEMMA SeriesAt ==
  ASSUME MetricsTypeOK, NEW key \in Keys, SeriesInv(key), routes[key] # Unset
  PROVE  /\ routes[key] \in 1..Len(series)
         /\ series[routes[key]] \in SeriesType
         /\ \A other \in Keys : routes[other] = routes[key] => other = key
BY DEF MetricsTypeOK, SeriesInv

LEMMA HoldingType ==
  ASSUME CountersInv, NEW c \in PageCounters, Exists(c)
  PROVE  Holding(c, routes) \in Nat
<1>1. CASE c.field = "redirects"
  <2>1. c.key \in RedirectResults
    BY <1>1, CounterKinds
  <2> QED
    BY <1>1, <2>1 DEF Holding, CountersInv, MetricsTypeOK
<1>2. CASE c.field # "redirects"
  <2>1. /\ c.field \in {"status", "bucket", "count", "duration"} /\ c.key \in Keys
        /\ c.field = "status" => c.at \in Classes
        /\ c.field = "bucket" => c.at \in 1..Len(Bounds)
    BY <1>2, CounterKinds
  <2>2. routes[c.key] # Unset
    BY <1>2 DEF Exists
  <2>3. series[routes[c.key]] \in SeriesType
    BY <2>1, <2>2, SeriesAt DEF CountersInv
  <2> QED
    BY <2>1, <2>3 DEF Holding, SeriesType
<1> QED
  BY <1>1, <1>2

(* A route the step does not count for.                                    *)
LEMMA SeriesKept ==
  ASSUME NEW key \in Keys, SeriesInv(key), routes'[key] = routes[key],
         routes[key] # Unset =>
           /\ routes[key] \in 1..Len(series')
           /\ series'[routes[key]] = series[routes[key]]
           /\ \A other \in Keys : routes'[other] = routes[key] => other = key,
         \A r \in OfRoute(key) : completed'[r] = completed[r],
         Reached(OfRoute(key), {"bucket", "duration", "count"})'
           = Reached(OfRoute(key), {"bucket", "duration", "count"}),
         \A i \in 1..Len(Bounds) :
           Reached(Within(key, i), {"duration", "count"})'
             = Reached(Within(key, i), {"duration", "count"})
  PROVE  SeriesInv(key)'
<1>1. CASE routes[key] = Unset
  BY <1>1 DEF SeriesInv
<1>2. CASE routes[key] # Unset
  <2> DEFINE n == routes[key]
  <2>1. Completed(OfRoute(key))' = Completed(OfRoute(key))
    <3>1. [r \in OfRoute(key) |-> completed'[r]] = [r \in OfRoute(key) |-> completed[r]]
      OBVIOUS
    <3> QED
      BY <3>1 DEF Completed
  <2>2. \A i \in 1..Len(Bounds) :
          [j \in 1..i |-> series'[n].bucket[j]] = [j \in 1..i |-> series[n].bucket[j]]
    BY <1>2
  <2>3. /\ series'[n].count = Completed(OfRoute(key))'
        /\ SumOf(series'[n].status) = Reached(OfRoute(key), {"bucket", "duration", "count"})'
    BY <1>2, <2>1 DEF SeriesInv
  <2>4. \A i \in 1..Len(Bounds) :
          SumOf([j \in 1..i |-> series'[n].bucket[j]]) = Reached(Within(key, i), {"duration", "count"})'
    BY <1>2, <2>2 DEF SeriesInv, BucketsUpTo
  <2> QED
    BY <1>2, <2>3, <2>4 DEF SeriesInv, BucketsUpTo
<1> QED
  BY <1>1, <1>2

(* A step in which no thread passes a counter of the routes.               *)
LEMMA SeriesStay ==
  ASSUME NEW t \in Threads, OthersStay(t), UNCHANGED <<routes, series, completed>>,
         pc[t] \notin {"bucket", "duration", "count"},
         pc'[t] \notin {"bucket", "duration", "count"},
         NEW key \in Keys, SeriesInv(key)
  PROVE  SeriesInv(key)'
<1>1. Reached(OfRoute(key), {"bucket", "duration", "count"})'
        = Reached(OfRoute(key), {"bucket", "duration", "count"})
  BY ReachedKept
<1>2. ASSUME NEW i \in 1..Len(Bounds)
      PROVE  Reached(Within(key, i), {"duration", "count"})'
               = Reached(Within(key, i), {"duration", "count"})
  BY ReachedKept
<1>3. routes[key] # Unset =>
           /\ routes[key] \in 1..Len(series')
           /\ series'[routes[key]] = series[routes[key]]
           /\ \A other \in Keys : routes'[other] = routes[key] => other = key
  BY DEF SeriesInv
<1> QED
  BY <1>1, <1>2, <1>3, SeriesKept

(* A step of record counts for one route only.                             *)
LEMMA SeriesOfOthersStay ==
  ASSUME MetricsTypeOK, NEW t \in Threads, OthersStay(t), request'[t] = request[t],
         request[t] \in HttpRequests, routes' = routes, Len(series') = Len(series),
         \A n \in 1..Len(series) : n # routes[request[t].key] => series'[n] = series[n],
         \A r \in HttpRequests : r # request[t] => completed'[r] = completed[r],
         NEW key \in Keys, SeriesInv(key), key # request[t].key
  PROVE  SeriesInv(key)'
<1>1. request[t] \notin OfRoute(key)
  BY DEF OfRoute
<1>2. [r \in OfRoute(key) |-> completed'[r]] = [r \in OfRoute(key) |-> completed[r]]
  BY <1>1 DEF OfRoute
<1>3. ASSUME NEW R \in SUBSET OfRoute(key), NEW L
      PROVE  Reached(R, L)' = Reached(R, L)
  <2>1. Underway(R, L)' = Underway(R, L)
    BY <1>1 DEF OthersStay, Underway
  <2>2. [r \in R |-> completed'[r]] = [r \in R |-> completed[r]]
    BY <1>1 DEF OfRoute
  <2> QED
    BY <2>1, <2>2 DEF Reached, Completed
<1>4. /\ Reached(OfRoute(key), {"bucket", "duration", "count"})'
           = Reached(OfRoute(key), {"bucket", "duration", "count"})
      /\ \A i \in 1..Len(Bounds) :
           Reached(Within(key, i), {"duration", "count"})'
             = Reached(Within(key, i), {"duration", "count"})
  BY <1>3, RequestSets
<1>5. routes[key] # Unset =>
           /\ routes[key] \in 1..Len(series')
           /\ series'[routes[key]] = series[routes[key]]
           /\ \A other \in Keys : routes'[other] = routes[key] => other = key
  BY RequestFacts DEF SeriesInv
<1>6. \A r \in OfRoute(key) : completed'[r] = completed[r]
  BY <1>1 DEF OfRoute
<1> QED
  BY <1>4, <1>5, <1>6, SeriesKept

-----------------------------------------------------------------------------
(* The counters of a route, one step of record after another.              *)
LEMMA RecordFacts ==
  ASSUME CountersInv, NEW t \in Threads, ThreadInv(t), pc[t] \in Recording,
         NEW key, key = request[t].key, NEW n, n = handle[t]
  PROVE  /\ request[t] \in OfRoute(key) /\ key \in Keys
         /\ OfRoute(key) \in SUBSET HttpRequests
         /\ n = routes[key] /\ n # Unset
         /\ n \in 1..Len(series) /\ series \in Seq(SeriesType) /\ series[n] \in SeriesType
         /\ \A other \in Keys : routes[other] = n => other = key
         /\ series[n].count = Completed(OfRoute(key))
         /\ SumOf(series[n].status) = Reached(OfRoute(key), {"bucket", "duration", "count"})
         /\ \A i \in 1..Len(Bounds) :
              SumOf(BucketsUpTo(n, i)) = Reached(Within(key, i), {"duration", "count"})
         /\ completed \in [HttpRequests -> Nat] /\ IsFiniteSet(Units(completed))
<1>1. /\ request[t] \in HttpRequests
      /\ routes[request[t].key] # Unset /\ handle[t] = routes[request[t].key]
  BY DEF ThreadInv, Recording
<1>2. key \in Keys /\ SeriesInv(key) /\ MetricsTypeOK /\ IsFiniteSet(Units(completed))
  BY <1>1, RequestFacts DEF CountersInv
<1>3. series[n] \in SeriesType
  BY <1>1, <1>2, SeriesAt
<1>4. completed \in [HttpRequests -> Nat] /\ series \in Seq(SeriesType)
  BY <1>2 DEF MetricsTypeOK
<1>5. request[t] \in OfRoute(key) /\ OfRoute(key) \in SUBSET HttpRequests
  BY <1>1 DEF OfRoute
<1> QED
  BY <1>1, <1>2, <1>3, <1>4, <1>5 DEF SeriesInv

LEMMA StatusCount ==
  ASSUME NEW f \in [Classes -> Nat], NEW class \in Classes
  PROVE  SumOf([f EXCEPT ![class] = @ + 1]) = SumOf(f) + 1
<1>1. IsFiniteSet(Units(f))
  BY ClassFacts, UnitsAreFinite
<1>2. [f EXCEPT ![class] = @ + 1] = [f EXCEPT ![class] = f[class] + 1]
  OBVIOUS
<1> QED
  BY <1>1, <1>2, SumCountsOneMore

LEMMA BucketsType ==
  ASSUME NEW f \in [1..Len(Bounds) -> Nat], NEW i \in 0..Len(Bounds)
  PROVE  /\ [j \in 1..i |-> f[j]] \in [1..i -> Nat]
         /\ IsFiniteSet(Units([j \in 1..i |-> f[j]]))
         /\ SumOf([j \in 1..i |-> f[j]]) \in Nat
<1> DEFINE g == [j \in 1..i |-> f[j]]
<1>1. g \in [1..i -> Nat]
  BY BoundsType
<1>2. IsFiniteSet(1..i)
  <2>1. 1 \in Int /\ i \in Int
    BY BoundsType
  <2> QED
    BY <2>1, FS_Interval
<1> HIDE DEF g
<1>3. IsFiniteSet(Units(g))
  BY <1>1, <1>2, UnitsAreFinite
<1>4. SumOf(g) \in Nat
  BY <1>1, <1>3, SumType
<1> QED
  BY <1>1, <1>3, <1>4 DEF g

LEMMA BucketCount ==
  ASSUME NEW f \in [1..Len(Bounds) -> Nat], NEW b \in 1..Len(Bounds),
         NEW i \in 1..Len(Bounds)
  PROVE  SumOf([j \in 1..i |-> [f EXCEPT ![b] = @ + 1][j]])
           = IF b <= i THEN SumOf([j \in 1..i |-> f[j]]) + 1 ELSE SumOf([j \in 1..i |-> f[j]])
<1> DEFINE g == [j \in 1..i |-> f[j]]
           h == [j \in 1..i |-> [f EXCEPT ![b] = @ + 1][j]]
<1>1. g \in [1..i -> Nat] /\ IsFiniteSet(Units(g))
  <2>1. i \in 0..Len(Bounds)
    BY BoundsType
  <2> QED
    BY <2>1, BucketsType
<1>2. CASE b <= i
  <2>1. b \in 1..i /\ 1..i \subseteq 1..Len(Bounds)
    BY <1>2, BoundsType
  <2>2. h = [g EXCEPT ![b] = g[b] + 1]
    <3>1. \A j \in 1..i : h[j] = [g EXCEPT ![b] = g[b] + 1][j]
      BY <2>1
    <3> QED
      BY <3>1
  <2> HIDE DEF g, h
  <2>3. SumOf(h) = SumOf(g) + 1
    BY <1>1, <2>1, <2>2, SumCountsOneMore
  <2> QED
    BY <1>2, <2>3 DEF g, h
<1>3. CASE ~(b <= i)
  <2>1. h = g
    BY <1>3, BoundsType
  <2> HIDE DEF g, h
  <2>2. SumOf(h) = SumOf(g)
    BY <2>1
  <2> QED
    BY <1>3, <2>2 DEF g, h
<1> QED
  BY <1>2, <1>3

LEMMA StatusStep ==
  ASSUME CountersInv, NEW t \in Threads, ThreadInv(t), CountStatus(t),
         NEW key, key = request[t].key
  PROVE  SeriesInv(key)'
<1>1. PICK n : n = handle[t]
  OBVIOUS
<1>2. PICK s \in SeriesType : s = series[n]
  BY <1>1, RecordFacts DEF CountStatus, Recording
<1>3. PICK class \in Classes : class = StatusClass(Status(request[t]))
  BY <1>1, RecordFacts, ClassFacts DEF CountStatus, Recording
<1>4. /\ OthersStay(t) /\ routes' = routes /\ completed' = completed /\ request' = request
      /\ pc[t] = "status" /\ pc'[t] = "bucket"
  BY DEF CountersInv, MetricsTypeOK, CountStatus, Proceed, OthersStay, history
<1>5. /\ n \in 1..Len(series')
      /\ series'[n] = [s EXCEPT !.status = [s.status EXCEPT ![class] = @ + 1]]
  <2>1. n \in 1..Len(series) /\ series \in Seq(SeriesType)
    BY <1>1, <1>4, RecordFacts DEF Recording
  <2>2. series' = [series EXCEPT ![n] = [s EXCEPT !.status = [s.status EXCEPT ![class] = @ + 1]]]
    BY <1>1, <1>2, <1>3 DEF CountStatus
  <2> QED
    BY <2>1, <2>2
<1>6. /\ series'[n].count = s.count /\ series'[n].bucket = s.bucket
      /\ series'[n].status = [s.status EXCEPT ![class] = @ + 1]
  BY <1>5 DEF SeriesType
<1>7. SumOf(series'[n].status) = Reached(OfRoute(key), {"bucket", "duration", "count"})'
  <2>1. SumOf(series'[n].status) = SumOf(s.status) + 1
    BY <1>6, StatusCount DEF SeriesType
  <2>2. /\ request[t] \in OfRoute(key) /\ OfRoute(key) \in SUBSET HttpRequests
        /\ completed \in [HttpRequests -> Nat] /\ IsFiniteSet(Units(completed))
        /\ SumOf(s.status) = Reached(OfRoute(key), {"bucket", "duration", "count"})
    BY <1>1, <1>2, <1>4, RecordFacts DEF Recording
  <2>3. Reached(OfRoute(key), {"bucket", "duration", "count"})'
          = Reached(OfRoute(key), {"bucket", "duration", "count"}) + 1
    BY <1>4, <2>2, ReachedOneMore
  <2> QED
    BY <2>1, <2>2, <2>3
<1>8. ASSUME NEW i \in 1..Len(Bounds)
      PROVE  SumOf([j \in 1..i |-> series'[n].bucket[j]]) = Reached(Within(key, i), {"duration", "count"})'
  <2>1. SumOf([j \in 1..i |-> series'[n].bucket[j]]) = Reached(Within(key, i), {"duration", "count"})
    BY <1>1, <1>2, <1>4, <1>6, RecordFacts DEF BucketsUpTo, Recording
  <2>2. Reached(Within(key, i), {"duration", "count"})' = Reached(Within(key, i), {"duration", "count"})
    BY <1>4, ReachedKept
  <2> QED
    BY <2>1, <2>2
<1>9. series'[n].count = Completed(OfRoute(key))'
  <2>1. s.count = Completed(OfRoute(key))
    BY <1>1, <1>2, <1>4, RecordFacts DEF Recording
  <2>2. Completed(OfRoute(key))' = Completed(OfRoute(key))
    BY <1>4 DEF Completed
  <2> QED
    BY <1>6, <2>1, <2>2
<1>10. n = routes'[key] /\ n # Unset /\ \A other \in Keys : routes'[other] = n => other = key
  BY <1>1, <1>4, RecordFacts DEF Recording
<1> QED
  BY <1>5, <1>7, <1>8, <1>9, <1>10, ZenonT(40) DEF SeriesInv, BucketsUpTo

LEMMA BucketStep ==
  ASSUME CountersInv, NEW t \in Threads, ThreadInv(t), CountBucket(t),
         NEW key, key = request[t].key
  PROVE  SeriesInv(key)'
<1>1. PICK n : n = handle[t]
  OBVIOUS
<1>2. /\ OthersStay(t) /\ routes' = routes /\ completed' = completed /\ request' = request
      /\ pc[t] = "bucket" /\ pc'[t] = "duration"
  BY DEF CountersInv, MetricsTypeOK, CountBucket, Proceed, OthersStay, history
<1>3. PICK s \in SeriesType : s = series[n]
  BY <1>1, <1>2, RecordFacts DEF Recording
<1>4. /\ request[t] \in OfRoute(key) /\ OfRoute(key) \in SUBSET HttpRequests
      /\ completed \in [HttpRequests -> Nat] /\ IsFiniteSet(Units(completed))
  BY <1>1, <1>2, RecordFacts DEF Recording
<1>5. PICK d \in Nat : d = request[t].duration
  BY <1>4, RequestFacts
<1>6. PICK b \in 1..Len(Bounds) + 1 : b = Bucket(d)
  BY BucketFacts
<1>7. /\ n \in 1..Len(series')
      /\ series'[n].count = s.count /\ series'[n].status = s.status
      /\ series'[n].bucket = IF b > Len(Bounds) THEN s.bucket ELSE [s.bucket EXCEPT ![b] = @ + 1]
  <2>1. n \in 1..Len(series) /\ series \in Seq(SeriesType)
    BY <1>1, <1>2, RecordFacts DEF Recording
  <2>2. series' = IF b > Len(Bounds) THEN series
                  ELSE [series EXCEPT ![n] = [s EXCEPT !.bucket = [s.bucket EXCEPT ![b] = @ + 1]]]
    BY <1>1, <1>3, <1>5, <1>6 DEF CountBucket
  <2>3. CASE b > Len(Bounds)
    BY <1>3, <2>1, <2>2, <2>3
  <2>4. CASE ~(b > Len(Bounds))
    <3>1. n \in 1..Len(series')
          /\ series'[n] = [s EXCEPT !.bucket = [s.bucket EXCEPT ![b] = @ + 1]]
      BY <2>1, <2>2, <2>4
    <3> QED
      BY <2>4, <3>1 DEF SeriesType
  <2> QED
    BY <2>3, <2>4
<1>8. SumOf(series'[n].status) = Reached(OfRoute(key), {"bucket", "duration", "count"})'
  <2>1. SumOf(s.status) = Reached(OfRoute(key), {"bucket", "duration", "count"})
    BY <1>1, <1>2, <1>3, RecordFacts DEF Recording
  <2>2. Reached(OfRoute(key), {"bucket", "duration", "count"})'
          = Reached(OfRoute(key), {"bucket", "duration", "count"})
    BY <1>2, ReachedKept
  <2> QED
    BY <1>7, <2>1, <2>2
<1>9. ASSUME NEW i \in 1..Len(Bounds)
      PROVE  SumOf([j \in 1..i |-> series'[n].bucket[j]]) = Reached(Within(key, i), {"duration", "count"})'
  <2>1. SumOf([j \in 1..i |-> s.bucket[j]]) = Reached(Within(key, i), {"duration", "count"})
    BY <1>1, <1>2, <1>3, RecordFacts DEF BucketsUpTo, Recording
  <2>2. b <= i <=> request[t] \in Within(key, i)
    BY <1>4, <1>5, <1>6, BucketFacts DEF Within
  <2>3. CASE b <= i
    <3>1. b \in 1..Len(Bounds) /\ ~(b > Len(Bounds))
      BY <1>6, <2>3, BoundsType
    <3>2. SumOf([j \in 1..i |-> series'[n].bucket[j]]) = SumOf([j \in 1..i |-> s.bucket[j]]) + 1
      <4>1. SumOf([j \in 1..i |-> [s.bucket EXCEPT ![b] = @ + 1][j]]) = SumOf([j \in 1..i |-> s.bucket[j]]) + 1
        BY <2>3, <3>1, BucketCount DEF SeriesType
      <4> QED
        BY <1>7, <3>1, <4>1
    <3>3. Within(key, i) \in SUBSET HttpRequests
      BY <1>4 DEF Within
    <3>4. Reached(Within(key, i), {"duration", "count"})' = Reached(Within(key, i), {"duration", "count"}) + 1
      BY <1>2, <1>4, <2>2, <2>3, <3>3, ReachedOneMore
    <3> QED
      BY <2>1, <3>2, <3>4
  <2>4. CASE ~(b <= i)
    <3>1. SumOf([j \in 1..i |-> series'[n].bucket[j]]) = SumOf([j \in 1..i |-> s.bucket[j]])
      <4>1. CASE b > Len(Bounds)
        BY <1>7, <4>1
      <4>2. CASE ~(b > Len(Bounds))
        <5>1. b \in 1..Len(Bounds)
          BY <1>6, <4>2, BoundsType
        <5>2. SumOf([j \in 1..i |-> [s.bucket EXCEPT ![b] = @ + 1][j]]) = SumOf([j \in 1..i |-> s.bucket[j]])
          BY <2>4, <5>1, BucketCount DEF SeriesType
        <5> QED
          BY <1>7, <4>2, <5>2
      <4> QED
        BY <4>1, <4>2
    <3>2. Reached(Within(key, i), {"duration", "count"})' = Reached(Within(key, i), {"duration", "count"})
      BY <1>2, <2>2, <2>4, ReachedKept
    <3> QED
      BY <2>1, <3>1, <3>2
  <2> QED
    BY <2>3, <2>4
<1>10. series'[n].count = Completed(OfRoute(key))'
  <2>1. s.count = Completed(OfRoute(key))
    BY <1>1, <1>2, <1>3, RecordFacts DEF Recording
  <2>2. Completed(OfRoute(key))' = Completed(OfRoute(key))
    BY <1>2 DEF Completed
  <2> QED
    BY <1>7, <2>1, <2>2
<1>11. n = routes'[key] /\ n # Unset /\ \A other \in Keys : routes'[other] = n => other = key
  BY <1>1, <1>2, RecordFacts DEF Recording
<1> QED
  BY <1>7, <1>8, <1>9, <1>10, <1>11 DEF SeriesInv, BucketsUpTo

LEMMA DurationStep ==
  ASSUME CountersInv, NEW t \in Threads, ThreadInv(t), AddDuration(t),
         NEW key, key = request[t].key
  PROVE  SeriesInv(key)'
<1>1. PICK n : n = handle[t]
  OBVIOUS
<1>2. /\ OthersStay(t) /\ routes' = routes /\ completed' = completed /\ request' = request
      /\ pc[t] = "duration" /\ pc'[t] = "count"
  BY DEF CountersInv, MetricsTypeOK, AddDuration, Proceed, OthersStay, history
<1>3. PICK s \in SeriesType : s = series[n]
  BY <1>1, <1>2, RecordFacts DEF Recording
<1>4. /\ n \in 1..Len(series')
      /\ series'[n].count = s.count /\ series'[n].status = s.status
      /\ series'[n].bucket = s.bucket
  <2>1. n \in 1..Len(series) /\ series \in Seq(SeriesType)
    BY <1>1, <1>2, RecordFacts DEF Recording
  <2>2. PICK d : series' = [series EXCEPT ![n] = [s EXCEPT !.duration = d]]
    BY <1>1, <1>3 DEF AddDuration
  <2>3. n \in 1..Len(series') /\ series'[n] = [s EXCEPT !.duration = d]
    BY <2>1, <2>2
  <2> QED
    BY <2>3 DEF SeriesType
<1>5. SumOf(series'[n].status) = Reached(OfRoute(key), {"bucket", "duration", "count"})'
  <2>1. SumOf(s.status) = Reached(OfRoute(key), {"bucket", "duration", "count"})
    BY <1>1, <1>2, <1>3, RecordFacts DEF Recording
  <2>2. Reached(OfRoute(key), {"bucket", "duration", "count"})'
          = Reached(OfRoute(key), {"bucket", "duration", "count"})
    BY <1>2, ReachedKept
  <2> QED
    BY <1>4, <2>1, <2>2
<1>6. ASSUME NEW i \in 1..Len(Bounds)
      PROVE  SumOf([j \in 1..i |-> series'[n].bucket[j]]) = Reached(Within(key, i), {"duration", "count"})'
  <2>1. SumOf([j \in 1..i |-> series'[n].bucket[j]]) = Reached(Within(key, i), {"duration", "count"})
    BY <1>1, <1>2, <1>3, <1>4, RecordFacts DEF BucketsUpTo, Recording
  <2>2. Reached(Within(key, i), {"duration", "count"})' = Reached(Within(key, i), {"duration", "count"})
    BY <1>2, ReachedKept
  <2> QED
    BY <2>1, <2>2
<1>7. series'[n].count = Completed(OfRoute(key))'
  <2>1. s.count = Completed(OfRoute(key))
    BY <1>1, <1>2, <1>3, RecordFacts DEF Recording
  <2>2. Completed(OfRoute(key))' = Completed(OfRoute(key))
    BY <1>2 DEF Completed
  <2> QED
    BY <1>4, <2>1, <2>2
<1>8. n = routes'[key] /\ n # Unset /\ \A other \in Keys : routes'[other] = n => other = key
  BY <1>1, <1>2, RecordFacts DEF Recording
<1> QED
  BY <1>4, <1>5, <1>6, <1>7, <1>8 DEF SeriesInv, BucketsUpTo

LEMMA CountStep ==
  ASSUME CountersInv, NEW t \in Threads, ThreadInv(t), CountRequest(t),
         NEW key, key = request[t].key
  PROVE  SeriesInv(key)'
<1>1. PICK n : n = handle[t]
  OBVIOUS
<1>2. /\ OthersStay(t) /\ routes' = routes /\ request' = request
      /\ completed' = [completed EXCEPT ![request[t]] = @ + 1]
      /\ pc[t] = "count" /\ pc'[t] = "idle"
  BY DEF CountersInv, MetricsTypeOK, CountRequest, Proceed, OthersStay, history
<1>3. PICK s \in SeriesType : s = series[n]
  BY <1>1, <1>2, RecordFacts DEF Recording
<1>4. /\ request[t] \in OfRoute(key) /\ OfRoute(key) \in SUBSET HttpRequests
      /\ request[t] \in HttpRequests
      /\ completed \in [HttpRequests -> Nat] /\ IsFiniteSet(Units(completed))
  BY <1>1, <1>2, RecordFacts DEF Recording
<1>5. /\ n \in 1..Len(series')
      /\ series'[n].count = s.count + 1 /\ series'[n].status = s.status
      /\ series'[n].bucket = s.bucket
  <2>1. n \in 1..Len(series) /\ series \in Seq(SeriesType)
    BY <1>1, <1>2, RecordFacts DEF Recording
  <2>2. series' = [series EXCEPT ![n] = [s EXCEPT !.count = s.count + 1]]
    BY <1>1, <1>3 DEF CountRequest
  <2>3. n \in 1..Len(series') /\ series'[n] = [s EXCEPT !.count = s.count + 1]
    BY <2>1, <2>2
  <2> QED
    BY <2>3 DEF SeriesType
<1>6. SumOf(series'[n].status) = Reached(OfRoute(key), {"bucket", "duration", "count"})'
  <2>1. SumOf(s.status) = Reached(OfRoute(key), {"bucket", "duration", "count"})
    BY <1>1, <1>2, <1>3, RecordFacts DEF Recording
  <2>2. Reached(OfRoute(key), {"bucket", "duration", "count"})'
          = Reached(OfRoute(key), {"bucket", "duration", "count"})
    BY <1>2, <1>4, ReachedAtTheEnd
  <2> QED
    BY <1>5, <2>1, <2>2
<1>7. ASSUME NEW i \in 1..Len(Bounds)
      PROVE  SumOf([j \in 1..i |-> series'[n].bucket[j]]) = Reached(Within(key, i), {"duration", "count"})'
  <2>1. SumOf([j \in 1..i |-> series'[n].bucket[j]]) = Reached(Within(key, i), {"duration", "count"})
    <3>1. pc[t] \in Recording
      BY <1>2 DEF Recording
    <3>2. SumOf(BucketsUpTo(n, i)) = Reached(Within(key, i), {"duration", "count"})
      BY <1>1, <3>1, RecordFacts
    <3>3. SumOf([j \in 1..i |-> s.bucket[j]]) = Reached(Within(key, i), {"duration", "count"})
      BY <1>3, <3>2 DEF BucketsUpTo
    <3> QED
      BY <1>5, <3>3
  <2>2. Within(key, i) \in SUBSET HttpRequests
    BY <1>4 DEF Within
  <2>3. Reached(Within(key, i), {"duration", "count"})' = Reached(Within(key, i), {"duration", "count"})
    BY <1>2, <1>4, <2>2, ReachedAtTheEnd
  <2> QED
    BY <2>1, <2>3
<1>8. series'[n].count = Completed(OfRoute(key))'
  <2>1. s.count = Completed(OfRoute(key))
    BY <1>1, <1>2, <1>3, RecordFacts DEF Recording
  <2>2. Completed(OfRoute(key))' = Completed(OfRoute(key)) + 1
    BY <1>2, <1>4, CompletedOneMore
  <2> QED
    BY <1>5, <2>1, <2>2
<1>9. n = routes'[key] /\ n # Unset /\ \A other \in Keys : routes'[other] = n => other = key
  BY <1>1, <1>2, RecordFacts DEF Recording
<1> QED
  BY <1>5, <1>6, <1>7, <1>8, <1>9 DEF SeriesInv, BucketsUpTo

(* A new route has no request yet, neither recorded nor underway.          *)
LEMMA MakeStep ==
  ASSUME CountersInv, \A u \in Threads : ThreadInv(u),
         NEW t \in Threads, Register(t), routes[request[t].key] = Unset,
         NEW key \in Keys
  PROVE  SeriesInv(key)'
<1>1. /\ OthersStay(t) /\ completed' = completed /\ request' = request
      /\ pc[t] = "register" /\ pc'[t] = "status"
  BY DEF CountersInv, MetricsTypeOK, Register, Proceed, OthersStay, history
<1>2. /\ request[t] \in HttpRequests /\ request[t].key \in Keys
  BY <1>1, RequestFacts DEF ThreadInv
<1>3. PICK n : n = Len(series) + 1
  OBVIOUS
<1>4. /\ Len(series) \in Nat /\ series' = Append(series, NewSeries)
      /\ routes' = [routes EXCEPT ![request[t].key] = n]
      /\ n \in 1..Len(series') /\ n # Unset
      /\ \A other \in Keys : routes[other] # Unset => routes[other] \in 1..Len(series) /\ routes[other] # n
  BY <1>2, <1>3, MetricsAssumption DEF CountersInv, MetricsTypeOK, Register, Make, SeriesInv
<1>5. series'[n] = NewSeries /\ \A m \in 1..Len(series) : series'[m] = series[m]
  BY <1>3, <1>4 DEF CountersInv, MetricsTypeOK
<1>6. routes \in [Keys -> Nat \cup {Unset}] /\ completed \in [HttpRequests -> Nat]
  BY DEF CountersInv, MetricsTypeOK
<1>7. CASE key = request[t].key
  <2>1. \A r \in OfRoute(key) : completed[r] = 0
    BY <1>7 DEF CountersInv, SeriesInv
  <2>2. ASSUME NEW R \in SUBSET OfRoute(key), NEW L \in SUBSET Recording, "status" \notin L
        PROVE  Reached(R, L)' = 0
    <3>1. [r \in R |-> completed'[r]] = [r \in R |-> completed[r]]
      BY <1>1
    <3>2. Completed(R) = 0
      BY <1>6, <2>1, CompletedOfNone DEF OfRoute
    <3>3. Completed(R)' = 0
      BY <3>1, <3>2 DEF Completed
    <3>4. Underway(R, L)' = {}
      <4>1. ASSUME NEW u \in Threads, pc'[u] \in L, request'[u] \in R
            PROVE  FALSE
        <5>1. u # t
          BY <1>1, <2>2, <4>1
        <5>2. pc[u] \in Recording /\ request[u].key = key
          BY <1>1, <4>1, <5>1 DEF OthersStay, OfRoute
        <5>3. routes[request[u].key] # Unset
          BY <5>2 DEF ThreadInv
        <5> QED
          BY <1>7, <5>2, <5>3
      <4> QED
        BY <4>1 DEF Underway
    <3> QED
      BY <3>3, <3>4, FS_EmptySet DEF Reached
  <2>3. OfRoute(key) \in SUBSET OfRoute(key)
        /\ \A i \in 1..Len(Bounds) : Within(key, i) \in SUBSET OfRoute(key)
    BY RequestSets
  <2>4. Reached(OfRoute(key), {"bucket", "duration", "count"})' = 0
    BY <2>2, <2>3 DEF Recording
  <2>5. ASSUME NEW i \in 1..Len(Bounds)
        PROVE  Reached(Within(key, i), {"duration", "count"})' = 0
    BY <2>2, <2>3 DEF Recording
  <2>6. SumOf(series'[n].status) = 0
    <3>1. series'[n].status = [class \in Classes |-> 0]
      BY <1>5 DEF NewSeries
    <3>2. series'[n].status \in [Classes -> Nat] /\ \A class \in Classes : series'[n].status[class] = 0
      BY <3>1
    <3> QED
      BY <3>2, SumOfNothing
  <2>7. ASSUME NEW i \in 1..Len(Bounds)
        PROVE  SumOf([j \in 1..i |-> series'[n].bucket[j]]) = 0
    <3> DEFINE f == [j \in 1..i |-> series'[n].bucket[j]]
    <3>1. series'[n].bucket = [j \in 1..Len(Bounds) |-> 0]
      BY <1>5 DEF NewSeries
    <3>2. 1..i \subseteq 1..Len(Bounds)
      BY BoundsType
    <3>3. f \in [1..i -> Nat] /\ \A j \in 1..i : f[j] = 0
      BY <3>1, <3>2
    <3> HIDE DEF f
    <3>4. SumOf(f) = 0
      BY <3>3, SumOfNothing
    <3> QED
      BY <3>4 DEF f
  <2>8. series'[n].count = Completed(OfRoute(key))'
    <3>1. Completed(OfRoute(key)) = 0
      BY <1>6, <2>1, CompletedOfNone DEF OfRoute
    <3>2. Completed(OfRoute(key))' = 0
      BY <1>1, <3>1 DEF Completed
    <3> QED
      BY <1>5, <3>2 DEF NewSeries
  <2>9. n = routes'[key] /\ \A other \in Keys : routes'[other] = n => other = key
    BY <1>2, <1>4, <1>6, <1>7
  <2> QED
    BY <1>4, <2>4, <2>5, <2>6, <2>7, <2>8, <2>9 DEF SeriesInv, BucketsUpTo
<1>8. CASE key # request[t].key
  <2>1. /\ SeriesInv(key) /\ routes'[key] = routes[key]
        /\ routes[key] # Unset =>
             /\ routes[key] \in 1..Len(series')
             /\ series'[routes[key]] = series[routes[key]]
             /\ \A other \in Keys : routes'[other] = routes[key] => other = key
    BY <1>2, <1>4, <1>5, <1>6, <1>8 DEF CountersInv, SeriesInv
  <2>2. /\ \A r \in OfRoute(key) : completed'[r] = completed[r]
        /\ Reached(OfRoute(key), {"bucket", "duration", "count"})'
             = Reached(OfRoute(key), {"bucket", "duration", "count"})
        /\ \A i \in 1..Len(Bounds) :
             Reached(Within(key, i), {"duration", "count"})'
               = Reached(Within(key, i), {"duration", "count"})
    BY <1>1, ReachedKept
  <2> QED
    BY <2>1, <2>2, SeriesKept
<1> QED
  BY <1>7, <1>8

-----------------------------------------------------------------------------
(* The steps of a thread.                                                  *)
Step(t) ==
  \/ Begin(t) \/ Resolve(t)
  \/ OpenPart(t) \/ Read(t) \/ Rendered(t)
  \/ Find(t) \/ Register(t)
  \/ CountStatus(t) \/ CountBucket(t) \/ AddDuration(t) \/ CountRequest(t)

LEMMA BeginFacts ==
  ASSUME MetricsTypeOK, NEW t \in Threads, Begin(t)
  PROVE  /\ request' \in [Threads -> HttpRequests \cup {Unset}] /\ request'[t] \in HttpRequests
         /\ parts' \in [Threads -> SUBSET {"http", "business"}]
         /\ pc' \in [Threads -> Labels] /\ pc[t] = "idle"
         /\ request'[t].key = Redirect => pc'[t] = "resolve"
         /\ request'[t].key = Scrape => pc'[t] = "render"
         /\ request'[t].key = Unmatched => pc'[t] = "find"
         /\ parts'[t] = IF request'[t].key = Scrape THEN {"http", "business"} ELSE {}
         /\ \A u \in Threads \ {t} :
              pc'[u] = pc[u] /\ request'[u] = request[u] /\ parts'[u] = parts[u]
<1>1. PICK r \in HttpRequests :
        /\ request' = [request EXCEPT ![t] = r]
        /\ pc' = [pc EXCEPT ![t] = CASE r.key = Redirect  -> "resolve"
                                      [] r.key = Scrape    -> "render"
                                      [] r.key = Unmatched -> "find"]
        /\ parts' = [parts EXCEPT ![t] = IF r.key = Scrape THEN {"http", "business"} ELSE {}]
  BY DEF Begin, Proceed
<1>2. /\ request' \in [Threads -> HttpRequests \cup {Unset}] /\ request'[t] = r
      /\ pc[t] = "idle"
      /\ \A u \in Threads \ {t} :
           pc'[u] = pc[u] /\ request'[u] = request[u] /\ parts'[u] = parts[u]
  BY <1>1 DEF Begin, MetricsTypeOK
<1>3. /\ parts' \in [Threads -> SUBSET {"http", "business"}]
      /\ parts'[t] = IF r.key = Scrape THEN {"http", "business"} ELSE {}
  BY <1>1 DEF MetricsTypeOK
<1>4. r.key = Redirect \/ r.key = Scrape \/ r.key = Unmatched
  BY RequestFacts DEF Keys
<1>5. /\ pc' \in [Threads -> Labels]
      /\ r.key = Redirect => pc'[t] = "resolve"
      /\ r.key = Scrape => pc'[t] = "render"
      /\ r.key = Unmatched => pc'[t] = "find"
  BY <1>1, <1>4, RequestSets DEF MetricsTypeOK, Labels
<1> QED
  BY <1>2, <1>3, <1>5

LEMMA SeriesNext ==
  ASSUME CountersInv, \A u \in Threads : ThreadInv(u), NEW t \in Threads, Step(t),
         NEW key \in Keys
  PROVE  SeriesInv(key)'
<1>1. SeriesInv(key) /\ MetricsTypeOK
  BY DEF CountersInv
<1>2. CASE Begin(t)
  <2>1. /\ OthersStay(t) /\ UNCHANGED <<routes, series, completed>>
        /\ pc[t] = "idle" /\ pc'[t] \in {"resolve", "render", "find"}
    <3>1. UNCHANGED <<routes, series, completed>>
      BY <1>2 DEF Begin, counters
    <3> QED
      BY <1>1, <1>2, <3>1, BeginFacts, RequestFacts DEF OthersStay, Keys
  <2> QED
    BY <1>1, <2>1, SeriesStay
<1>3. CASE Resolve(t) \/ OpenPart(t) \/ Read(t) \/ Rendered(t) \/ Find(t)
  <2>1. /\ OthersStay(t) /\ UNCHANGED <<routes, series, completed>>
        /\ pc[t] \in {"resolve", "render", "find"}
        /\ pc'[t] \in {"find", "render", "status", "register"}
    BY <1>1, <1>3 DEF Resolve, OpenPart, Read, Rendered, Find, MetricsTypeOK, Proceed,
                      OthersStay, counters, history
  <2> QED
    BY <1>1, <2>1, SeriesStay
<1>4. CASE Register(t)
  <2>1. CASE routes[request[t].key] # Unset
    <3>1. /\ OthersStay(t) /\ UNCHANGED <<routes, series, completed>>
          /\ pc[t] = "register" /\ pc'[t] = "status"
      BY <1>1, <1>4, <2>1 DEF Register, MetricsTypeOK, Proceed, OthersStay, history
    <3> QED
      BY <1>1, <3>1, SeriesStay
  <2> QED
    BY <1>4, <2>1, MakeStep
<1>5. CASE CountStatus(t) \/ CountBucket(t) \/ AddDuration(t) \/ CountRequest(t)
  <2>1. CASE key = request[t].key
    BY <1>5, <2>1, StatusStep, BucketStep, DurationStep, CountStep
  <2>2. CASE key # request[t].key
    <3>1. pc[t] \in Recording /\ ThreadInv(t)
      BY <1>5 DEF CountStatus, CountBucket, AddDuration, CountRequest, Recording
    <3>2. PICK n : n = handle[t]
      OBVIOUS
    <3>3. /\ request[t] \in HttpRequests /\ n = routes[request[t].key]
          /\ n \in 1..Len(series) /\ series \in Seq(SeriesType)
      BY <3>1, <3>2, RecordFacts DEF ThreadInv, Recording
    <3>4. /\ OthersStay(t) /\ request' = request /\ routes' = routes
          /\ \A r \in HttpRequests : r # request[t] => completed'[r] = completed[r]
      BY <1>1, <1>5 DEF CountStatus, CountBucket, AddDuration, CountRequest, MetricsTypeOK,
                        Proceed, OthersStay, history
    <3>5. series' = series \/ \E s : series' = [series EXCEPT ![n] = s]
      BY <1>5, <3>2 DEF CountStatus, CountBucket, AddDuration, CountRequest
    <3>6. /\ Len(series') = Len(series)
          /\ \A m \in 1..Len(series) : m # n => series'[m] = series[m]
      BY <3>3, <3>5
    <3> QED
      BY <1>1, <2>2, <3>3, <3>4, <3>6, SeriesOfOthersStay
  <2> QED
    BY <2>1, <2>2
<1> QED
  BY <1>2, <1>3, <1>4, <1>5 DEF Step

LEMMA RedirectsNext ==
  ASSUME CountersInv, \A u \in Threads : ThreadInv(u), NEW t \in Threads, Step(t)
  PROVE  RedirectsInv'
<1> DEFINE L == {"find", "register"} \cup Recording
<1>1. MetricsTypeOK /\ IsFiniteSet(Units(completed)) /\ ThreadInv(t)
  BY DEF CountersInv
<1>2. SUFFICES ASSUME NEW result \in RedirectResults
               PROVE  redirects'[result] = Reached(WithResult(result), L)'
  BY DEF RedirectsInv
<1>3. /\ redirects[result] = Reached(WithResult(result), L)
      /\ WithResult(result) \in SUBSET HttpRequests
      /\ \A r \in WithResult(result) : r.key = Redirect /\ r.result = result
      /\ completed \in [HttpRequests -> Nat]
  BY <1>1 DEF CountersInv, RedirectsInv, WithResult, OfRoute, MetricsTypeOK
<1>4. CASE Begin(t)
  <2>1. /\ OthersStay(t) /\ completed' = completed /\ redirects' = redirects
        /\ pc[t] = "idle"
        /\ request'[t].key = Redirect => pc'[t] = "resolve"
    <3>1. completed' = completed /\ redirects' = redirects
      BY <1>4 DEF Begin, counters
    <3> QED
      BY <1>1, <1>4, <3>1, BeginFacts DEF OthersStay
  <2>2. Reached(WithResult(result), L)' = Reached(WithResult(result), L)
    <3>1. /\ ~(pc[t] \in L /\ request[t] \in WithResult(result))
          /\ ~(pc'[t] \in L /\ request'[t] \in WithResult(result))
      BY <1>3, <2>1 DEF Recording
    <3> HIDE DEF L
    <3> QED
      BY <2>1, <3>1, ReachedKept
  <2> QED
    BY <1>3, <2>1, <2>2
<1>5. CASE Resolve(t)
  <2>1. /\ OthersStay(t) /\ completed' = completed /\ request' = request
        /\ redirects' = [redirects EXCEPT ![request[t].result] = @ + 1]
        /\ pc[t] = "resolve" /\ pc'[t] = "find"
    BY <1>1, <1>5 DEF Resolve, MetricsTypeOK, Proceed, OthersStay, history
  <2>2. /\ request[t] \in HttpRequests /\ request[t].key = Redirect
        /\ request[t].result \in RedirectResults
    BY <1>1, <2>1, RequestFacts DEF ThreadInv
  <2>3. redirects \in [RedirectResults -> Nat]
    BY <1>1 DEF MetricsTypeOK
  <2>4. pc[t] \notin L /\ pc'[t] \in L
    BY <2>1 DEF Recording
  <2> HIDE DEF L
  <2>5. CASE request[t].result = result
    <3>1. request'[t] \in WithResult(result)
      BY <2>1, <2>2, <2>5 DEF WithResult, OfRoute
    <3>2. Reached(WithResult(result), L)' = Reached(WithResult(result), L) + 1
      BY <1>1, <1>3, <2>1, <2>4, <3>1, ReachedOneMore
    <3>3. redirects'[result] = redirects[result] + 1
      BY <2>1, <2>2, <2>3, <2>5
    <3> QED
      BY <1>3, <3>2, <3>3
  <2>6. CASE request[t].result # result
    <3>1. request[t] \notin WithResult(result) /\ request'[t] = request[t]
      BY <1>3, <2>1, <2>6
    <3>2. Reached(WithResult(result), L)' = Reached(WithResult(result), L)
      BY <2>1, <3>1, ReachedKept
    <3>3. redirects'[result] = redirects[result]
      BY <2>1, <2>2, <2>3, <2>6
    <3> QED
      BY <1>3, <3>2, <3>3
  <2> QED
    BY <2>5, <2>6
<1>6. CASE OpenPart(t) \/ Read(t) \/ Rendered(t)
  <2>1. /\ OthersStay(t) /\ completed' = completed /\ redirects' = redirects
        /\ request' = request /\ pc[t] = "render"
    BY <1>1, <1>6 DEF OpenPart, Read, Rendered, MetricsTypeOK, Proceed, OthersStay,
                      counters, history
  <2>2. request[t] \notin WithResult(result) /\ request'[t] = request[t]
    BY <1>1, <1>3, <2>1, RequestSets DEF ThreadInv
  <2> HIDE DEF L
  <2>3. Reached(WithResult(result), L)' = Reached(WithResult(result), L)
    BY <2>1, <2>2, ReachedKept
  <2> QED
    BY <1>3, <2>1, <2>3
<1>7. CASE Find(t) \/ Register(t) \/ CountStatus(t) \/ CountBucket(t) \/ AddDuration(t)
  <2>1. /\ OthersStay(t) /\ completed' = completed /\ redirects' = redirects
        /\ request' = request
        /\ pc[t] \in {"find", "register", "status", "bucket", "duration"}
        /\ pc'[t] \in {"register", "status", "bucket", "duration", "count"}
    BY <1>1, <1>7 DEF Find, Register, CountStatus, CountBucket, AddDuration, MetricsTypeOK,
                      Proceed, OthersStay, counters, history
  <2>2. pc[t] \in L /\ pc'[t] \in L
    BY <2>1 DEF Recording
  <2> HIDE DEF L
  <2>3. Reached(WithResult(result), L)' = Reached(WithResult(result), L)
    BY <2>1, <2>2, ReachedKept
  <2> QED
    BY <1>3, <2>1, <2>3
<1>8. CASE CountRequest(t)
  <2>1. /\ OthersStay(t) /\ redirects' = redirects /\ request' = request
        /\ completed' = [completed EXCEPT ![request[t]] = @ + 1]
        /\ pc[t] = "count" /\ pc'[t] = "idle"
    BY <1>1, <1>8 DEF CountRequest, MetricsTypeOK, Proceed, OthersStay
  <2>2. request[t] \in HttpRequests /\ request'[t] = request[t]
    BY <1>1, <2>1 DEF ThreadInv
  <2>3. pc[t] \in L /\ pc'[t] \notin L
    BY <2>1 DEF Recording
  <2> HIDE DEF L
  <2>4. Reached(WithResult(result), L)' = Reached(WithResult(result), L)
    BY <1>1, <1>3, <2>1, <2>2, <2>3, ReachedAtTheEnd
  <2> QED
    BY <1>3, <2>1, <2>4
<1> QED
  BY <1>4, <1>5, <1>6, <1>7, <1>8 DEF Step

LEMMA ThreadNext ==
  ASSUME MetricsTypeOK, \A u \in Threads : ThreadInv(u), NEW t \in Threads, Step(t),
         NEW u \in Threads
  PROVE  ThreadInv(u)'
<1>1. ThreadInv(u) /\ ThreadInv(t)
  OBVIOUS
<1>2. CASE u = t
  <2>1. CASE Begin(t)
    <3>1. /\ request'[t] \in HttpRequests /\ request'[t].key \in Keys
          /\ request'[t].key = Redirect => pc'[t] = "resolve"
          /\ request'[t].key = Scrape => pc'[t] = "render"
          /\ request'[t].key = Unmatched => pc'[t] = "find"
      BY <2>1, BeginFacts, RequestFacts
    <3> QED
      BY <1>2, <3>1 DEF ThreadInv, Recording, Keys
  <2>2. CASE Resolve(t)
    BY <1>1, <1>2, <2>2 DEF Resolve, ThreadInv, MetricsTypeOK, Proceed, Recording
  <2>3. CASE OpenPart(t) \/ Read(t)
    BY <1>1, <1>2, <2>3 DEF OpenPart, Read, ThreadInv, MetricsTypeOK, counters, Recording
  <2>4. CASE Rendered(t)
    BY <1>1, <1>2, <2>4 DEF Rendered, ThreadInv, MetricsTypeOK, Proceed, Recording
  <2>5. CASE Find(t)
    BY <1>1, <1>2, <2>5 DEF Find, ThreadInv, MetricsTypeOK, Proceed, counters, Recording
  <2>6. CASE Register(t)
    <3>1. /\ request[t] \in HttpRequests /\ request[t].key \in Keys
          /\ request' = request /\ pc'[t] = "status"
      BY <1>1, <2>6, RequestFacts DEF Register, ThreadInv, MetricsTypeOK, Proceed
    <3>2. CASE routes[request[t].key] # Unset
      BY <1>2, <2>6, <3>1, <3>2 DEF Register, ThreadInv, MetricsTypeOK, Recording
    <3>3. CASE routes[request[t].key] = Unset
      <4>1. /\ Len(series) + 1 # Unset /\ routes'[request[t].key] = Len(series) + 1
            /\ handle'[t] = Len(series) + 1
        BY <2>6, <3>1, <3>3, MetricsAssumption DEF Register, Make, MetricsTypeOK
      <4> QED
        BY <1>2, <3>1, <4>1 DEF ThreadInv, Recording
    <3> QED
      BY <3>2, <3>3
  <2>7. CASE CountStatus(t) \/ CountBucket(t) \/ AddDuration(t) \/ CountRequest(t)
    BY <1>1, <1>2, <2>7 DEF CountStatus, CountBucket, AddDuration, CountRequest, ThreadInv,
                            MetricsTypeOK, Proceed, Recording
  <2> QED
    BY <2>1, <2>2, <2>3, <2>4, <2>5, <2>6, <2>7 DEF Step
<1>3. CASE u # t
  <2>1. pc'[u] = pc[u] /\ request'[u] = request[u] /\ handle'[u] = handle[u]
    BY <1>3 DEF Step, Begin, Resolve, OpenPart, Read, Rendered, Find, Register, Make, CountStatus,
                CountBucket, AddDuration, CountRequest, MetricsTypeOK, Proceed
  <2>2. ASSUME NEW key, routes[key] # Unset, key \in Keys
        PROVE  routes'[key] = routes[key]
    <3>1. routes' = routes \/ (routes[request[t].key] = Unset /\ \E n : routes' = [routes EXCEPT ![request[t].key] = n])
      BY DEF Step, Begin, Resolve, OpenPart, Read, Rendered, Find, Register, Make, CountStatus,
             CountBucket, AddDuration, CountRequest, counters
    <3> QED
      BY <2>2, <3>1 DEF MetricsTypeOK
  <2>3. pc[u] \in Recording => request[u].key \in Keys
    BY <1>1, RequestFacts DEF ThreadInv, Recording
  <2> QED
    BY <1>1, <2>1, <2>2, <2>3 DEF ThreadInv, Recording
<1> QED
  BY <1>2, <1>3

-----------------------------------------------------------------------------
(* No step takes a series away or a number of it back.                     *)
NotBelow(s, r) ==
  /\ \A class \in Classes : s.status[class] <= r.status[class]
  /\ \A i \in 1..Len(Bounds) : s.bucket[i] <= r.bucket[i]
  /\ s.duration <= r.duration
  /\ s.count <= r.count

LEMMA NotBelowItself ==
  ASSUME NEW s \in SeriesType
  PROVE  NotBelow(s, s)
<1>1. /\ s.status \in [Classes -> Nat] /\ s.bucket \in [1..Len(Bounds) -> Nat]
      /\ s.duration \in Nat /\ s.count \in Nat
  BY DEF SeriesType
<1> QED
  BY <1>1 DEF NotBelow

(* The step of record that a thread takes.                                 *)
Counts(t, s) ==
  CASE pc[t] = "status"   -> [s EXCEPT !.status = [s.status EXCEPT ![StatusClass(Status(request[t]))] = @ + 1]]
    [] pc[t] = "bucket"   -> IF Bucket(request[t].duration) > Len(Bounds) THEN s
                             ELSE [s EXCEPT !.bucket = [s.bucket EXCEPT ![Bucket(request[t].duration)] = @ + 1]]
    [] pc[t] = "duration" -> [s EXCEPT !.duration = @ + request[t].duration]
    [] pc[t] = "count"    -> [s EXCEPT !.count = @ + 1]

LEMMA CountsNotBelow ==
  ASSUME NEW t \in Threads, pc[t] \in Recording, request[t] \in HttpRequests,
         NEW s \in SeriesType
  PROVE  Counts(t, s) \in SeriesType /\ NotBelow(s, Counts(t, s))
<1>1. CASE pc[t] = "status"
  <2>1. PICK class \in Classes : class = StatusClass(Status(request[t]))
    BY ClassFacts
  <2>2. Counts(t, s) = [s EXCEPT !.status = [s.status EXCEPT ![class] = @ + 1]]
    BY <1>1, <2>1 DEF Counts
  <2>3. [s.status EXCEPT ![class] = @ + 1] \in [Classes -> Nat]
        /\ \A other \in Classes : s.status[other] <= [s.status EXCEPT ![class] = @ + 1][other]
    BY DEF SeriesType
  <2> QED
    BY <2>2, <2>3, NotBelowItself DEF SeriesType, NotBelow
<1>2. CASE pc[t] = "bucket"
  <2>1. PICK b \in 1..Len(Bounds) + 1 : b = Bucket(request[t].duration)
    BY RequestFacts, BucketFacts
  <2>2. CASE b > Len(Bounds)
    <3>1. Counts(t, s) = s
      BY <1>2, <2>1, <2>2 DEF Counts
    <3> QED
      BY <3>1, NotBelowItself
  <2>3. CASE ~(b > Len(Bounds))
    <3>1. Counts(t, s) = [s EXCEPT !.bucket = [s.bucket EXCEPT ![b] = @ + 1]]
      BY <1>2, <2>1, <2>3 DEF Counts
    <3>2. b \in 1..Len(Bounds)
      BY <2>3, BoundsType
    <3>3. [s.bucket EXCEPT ![b] = @ + 1] \in [1..Len(Bounds) -> Nat]
          /\ \A i \in 1..Len(Bounds) : s.bucket[i] <= [s.bucket EXCEPT ![b] = @ + 1][i]
      <4>1. PICK f \in [1..Len(Bounds) -> Nat] : f = s.bucket
        BY DEF SeriesType
      <4>2. \A i \in 1..Len(Bounds) : f[i] \in Nat /\ f[i] <= [f EXCEPT ![b] = @ + 1][i]
        OBVIOUS
      <4>3. [f EXCEPT ![b] = @ + 1] \in [1..Len(Bounds) -> Nat]
        BY <3>2
      <4> QED
        BY <4>1, <4>2, <4>3
    <3>4. Counts(t, s) \in SeriesType
      BY <3>1, <3>3 DEF SeriesType
    <3>5. /\ Counts(t, s).status = s.status /\ Counts(t, s).duration = s.duration
          /\ Counts(t, s).count = s.count
          /\ Counts(t, s).bucket = [s.bucket EXCEPT ![b] = @ + 1]
      BY <3>1 DEF SeriesType
    <3> QED
      BY <3>3, <3>4, <3>5, NotBelowItself DEF NotBelow
  <2> QED
    BY <2>2, <2>3
<1>3. CASE pc[t] = "duration"
  <2>1. Counts(t, s) = [s EXCEPT !.duration = @ + request[t].duration] /\ request[t].duration \in Nat
    BY <1>3, RequestFacts DEF Counts
  <2> QED
    BY <2>1, NotBelowItself DEF SeriesType, NotBelow
<1>4. CASE pc[t] = "count"
  <2>1. Counts(t, s) = [s EXCEPT !.count = @ + 1]
    BY <1>4 DEF Counts
  <2> QED
    BY <2>1, NotBelowItself DEF SeriesType, NotBelow
<1> QED
  BY <1>1, <1>2, <1>3, <1>4 DEF Recording

LEMMA RecordSteps ==
  ASSUME NEW t \in Threads, CountersInv, ThreadInv(t),
         CountStatus(t) \/ CountBucket(t) \/ AddDuration(t) \/ CountRequest(t)
  PROVE  /\ pc[t] \in Recording /\ request[t] \in HttpRequests
         /\ handle[t] \in 1..Len(series) /\ series \in Seq(SeriesType)
         /\ series[handle[t]] \in SeriesType
         /\ UNCHANGED <<routes, redirects, request, handle, render, left, published, floor, alone>>
         /\ series' = [series EXCEPT ![handle[t]] = Counts(t, series[handle[t]])]
<1>1. pc[t] \in Recording
  BY DEF CountStatus, CountBucket, AddDuration, CountRequest, Recording
<1>2. PICK n : n = handle[t]
  OBVIOUS
<1>3. /\ request[t] \in HttpRequests /\ n \in 1..Len(series)
      /\ series \in Seq(SeriesType) /\ series[n] \in SeriesType
  BY <1>1, <1>2, RecordFacts DEF ThreadInv, Recording
<1>4. UNCHANGED <<routes, redirects, request, handle, render, left, published, floor, alone>>
  BY DEF CountStatus, CountBucket, AddDuration, CountRequest, history
<1>5. ASSUME CountStatus(t)
      PROVE  series' = [series EXCEPT ![n] = Counts(t, series[n])]
  BY <1>2, <1>3, <1>5 DEF CountStatus, Counts
<1>6. ASSUME CountBucket(t)
      PROVE  series' = [series EXCEPT ![n] = Counts(t, series[n])]
  <2>1. CASE Bucket(request[t].duration) > Len(Bounds)
    <3>1. series' = series /\ Counts(t, series[n]) = series[n]
      BY <1>6, <2>1 DEF CountBucket, Counts
    <3>2. series = [series EXCEPT ![n] = series[n]]
      BY <1>3
    <3> QED
      BY <3>1, <3>2
  <2>2. CASE ~(Bucket(request[t].duration) > Len(Bounds))
    BY <1>2, <1>3, <1>6, <2>2 DEF CountBucket, Counts
  <2> QED
    BY <2>1, <2>2
<1>7. ASSUME AddDuration(t)
      PROVE  series' = [series EXCEPT ![n] = Counts(t, series[n])]
  BY <1>2, <1>3, <1>7 DEF AddDuration, Counts
<1>8. ASSUME CountRequest(t)
      PROVE  series' = [series EXCEPT ![n] = Counts(t, series[n])]
  BY <1>2, <1>3, <1>8 DEF CountRequest, Counts
<1>9. series' = [series EXCEPT ![n] = Counts(t, series[n])]
  BY <1>2, <1>5, <1>6, <1>7, <1>8
<1> QED
  BY <1>1, <1>2, <1>3, <1>4, <1>9

(* What every step does to the routes, the series and the redirects.       *)
LEMMA CountersStep ==
  ASSUME CountersInv, \A u \in Threads : ThreadInv(u), NEW t \in Threads, Step(t)
  PROVE  /\ routes' \in [Keys -> Nat \cup {Unset}]
         /\ series' \in Seq(SeriesType)
         /\ redirects' \in [RedirectResults -> Nat]
         /\ \A key \in Keys : routes[key] # Unset => routes'[key] = routes[key]
         /\ \A n \in 1..Len(series) : n \in 1..Len(series') /\ NotBelow(series[n], series'[n])
         /\ \A result \in RedirectResults : redirects[result] <= redirects'[result]
<1>1. /\ routes \in [Keys -> Nat \cup {Unset}] /\ series \in Seq(SeriesType)
      /\ redirects \in [RedirectResults -> Nat] /\ ThreadInv(t)
      /\ \A n \in 1..Len(series) : series[n] \in SeriesType
  BY DEF CountersInv, MetricsTypeOK
<1>2. CASE Begin(t) \/ OpenPart(t) \/ Read(t) \/ Rendered(t) \/ Find(t)
  <2>1. routes' = routes /\ series' = series /\ redirects' = redirects
    BY <1>2 DEF Begin, OpenPart, Read, Rendered, Find, counters
  <2> QED
    BY <1>1, <2>1, NotBelowItself
<1>3. CASE Resolve(t)
  <2>1. /\ routes' = routes /\ series' = series
        /\ redirects' = [redirects EXCEPT ![request[t].result] = @ + 1]
    BY <1>3 DEF Resolve
  <2>2. redirects' \in [RedirectResults -> Nat]
        /\ \A result \in RedirectResults : redirects[result] <= redirects'[result]
    <3>1. PICK r \in RedirectResults : r = request[t].result
      BY <1>1, <1>3, RequestFacts DEF Resolve, ThreadInv
    <3>2. redirects' = [redirects EXCEPT ![r] = @ + 1]
      BY <2>1, <3>1
    <3> QED
      BY <1>1, <3>2
  <2> QED
    BY <1>1, <2>1, <2>2, NotBelowItself
<1>4. CASE Register(t)
  <2>1. redirects' = redirects
    BY <1>4 DEF Register
  <2>2. CASE routes[request[t].key] # Unset
    <3>1. routes' = routes /\ series' = series
      BY <1>4, <2>2 DEF Register
    <3> QED
      BY <1>1, <2>1, <3>1, NotBelowItself
  <2>3. CASE routes[request[t].key] = Unset
    <3>1. /\ series' = Append(series, NewSeries)
          /\ routes' = [routes EXCEPT ![request[t].key] = Len(series) + 1]
      BY <1>4, <2>3 DEF Register, Make
    <3>2. NewSeries \in SeriesType
      BY DEF NewSeries, SeriesType
    <3>3. series' \in Seq(SeriesType)
          /\ \A n \in 1..Len(series) : n \in 1..Len(series') /\ series'[n] = series[n]
      BY <1>1, <3>1, <3>2
    <3>4. /\ routes' \in [Keys -> Nat \cup {Unset}]
          /\ \A key \in Keys : routes[key] # Unset => routes'[key] = routes[key]
      <4>1. PICK key \in Keys : key = request[t].key
        BY <1>1, <1>4, RequestFacts DEF Register, ThreadInv
      <4>2. PICK n \in Nat : n = Len(series) + 1
        BY <1>1
      <4>3. routes' = [routes EXCEPT ![key] = n]
        BY <3>1, <4>1, <4>2
      <4> QED
        BY <1>1, <2>3, <4>1, <4>3
    <3>5. \A n \in 1..Len(series) : n \in 1..Len(series') /\ NotBelow(series[n], series'[n])
      BY <1>1, <3>3, NotBelowItself
    <3>6. /\ redirects' \in [RedirectResults -> Nat]
          /\ \A result \in RedirectResults : redirects[result] <= redirects'[result]
      BY <1>1, <2>1
    <3> QED
      BY <3>3, <3>4, <3>5, <3>6
  <2> QED
    BY <2>2, <2>3
<1>5. CASE CountStatus(t) \/ CountBucket(t) \/ AddDuration(t) \/ CountRequest(t)
  <2>1. PICK n : n = handle[t]
    OBVIOUS
  <2>2. PICK s : s = Counts(t, series[n])
    OBVIOUS
  <2>3. /\ pc[t] \in Recording /\ request[t] \in HttpRequests
        /\ n \in 1..Len(series) /\ series[n] \in SeriesType
        /\ routes' = routes /\ redirects' = redirects
        /\ series' = [series EXCEPT ![n] = s]
    BY <1>1, <1>5, <2>1, <2>2, RecordSteps
  <2>4. s \in SeriesType /\ NotBelow(series[n], s)
    BY <2>2, <2>3, CountsNotBelow
  <2>5. series' \in Seq(SeriesType)
        /\ \A m \in 1..Len(series) : m \in 1..Len(series') /\ NotBelow(series[m], series'[m])
    BY <1>1, <2>3, <2>4, NotBelowItself
  <2>6. \A result \in RedirectResults : redirects[result] <= redirects'[result]
    BY <1>1, <2>3
  <2>7. /\ routes' \in [Keys -> Nat \cup {Unset}] /\ redirects' \in [RedirectResults -> Nat]
        /\ \A key \in Keys : routes[key] # Unset => routes'[key] = routes[key]
    BY <1>1, <2>3
  <2> QED
    BY <2>5, <2>6, <2>7
<1> QED
  BY <1>2, <1>3, <1>4, <1>5 DEF Step

(* A counter, once it exists, is not taken away and does not decrease.     *)
CountersGrow ==
  /\ \A key \in Keys : routes[key] # Unset => routes'[key] = routes[key]
  /\ \A c \in PageCounters :
       Exists(c) => /\ Exists(c)' /\ Holding(c, routes) \in Nat
                    /\ Holding(c, routes)' \in Nat
                    /\ Holding(c, routes) <= Holding(c, routes)'

LEMMA StepKeepsCounters ==
  ASSUME CountersInv, \A u \in Threads : ThreadInv(u), NEW t \in Threads, Step(t)
  PROVE  CountersGrow
<1>1. /\ routes' \in [Keys -> Nat \cup {Unset}]
      /\ series' \in Seq(SeriesType)
      /\ redirects' \in [RedirectResults -> Nat]
      /\ \A key \in Keys : routes[key] # Unset => routes'[key] = routes[key]
      /\ \A n \in 1..Len(series) : n \in 1..Len(series') /\ NotBelow(series[n], series'[n])
      /\ \A result \in RedirectResults : redirects[result] <= redirects'[result]
  BY CountersStep
<1>2. ASSUME NEW c \in PageCounters, Exists(c)
      PROVE  /\ Exists(c)' /\ Holding(c, routes) \in Nat
             /\ Holding(c, routes)' \in Nat
             /\ Holding(c, routes) <= Holding(c, routes)'
  <2>1. Holding(c, routes) \in Nat
    BY <1>2, HoldingType
  <2>2. CASE c.field = "redirects"
    <3>1. c.key \in RedirectResults
      BY <2>2, CounterKinds
    <3>2. Holding(c, routes) = redirects[c.key] /\ Holding(c, routes)' = redirects'[c.key]
      BY <2>2 DEF Holding
    <3> QED
      BY <1>1, <2>1, <2>2, <3>1, <3>2 DEF Exists
  <2>3. CASE c.field # "redirects"
    <3>1. /\ c.field \in {"status", "bucket", "count", "duration"} /\ c.key \in Keys
          /\ c.field = "status" => c.at \in Classes
          /\ c.field = "bucket" => c.at \in 1..Len(Bounds)
      BY <2>3, CounterKinds
    <3>2. PICK n : n = routes[c.key]
      OBVIOUS
    <3>3. n # Unset /\ routes'[c.key] = n
      BY <1>1, <1>2, <2>3, <3>1, <3>2 DEF Exists
    <3>4. n \in 1..Len(series)
      BY <3>1, <3>2, <3>3, SeriesAt DEF CountersInv
    <3>5. series'[n] \in SeriesType /\ NotBelow(series[n], series'[n])
      BY <1>1, <3>4
    <3>6. Holding(c, routes)' \in Nat /\ Holding(c, routes) <= Holding(c, routes)'
      BY <2>3, <3>1, <3>2, <3>3, <3>5 DEF Holding, NotBelow, SeriesType
    <3> QED
      BY <2>1, <2>3, <3>3, <3>6 DEF Exists
  <2> QED
    BY <2>2, <2>3
<1> QED
  BY <1>1, <1>2 DEF CountersGrow

-----------------------------------------------------------------------------
(* What is read is what the counters of the listed routes hold.            *)
LEMMA AskedFacts ==
  ASSUME MetricsTypeOK, NEW t \in Threads, PageInv(t), NEW c, c \in Asked(t)
  PROVE  /\ c \in PageCounters /\ Exists(c)
         /\ Holding(c, snapshot[t]) = Holding(c, routes)
<1>1. Listed(t) \in SUBSET Keys /\ \A key \in Listed(t) : snapshot[t][key] = routes[key] /\ routes[key] # Unset
  BY DEF PageInv, Listed
<1>2. c \in PageCounters
  BY <1>1, CounterFacts DEF Asked
<1>3. CASE c.field = "redirects"
  BY <1>2, <1>3 DEF Exists, Holding
<1>4. CASE c.field # "redirects"
  <2>1. c \notin RedirectCounters /\ (c \in HttpCounters(Listed(t)) => c.key \in Listed(t))
    BY <1>1, <1>2, <1>4, CounterKinds
  <2>2. c.key \in Listed(t)
    BY <2>1 DEF Asked
  <2>3. snapshot[t][c.key] = routes[c.key] /\ routes[c.key] # Unset
    BY <1>1, <2>2
  <2> QED
    BY <1>2, <2>3 DEF Exists, Holding
<1> QED
  BY <1>3, <1>4

Reads(t, c) ==
  /\ c \in PageCounters /\ c \in Asked(t) /\ IsNext(t, c)
  /\ Exists(c) /\ Holding(c, routes) \in Nat
  /\ page' = [page EXCEPT ![t] = [page[t] EXCEPT ![c] = Holding(c, routes)]]
  /\ todo' = [todo EXCEPT ![t] = todo[t] \ {c}]

LEMMA ReadFacts ==
  ASSUME CountersInv, NEW t \in Threads, PageInv(t), Read(t)
  PROVE  \E c : Reads(t, c)
<1>1. PICK c \in todo[t] : /\ IsNext(t, c)
                           /\ page' = [page EXCEPT ![t][c] = Holding(c, snapshot[t])]
                           /\ todo' = [todo EXCEPT ![t] = @ \ {c}]
  BY DEF Read
<1>2. MetricsTypeOK /\ Scraping(t) /\ c \in PageCounters
  BY DEF CountersInv, MetricsTypeOK, Read, Scraping
<1>3. c \in Asked(t)
  BY <1>2 DEF PageInv
<1>4. Exists(c) /\ Holding(c, snapshot[t]) = Holding(c, routes)
  BY <1>2, <1>3, AskedFacts
<1>5. Holding(c, routes) \in Nat
  BY <1>2, <1>4, HoldingType
<1>6. page' = [page EXCEPT ![t] = [page[t] EXCEPT ![c] = Holding(c, routes)]]
      /\ todo' = [todo EXCEPT ![t] = todo[t] \ {c}]
  BY <1>1, <1>4
<1> QED
  BY <1>1, <1>2, <1>3, <1>4, <1>5, <1>6 DEF Reads

LEMMA TypeNext ==
  ASSUME CountersInv, \A u \in Threads : ThreadInv(u) /\ PageInv(u),
         NEW t \in Threads, Step(t)
  PROVE  MetricsTypeOK' /\ IsFiniteSet(Units(completed))'
<1>1. /\ routes' \in [Keys -> Nat \cup {Unset}]
      /\ series' \in Seq(SeriesType)
      /\ redirects' \in [RedirectResults -> Nat]
  BY CountersStep
<1>2. MetricsTypeOK /\ IsFiniteSet(Units(completed)) /\ ThreadInv(t)
  BY DEF CountersInv
<1>3. /\ pc' \in [Threads -> Labels] /\ request' \in [Threads -> HttpRequests \cup {Unset}]
      /\ parts' \in [Threads -> SUBSET {"http", "business"}]
  <2>1. CASE Begin(t)
    BY <1>2, <2>1, BeginFacts
  <2>2. CASE ~Begin(t)
    <3>1. /\ request' = request
          /\ pc' = pc \/ \E label \in Labels : pc' = [pc EXCEPT ![t] = label]
      BY <2>2 DEF Step, Resolve, OpenPart, Read, Rendered, Find, Register, CountStatus,
                  CountBucket, AddDuration, CountRequest, Proceed, Labels, Recording
    <3>2. parts' = parts \/ \E p \in {"http", "business"} : parts' = [parts EXCEPT ![t] = @ \ {p}]
      BY <2>2 DEF Step, Resolve, OpenPart, Read, Rendered, Find, Register, CountStatus,
                  CountBucket, AddDuration, CountRequest, render
    <3>3. pc' \in [Threads -> Labels]
      BY <1>2, <3>1 DEF MetricsTypeOK
    <3>4. parts' \in [Threads -> SUBSET {"http", "business"}]
      <4>1. parts \in [Threads -> SUBSET {"http", "business"}]
        BY <1>2 DEF MetricsTypeOK
      <4>2. parts' = parts \/ \E ps \in SUBSET {"http", "business"} : parts' = [parts EXCEPT ![t] = ps]
        BY <3>2, <4>1
      <4> QED
        BY <4>1, <4>2
    <3> QED
      BY <1>2, <3>1, <3>3, <3>4 DEF MetricsTypeOK
  <2> QED
    BY <2>1, <2>2
<1>4. handle' \in [Threads -> Nat \cup {Unset}]
  <2>1. CASE Find(t) \/ Register(t)
    <3>1. request[t].key \in Keys
      BY <1>2, <2>1, RequestFacts DEF ThreadInv, Find, Register
    <3>2. handle' = handle \/ \E n \in Nat \cup {Unset} : handle' = [handle EXCEPT ![t] = n]
      BY <1>2, <2>1, <3>1 DEF Find, Register, Make, MetricsTypeOK
    <3> QED
      BY <1>2, <3>2 DEF MetricsTypeOK
  <2>2. CASE ~(Find(t) \/ Register(t))
    <3>1. handle' = handle
      BY <2>2 DEF Step, Begin, Resolve, OpenPart, Read, Rendered, CountStatus, CountBucket,
                  AddDuration, CountRequest
    <3> QED
      BY <1>2, <3>1 DEF MetricsTypeOK
  <2> QED
    BY <2>1, <2>2
<1>5. /\ snapshot' \in [Threads -> [Keys -> Nat \cup {Unset}]]
      /\ todo' \in [Threads -> SUBSET PageCounters]
      /\ page' \in [Threads -> [PageCounters -> Nat \cup {Unset}]]
  <2>1. CASE OpenPart(t)
    <3>1. page' = page /\ (snapshot' = snapshot \/ snapshot' = [snapshot EXCEPT ![t] = routes])
      BY <2>1 DEF OpenPart
    <3>2. \E cs \in SUBSET PageCounters : todo' = [todo EXCEPT ![t] = cs]
      BY <2>1, CounterFacts DEF OpenPart
    <3>3. todo' \in [Threads -> SUBSET PageCounters]
      BY <1>2, <3>2 DEF MetricsTypeOK
    <3>4. snapshot' \in [Threads -> [Keys -> Nat \cup {Unset}]]
      BY <1>2, <3>1 DEF MetricsTypeOK
    <3> QED
      BY <1>2, <3>1, <3>3, <3>4 DEF MetricsTypeOK
  <2>2. CASE Read(t)
    <3>1. PICK c : Reads(t, c)
      BY <2>2, ReadFacts
    <3>2. snapshot' = snapshot
      BY <2>2 DEF Read
    <3> QED
      BY <1>2, <3>1, <3>2 DEF Reads, MetricsTypeOK
  <2>3. CASE Begin(t)
    <3>1. Blank \in [PageCounters -> Nat \cup {Unset}]
      BY DEF Blank
    <3> QED
      BY <1>2, <2>3, <3>1 DEF Begin, MetricsTypeOK
  <2>4. CASE ~(OpenPart(t) \/ Read(t) \/ Begin(t))
    <3>1. snapshot' = snapshot /\ todo' = todo /\ page' = page
      BY <2>4 DEF Step, Resolve, Rendered, Find, Register, CountStatus, CountBucket,
                  AddDuration, CountRequest, render
    <3> QED
      BY <1>2, <3>1 DEF MetricsTypeOK
  <2> QED
    BY <2>1, <2>2, <2>3, <2>4
<1>6. left' \in Nat
  <2>1. left' = left \/ (left > 0 /\ left' = left - 1)
    BY DEF Step, Begin, Resolve, OpenPart, Read, Rendered, Find, Register, CountStatus,
           CountBucket, AddDuration, CountRequest
  <2> QED
    BY <1>2, <2>1 DEF MetricsTypeOK
<1>7. completed' \in [HttpRequests -> Nat] /\ IsFiniteSet(Units(completed))'
  <2>1. CASE CountRequest(t)
    <3>1. request[t] \in HttpRequests /\ completed' = [completed EXCEPT ![request[t]] = @ + 1]
      BY <1>2, <2>1 DEF ThreadInv, CountRequest
    <3> QED
      BY <1>2, <3>1, CompletedOneMore DEF MetricsTypeOK
  <2>2. CASE ~CountRequest(t)
    <3>1. completed' = completed
      BY <2>2 DEF Step, Begin, Resolve, OpenPart, Read, Rendered, Find, Register, CountStatus,
                  CountBucket, AddDuration, history
    <3> QED
      BY <1>2, <3>1 DEF MetricsTypeOK
  <2> QED
    BY <2>1, <2>2
<1>8. /\ published' \in [PageCounters -> Nat \cup {Unset}]
      /\ floor' \in [Threads -> [PageCounters -> Nat \cup {Unset}]]
      /\ alone' \in [Threads -> BOOLEAN]
  <2>1. CASE Begin(t)
    BY <1>2, <2>1 DEF Begin, MetricsTypeOK
  <2>2. CASE Rendered(t)
    BY <1>2, <2>2 DEF Rendered, MetricsTypeOK
  <2>3. CASE ~(Begin(t) \/ Rendered(t))
    <3>1. published' = published /\ floor' = floor /\ alone' = alone
      BY <2>3 DEF Step, Resolve, OpenPart, Read, Find, Register, CountStatus, CountBucket,
                  AddDuration, CountRequest, history
    <3> QED
      BY <1>2, <3>1 DEF MetricsTypeOK
  <2> QED
    BY <2>1, <2>2, <2>3
<1> QED
  BY <1>1, <1>3, <1>4, <1>5, <1>6, <1>7, <1>8 DEF MetricsTypeOK

-----------------------------------------------------------------------------
(* A page stays good while the counters grow.                              *)
LEMMA BehindStays ==
  ASSUME CountersGrow, NEW numbers \in [PageCounters -> Nat \cup {Unset}], Behind(numbers)
  PROVE  Behind(numbers)'
<1>1. ASSUME NEW c \in PageCounters, numbers[c] # Unset
      PROVE  Exists(c)' /\ numbers[c] <= Holding(c, routes)'
  <2>1. Exists(c) /\ numbers[c] <= Holding(c, routes) /\ numbers[c] \in Nat
    BY <1>1 DEF Behind
  <2> QED
    BY <2>1 DEF CountersGrow
<1> QED
  BY <1>1 DEF Behind

Keeps(u) ==
  /\ parts'[u] = parts[u] /\ snapshot'[u] = snapshot[u]
  /\ todo'[u] = todo[u] /\ page'[u] = page[u] /\ floor'[u] = floor[u]

LEMMA KeepsFacts ==
  ASSUME NEW u \in Threads, Keeps(u)
  PROVE  /\ Listed(u)' = Listed(u) /\ Asked(u)' = Asked(u)
         /\ \A key : /\ ByStatus(u, key)' = ByStatus(u, key)
                     /\ Total(u, key)' = Total(u, key)
                     /\ \A i : UpTo(u, key, i)' = UpTo(u, key, i)
<1>1. Listed(u)' = Listed(u)
  BY DEF Keeps, Listed
<1>2. Asked(u)' = Asked(u)
  BY <1>1 DEF Keeps, Asked
<1>3. ASSUME NEW key
      PROVE  /\ ByStatus(u, key)' = ByStatus(u, key)
             /\ Total(u, key)' = Total(u, key)
             /\ \A i : UpTo(u, key, i)' = UpTo(u, key, i)
  BY DEF Keeps, ByStatus, Total, UpTo
<1> QED
  BY <1>1, <1>2, <1>3

LEMMA OthersKeep ==
  ASSUME MetricsTypeOK, NEW t \in Threads, Step(t), NEW u \in Threads \ {t}
  PROVE  /\ Keeps(u) /\ pc'[u] = pc[u] /\ request'[u] = request[u]
         /\ alone'[u] => alone[u] /\ pc[t] # "idle"
<1>1. CASE Begin(t)
  <2>1. Keeps(u) /\ alone'[u] = FALSE
    BY <1>1 DEF Begin, Keeps, MetricsTypeOK
  <2> QED
    BY <1>1, <2>1, BeginFacts
<1>2. CASE ~Begin(t)
  <2>1. /\ snapshot'[u] = snapshot[u] /\ todo'[u] = todo[u] /\ page'[u] = page[u]
        /\ parts'[u] = parts[u]
    BY <1>2 DEF Step, Resolve, OpenPart, Read, Rendered, Find, Register, CountStatus,
                CountBucket, AddDuration, CountRequest, render, MetricsTypeOK
  <2>2. floor' = floor /\ alone' = alone
    BY <1>2 DEF Step, Resolve, OpenPart, Read, Rendered, Find, Register, CountStatus,
                CountBucket, AddDuration, CountRequest, history
  <2>3. pc'[u] = pc[u] /\ request'[u] = request[u] /\ pc[t] # "idle"
    BY <1>2 DEF Step, Resolve, OpenPart, Read, Rendered, Find, Register, CountStatus,
                CountBucket, AddDuration, CountRequest, Proceed, MetricsTypeOK
  <2> QED
    BY <2>1, <2>2, <2>3 DEF Keeps
<1> QED
  BY <1>1, <1>2

LEMMA KeptPage ==
  ASSUME MetricsTypeOK, CountersGrow, NEW u \in Threads, Keeps(u), PageInv(u), SkewInv(u),
         Scraping(u)' => Scraping(u),
         pc'[u] # "render" => todo[u] = {} /\ parts[u] = {}
  PROVE  PageInv(u)' /\ SkewInv(u)'
<1>1. /\ Listed(u)' = Listed(u) /\ Asked(u)' = Asked(u)
      /\ \A key : /\ ByStatus(u, key)' = ByStatus(u, key)
                  /\ Total(u, key)' = Total(u, key)
                  /\ \A i : UpTo(u, key, i)' = UpTo(u, key, i)
  BY KeepsFacts
<1>2. \A key \in Listed(u)' : snapshot'[u][key] = routes'[key]
  BY <1>1 DEF PageInv, Listed, CountersGrow, Keeps
<1>3. pc'[u] # "render" => todo'[u] = {} /\ parts'[u] = {}
  BY DEF Keeps
<1>4. ASSUME Scraping(u)'
      PROVE  /\ \A c \in PageCounters :
                  (c \in todo'[u] \/ page'[u][c] # Unset) <=> c \in Asked(u)'
             /\ Behind(page[u])'
             /\ \A c \in PageCounters :
                  (floor'[u][c] # Unset /\ page'[u][c] # Unset) => floor'[u][c] <= page'[u][c]
             /\ "http" \notin parts'[u] =>
                  \A c \in PageCounters :
                    floor'[u][c] # Unset => c.field = "redirects" \/ c.key \in Listed(u)'
  <2>1. Scraping(u)
    BY <1>4
  <2>2. Behind(page[u])'
    <3>1. PICK f \in [PageCounters -> Nat \cup {Unset}] : f = page[u]
      BY DEF MetricsTypeOK
    <3>2. Behind(f)
      BY <2>1, <3>1 DEF PageInv
    <3>3. Behind(f)'
      BY <3>2, BehindStays
    <3>4. page'[u] = f
      BY <3>1 DEF Keeps
    <3> QED
      BY <3>3, <3>4 DEF Behind
  <2> QED
    BY <1>1, <2>1, <2>2 DEF PageInv, Keeps
<1>5. SkewInv(u)'
  BY <1>1 DEF SkewInv, Keeps
<1> QED
  BY <1>2, <1>3, <1>4, <1>5 DEF PageInv

LEMMA OtherPages ==
  ASSUME MetricsTypeOK, CountersGrow, NEW t \in Threads, Step(t), NEW u \in Threads \ {t},
         PageInv(u), SkewInv(u)
  PROVE  PageInv(u)' /\ SkewInv(u)'
<1>1. Keeps(u) /\ pc'[u] = pc[u] /\ request'[u] = request[u]
  BY OthersKeep
<1>2. Scraping(u)' => Scraping(u)
  BY <1>1 DEF Scraping, HasPage
<1>3. pc'[u] # "render" => todo[u] = {} /\ parts[u] = {}
  BY <1>1 DEF PageInv
<1> QED
  BY <1>1, <1>2, <1>3, KeptPage

LEMMA BeginPage ==
  ASSUME MetricsTypeOK, CountersGrow, NEW t \in Threads, Begin(t), PageInv(t)
  PROVE  PageInv(t)' /\ SkewInv(t)'
<1>1. /\ snapshot' = snapshot /\ todo' = todo /\ routes' = routes
      /\ page'[t] = Blank
  BY DEF Begin, MetricsTypeOK, counters
<1>2. /\ pc[t] = "idle" /\ request'[t] \in HttpRequests /\ request'[t].key \in Keys
      /\ request'[t].key = Redirect => pc'[t] = "resolve"
      /\ request'[t].key = Scrape => pc'[t] = "render"
      /\ request'[t].key = Unmatched => pc'[t] = "find"
      /\ parts'[t] = IF request'[t].key = Scrape THEN {"http", "business"} ELSE {}
  BY BeginFacts, RequestFacts
<1>3. /\ pc'[t] = "render" <=> request'[t].key = Scrape
      /\ Scraping(t)' <=> request'[t].key = Scrape
  BY <1>2, RequestSets DEF Scraping, HasPage, Keys
<1>4. todo'[t] = {}
  BY <1>1, <1>2 DEF PageInv
<1>5. \A key \in Listed(t)' : snapshot'[t][key] = routes'[key]
  BY <1>1 DEF PageInv, Listed
<1>6. CASE request'[t].key # Scrape
  BY <1>2, <1>3, <1>4, <1>5, <1>6 DEF PageInv, SkewInv
<1>7. CASE request'[t].key = Scrape
  <2>1. parts'[t] = {"http", "business"}
    BY <1>2, <1>7
  <2>2. Asked(t)' = {}
    BY <2>1 DEF Asked
  <2>3. \A c \in PageCounters : page'[t][c] = Unset
    BY <1>1 DEF Blank
  <2>4. Behind(page[t])'
    BY <2>3 DEF Behind
  <2>5. pc'[t] = "render"
    BY <1>3, <1>7
  <2> QED
    BY <1>4, <1>5, <2>1, <2>2, <2>3, <2>4, <2>5 DEF PageInv, SkewInv
<1> QED
  BY <1>6, <1>7

(* The page of a thread before it asks for another part.                   *)
LEMMA OpenPage ==
  ASSUME MetricsTypeOK, CountersGrow, NEW t \in Threads, OpenPart(t), PageInv(t), SkewInv(t),
         Behind(floor[t])
  PROVE  PageInv(t)' /\ SkewInv(t)'
<1>1. /\ pc[t] = "render" /\ pc' = pc /\ page' = page /\ floor' = floor
      /\ routes' = routes /\ request' = request /\ Scraping(t) /\ Scraping(t)' /\ todo[t] = {}
  BY DEF OpenPart, counters, history, Scraping
<1>2. Behind(page[t])'
  <2>1. PICK f \in [PageCounters -> Nat \cup {Unset}] : f = page[t]
    BY DEF MetricsTypeOK
  <2>2. Behind(f)
    BY <1>1, <2>1 DEF PageInv
  <2>3. Behind(f)'
    BY <2>2, BehindStays
  <2> QED
    BY <1>1, <2>1, <2>3 DEF Behind
<1>3. \A c \in PageCounters : page[t][c] # Unset <=> c \in Asked(t)
  BY <1>1 DEF PageInv
<1>4. \A c \in PageCounters :
        (floor'[t][c] # Unset /\ page'[t][c] # Unset) => floor'[t][c] <= page'[t][c]
  BY <1>1 DEF PageInv
<1>5. ASSUME "http" \in parts[t], parts' = [parts EXCEPT ![t] = @ \ {"http"}],
             snapshot' = [snapshot EXCEPT ![t] = routes],
             todo' = [todo EXCEPT ![t] = HttpCounters({key \in Keys : routes[key] # Unset})]
      PROVE  PageInv(t)' /\ SkewInv(t)'
  <2>1. /\ parts'[t] = parts[t] \ {"http"} /\ snapshot'[t] = routes
        /\ todo'[t] = HttpCounters({key \in Keys : routes[key] # Unset})
    BY <1>5 DEF MetricsTypeOK
  <2>2. Listed(t)' = {key \in Keys : routes[key] # Unset}
    BY <2>1 DEF Listed
  <2>3. Asked(t)' = todo'[t] \cup (IF "business" \in parts[t] THEN {} ELSE RedirectCounters)
    BY <2>1, <2>2 DEF Asked
  <2>4. Asked(t) = IF "business" \in parts[t] THEN {} ELSE RedirectCounters
    BY <1>5 DEF Asked
  <2>5. \A c \in PageCounters :
          (c \in todo'[t] \/ page'[t][c] # Unset) <=> c \in Asked(t)'
    BY <1>1, <1>3, <2>3, <2>4
  <2>6. \A c \in PageCounters :
          floor'[t][c] # Unset => c.field = "redirects" \/ c.key \in Listed(t)'
    <3>1. \A c \in PageCounters : floor[t][c] # Unset => Exists(c)
      BY DEF Behind
    <3> QED
      BY <1>1, <2>2, <3>1, CounterKinds DEF Exists
  <2>7. SkewInv(t)'
    <3>1. ASSUME NEW key \in Listed(t)', page'[t][Counter("count", key, 0)] # Unset
          PROVE  FALSE
      <4>1. key \in Keys
        BY <2>2
      <4>2. Counter("count", key, 0) \in PageCounters
        BY <4>1, CounterFacts
      <4>3. Counter("count", key, 0) \in RedirectCounters
        BY <1>1, <1>3, <2>4, <3>1, <4>2
      <4> QED
        BY <4>3 DEF RedirectCounters, Counter
    <3> QED
      BY <3>1 DEF SkewInv
  <2>8. \A key \in Listed(t)' : snapshot'[t][key] = routes'[key]
    BY <1>1, <2>1
  <2> QED
    BY <1>1, <1>2, <1>4, <2>5, <2>6, <2>7, <2>8 DEF PageInv
<1>6. ASSUME "business" \in parts[t], parts' = [parts EXCEPT ![t] = @ \ {"business"}],
             snapshot' = snapshot, todo' = [todo EXCEPT ![t] = RedirectCounters]
      PROVE  PageInv(t)' /\ SkewInv(t)'
  <2>1. /\ parts'[t] = parts[t] \ {"business"} /\ todo'[t] = RedirectCounters
    BY <1>6 DEF MetricsTypeOK
  <2>2. Listed(t)' = Listed(t)
    BY <1>6 DEF Listed
  <2>3. Asked(t)' = Asked(t) \cup RedirectCounters
    BY <1>6, <2>1, <2>2 DEF Asked
  <2>4. \A c \in PageCounters :
          (c \in todo'[t] \/ page'[t][c] # Unset) <=> c \in Asked(t)'
    BY <1>1, <1>3, <2>1, <2>3
  <2>5. "http" \notin parts'[t] =>
          \A c \in PageCounters :
            floor'[t][c] # Unset => c.field = "redirects" \/ c.key \in Listed(t)'
    BY <1>1, <2>1, <2>2 DEF PageInv
  <2>6. \A key \in Listed(t)' : snapshot'[t][key] = routes'[key]
    BY <1>1, <1>6, <2>2 DEF PageInv
  <2>7. SkewInv(t)'
    <3>1. \A key : (StatusCounters(key) \cup BucketCounters(key)) \cap RedirectCounters = {}
      BY DEF StatusCounters, BucketCounters, RedirectCounters, Counter
    <3>2. ASSUME NEW key
          PROVE  /\ ByStatus(t, key)' = ByStatus(t, key)
                 /\ Total(t, key)' = Total(t, key)
                 /\ \A i : UpTo(t, key, i)' = UpTo(t, key, i)
      BY <1>1 DEF ByStatus, Total, UpTo
    <3> QED
      BY <1>1, <2>1, <2>2, <3>1, <3>2 DEF SkewInv
  <2> QED
    BY <1>1, <1>2, <1>4, <2>4, <2>5, <2>6, <2>7 DEF PageInv
<1> QED
  BY <1>5, <1>6 DEF OpenPart

(* The total of a route is read after its other numbers.                   *)
LEMMA TotalIsReadLast ==
  ASSUME NEW t \in Threads, NEW key \in Keys, IsNext(t, Counter("count", key, 0))
  PROVE  (StatusCounters(key) \cup BucketCounters(key)) \cap todo[t] = {}
<1>1. Place(FieldOrder, "bucket") = 2 /\ Place(FieldOrder, "count") = 3
  BY DEF Place, FieldOrder
<1>2. ASSUME NEW d \in StatusCounters(key) \cup BucketCounters(key)
      PROVE  ReadBefore(d, Counter("count", key, 0))
  <2>1. CASE d \in StatusCounters(key)
    BY <2>1 DEF StatusCounters, Counter, ReadBefore
  <2>2. CASE d \in BucketCounters(key)
    <3>1. d.field = "bucket" /\ d.key = key
      BY <2>2 DEF BucketCounters, Counter
    <3>2. Counter("count", key, 0).field = "count" /\ Counter("count", key, 0).key = key
      BY DEF Counter
    <3> QED
      BY <1>1, <3>1, <3>2 DEF ReadBefore
  <2> QED
    BY <2>1, <2>2
<1> QED
  BY <1>2 DEF IsNext

(* What is on a page when the total of a route is read.                    *)
LEMMA ReadInProportion ==
  ASSUME CountersInv, NEW t \in Threads, pc[t] = "render", PageInv(t),
         NEW key \in Listed(t), IsNext(t, Counter("count", key, 0)),
         "http" \notin parts[t]
  PROVE  /\ ByStatus(t, key) <= Holding(Counter("count", key, 0), routes) + Cardinality(Threads \ {t})
         /\ UpTo(t, key, Len(Bounds)) <= Holding(Counter("count", key, 0), routes) + Cardinality(Threads \ {t})
<1>1. /\ MetricsTypeOK /\ IsFiniteSet(Units(completed)) /\ SeriesInv(key) /\ key \in Keys
      /\ completed \in [HttpRequests -> Nat]
  BY DEF CountersInv, MetricsTypeOK, Listed
<1>2. /\ routes[key] # Unset /\ Scraping(t)
  BY DEF PageInv, Listed, Scraping
<1>3. PICK n \in 1..Len(series) : n = routes[key]
  BY <1>1, <1>2, SeriesAt
<1>4. PICK s \in SeriesType : s = series[n]
  BY <1>1, <1>2, <1>3, SeriesAt
<1>5. /\ s.status \in [Classes -> Nat] /\ s.bucket \in [1..Len(Bounds) -> Nat]
      /\ s.count \in Nat
      /\ s.count = Completed(OfRoute(key))
      /\ SumOf(s.status) = Reached(OfRoute(key), {"bucket", "duration", "count"})
      /\ \A i \in 1..Len(Bounds) :
           SumOf([j \in 1..i |-> s.bucket[j]]) = Reached(Within(key, i), {"duration", "count"})
  BY <1>1, <1>2, <1>3, <1>4 DEF SeriesInv, BucketsUpTo, SeriesType
<1>6. Holding(Counter("count", key, 0), routes) = s.count
  BY <1>3, <1>4 DEF Holding, Counter
<1>7. ASSUME NEW R, NEW L, "render" \notin L
      PROVE  /\ Cardinality(Underway(R, L)) \in Nat
             /\ Cardinality(Threads \ {t}) \in Nat
             /\ Cardinality(Underway(R, L)) <= Cardinality(Threads \ {t})
  <2>1. Underway(R, L) \in SUBSET (Threads \ {t})
    BY <1>7 DEF Underway
  <2>2. IsFiniteSet(Threads \ {t})
    BY MetricsAssumption, FS_RemoveElement
  <2> QED
    BY <2>1, <2>2, FS_Subset, FS_CardinalityType
<1>8. ASSUME NEW c \in StatusCounters(key) \cup BucketCounters(key)
      PROVE  page[t][c] \in Nat /\ page[t][c] <= Holding(c, routes)
  <2>1. c \notin todo[t]
    BY <1>1, TotalIsReadLast
  <2>2. Listed(t) \in SUBSET Keys
    BY DEF Listed
  <2>3. c \in PageCounters /\ c \in Asked(t)
    BY <2>2, CounterFacts DEF Asked
  <2>4. page[t][c] # Unset
    BY <1>2, <2>1, <2>3 DEF PageInv
  <2>5. page[t][c] <= Holding(c, routes)
    BY <1>2, <2>3, <2>4 DEF PageInv, Behind
  <2> QED
    BY <1>1, <2>3, <2>4, <2>5 DEF MetricsTypeOK
<1>9. ByStatus(t, key) <= s.count + Cardinality(Threads \ {t})
  <2> DEFINE f == [class \in Classes |-> page[t][Counter("status", key, class)]]
  <2>1. ASSUME NEW class \in Classes
        PROVE  f[class] \in Nat /\ f[class] <= s.status[class]
    <3>1. Counter("status", key, class) \in StatusCounters(key)
      BY DEF StatusCounters
    <3>2. Holding(Counter("status", key, class), routes) = s.status[class]
      BY <1>3, <1>4 DEF Holding, Counter
    <3> QED
      BY <1>8, <3>1, <3>2
  <2>2. f \in [Classes -> Nat]
    BY <2>1
  <2>3. IsFiniteSet(Units(s.status))
    BY <1>5, ClassFacts, UnitsAreFinite
  <2>4. ByStatus(t, key) = SumOf(f)
    BY DEF ByStatus
  <2> HIDE DEF f
  <2>5. SumOf(f) <= SumOf(s.status)
    BY <1>5, <2>1, <2>2, <2>3, SumGrows
  <2>6. SumOf(f) \in Nat
    <3>1. IsFiniteSet(Units(f))
      BY <2>2, ClassFacts, UnitsAreFinite
    <3> QED
      BY <2>2, <3>1, SumType
  <2>7. SumOf(s.status) = s.count + Cardinality(Underway(OfRoute(key), {"bucket", "duration", "count"}))
    BY <1>5 DEF Reached
  <2>8. /\ Cardinality(Underway(OfRoute(key), {"bucket", "duration", "count"})) \in Nat
        /\ Cardinality(Threads \ {t}) \in Nat
        /\ Cardinality(Underway(OfRoute(key), {"bucket", "duration", "count"}))
             <= Cardinality(Threads \ {t})
    BY <1>7
  <2> QED
    BY <1>5, <2>4, <2>5, <2>6, <2>7, <2>8
<1>10. UpTo(t, key, Len(Bounds)) <= s.count + Cardinality(Threads \ {t})
  <2> DEFINE f == [j \in 1..Len(Bounds) |-> page[t][Counter("bucket", key, j)]]
             g == [j \in 1..Len(Bounds) |-> s.bucket[j]]
  <2>1. ASSUME NEW i \in 1..Len(Bounds)
        PROVE  f[i] \in Nat /\ f[i] <= g[i]
    <3>1. Counter("bucket", key, i) \in BucketCounters(key)
      BY DEF BucketCounters
    <3>2. Holding(Counter("bucket", key, i), routes) = s.bucket[i]
      BY <1>3, <1>4 DEF Holding, Counter
    <3> QED
      BY <1>8, <3>1, <3>2
  <2>2. f \in [1..Len(Bounds) -> Nat]
    BY <2>1
  <2>3. g \in [1..Len(Bounds) -> Nat] /\ IsFiniteSet(Units(g))
    BY <1>5, BoundsType, BucketsType
  <2>4. UpTo(t, key, Len(Bounds)) = SumOf(f)
    BY DEF UpTo
  <2>5. Len(Bounds) \in 1..Len(Bounds) =>
          SumOf(g) = Reached(Within(key, Len(Bounds)), {"duration", "count"})
    BY <1>5
  <2> HIDE DEF f, g
  <2>6. SumOf(f) <= SumOf(g) /\ IsFiniteSet(Units(f))
    BY <2>1, <2>2, <2>3, SumGrows
  <2>7. SumOf(f) \in Nat
    BY <2>2, <2>6, SumType
  <2>8. CASE Len(Bounds) = 0
    <3>1. \A i \in 1..Len(Bounds) : f[i] = 0
      BY <2>8
    <3>2. SumOf(f) = 0
      BY <2>2, <3>1, SumOfNothing
    <3>3. Cardinality(Threads \ {t}) \in Nat
      <4>1. IsFiniteSet(Threads \ {t})
        BY MetricsAssumption, FS_RemoveElement
      <4> QED
        BY <4>1, FS_CardinalityType
    <3> QED
      BY <1>5, <2>4, <3>2, <3>3
  <2>9. CASE Len(Bounds) # 0
    <3>1. SumOf(g) = Completed(Within(key, Len(Bounds)))
                       + Cardinality(Underway(Within(key, Len(Bounds)), {"duration", "count"}))
      BY <2>5, <2>9, BoundsType DEF Reached
    <3>2. /\ Completed(Within(key, Len(Bounds))) \in Nat
          /\ Completed(Within(key, Len(Bounds))) <= s.count
      <4>1. /\ OfRoute(key) \in SUBSET HttpRequests
            /\ Within(key, Len(Bounds)) \in SUBSET OfRoute(key)
            /\ Within(key, Len(Bounds)) \in SUBSET HttpRequests
        BY DEF OfRoute, Within
      <4>2. Completed(Within(key, Len(Bounds))) \in Nat
        BY <1>1, <4>1, CompletedType
      <4>3. Completed(Within(key, Len(Bounds))) <= Completed(OfRoute(key))
        BY <1>1, <4>1, CompletedGrows
      <4> QED
        BY <1>5, <4>2, <4>3
    <3>3. /\ Cardinality(Underway(Within(key, Len(Bounds)), {"duration", "count"})) \in Nat
          /\ Cardinality(Threads \ {t}) \in Nat
          /\ Cardinality(Underway(Within(key, Len(Bounds)), {"duration", "count"}))
               <= Cardinality(Threads \ {t})
      BY <1>7
    <3> QED
      BY <1>5, <2>4, <2>6, <2>7, <3>1, <3>2, <3>3
  <2> QED
    BY <2>8, <2>9
<1> QED
  BY <1>6, <1>9, <1>10

LEMMA ReadPage ==
  ASSUME CountersInv, CountersGrow, NEW t \in Threads, Read(t), PageInv(t), SkewInv(t),
         Behind(floor[t])
  PROVE  PageInv(t)' /\ SkewInv(t)'
<1>1. PICK c : Reads(t, c)
  BY ReadFacts
<1>2. PICK v \in Nat : v = Holding(c, routes)
  BY <1>1 DEF Reads
<1>3. /\ c \in PageCounters /\ c \in Asked(t) /\ IsNext(t, c) /\ c \in todo[t]
      /\ page'[t] = [page[t] EXCEPT ![c] = v] /\ todo'[t] = todo[t] \ {c}
      /\ page[t] \in [PageCounters -> Nat \cup {Unset}]
  BY <1>1, <1>2 DEF Reads, IsNext, CountersInv, MetricsTypeOK
<1>4. /\ pc[t] = "render" /\ pc' = pc /\ parts' = parts /\ snapshot' = snapshot
      /\ floor' = floor /\ request' = request /\ routes' = routes
      /\ Scraping(t) /\ Scraping(t)'
  BY DEF Read, counters, history, Scraping
<1>5. Listed(t)' = Listed(t) /\ Asked(t)' = Asked(t)
  BY <1>4 DEF Listed, Asked
<1>6. v # Unset /\ MetricsTypeOK
  BY MetricsAssumption DEF CountersInv
<1>7. \A d \in PageCounters : page'[t][d] = IF d = c THEN v ELSE page[t][d]
  BY <1>3
<1>8. \A d \in PageCounters :
        (d \in todo'[t] \/ page'[t][d] # Unset) <=> d \in Asked(t)'
  BY <1>3, <1>4, <1>5, <1>6, <1>7 DEF PageInv
<1>9. Behind(page[t])'
  <2>1. Behind(page[t])
    BY <1>4 DEF PageInv
  <2>2. ASSUME NEW d \in PageCounters, page'[t][d] # Unset
        PROVE  Exists(d)' /\ page'[t][d] <= Holding(d, routes)'
    <3>1. Exists(d) /\ page'[t][d] <= Holding(d, routes) /\ page'[t][d] \in Nat
      BY <1>1, <1>2, <1>3, <1>7, <2>1, <2>2 DEF Behind, Reads
    <3> QED
      BY <3>1 DEF CountersGrow
  <2> QED
    BY <2>2 DEF Behind
<1>10. \A d \in PageCounters :
         (floor'[t][d] # Unset /\ page'[t][d] # Unset) => floor'[t][d] <= page'[t][d]
  BY <1>2, <1>4, <1>7 DEF PageInv, Behind
<1>11. /\ \A key \in Listed(t)' : snapshot'[t][key] = routes'[key]
       /\ "http" \notin parts'[t] =>
            \A d \in PageCounters :
              floor'[t][d] # Unset => d.field = "redirects" \/ d.key \in Listed(t)'
  BY <1>4, <1>5 DEF PageInv
<1>12. PageInv(t)'
  BY <1>4, <1>8, <1>9, <1>10, <1>11 DEF PageInv
<1>13. ASSUME "http" \notin parts'[t], NEW key \in Listed(t)',
              page'[t][Counter("count", key, 0)] # Unset
       PROVE  /\ (StatusCounters(key) \cup BucketCounters(key)) \cap todo'[t] = {}
              /\ ByStatus(t, key)' <= Total(t, key)' + Cardinality(Threads \ {t})
              /\ UpTo(t, key, Len(Bounds))' <= Total(t, key)' + Cardinality(Threads \ {t})
  <2>1. /\ key \in Keys /\ key \in Listed(t) /\ "http" \notin parts[t]
        /\ Counter("count", key, 0) \in PageCounters
        /\ \A class \in Classes : Counter("status", key, class) \in PageCounters
        /\ \A i \in 1..Len(Bounds) : Counter("bucket", key, i) \in PageCounters
    <3>1. key \in Keys /\ key \in Listed(t) /\ "http" \notin parts[t]
      BY <1>4, <1>5, <1>13 DEF Listed
    <3> QED
      BY <3>1 DEF PageCounters, HttpCounters, StatusCounters, BucketCounters
  <2>2. ASSUME c \notin StatusCounters(key) \cup BucketCounters(key)
        PROVE  ByStatus(t, key)' = ByStatus(t, key)
               /\ UpTo(t, key, Len(Bounds))' = UpTo(t, key, Len(Bounds))
    <3>1. \A class \in Classes :
            page'[t][Counter("status", key, class)] = page[t][Counter("status", key, class)]
      BY <1>7, <2>1, <2>2 DEF StatusCounters
    <3>2. \A i \in 1..Len(Bounds) :
            page'[t][Counter("bucket", key, i)] = page[t][Counter("bucket", key, i)]
      BY <1>7, <2>1, <2>2 DEF BucketCounters
    <3>3. [class \in Classes |-> page'[t][Counter("status", key, class)]]
            = [class \in Classes |-> page[t][Counter("status", key, class)]]
      BY <3>1
    <3>4. [i \in 1..Len(Bounds) |-> page'[t][Counter("bucket", key, i)]]
            = [i \in 1..Len(Bounds) |-> page[t][Counter("bucket", key, i)]]
      BY <3>2
    <3> QED
      BY <3>3, <3>4 DEF ByStatus, UpTo
  <2>3. CASE c = Counter("count", key, 0)
    <3>1. (StatusCounters(key) \cup BucketCounters(key)) \cap todo[t] = {}
      BY <1>3, <2>1, <2>3, TotalIsReadLast
    <3>2. c \notin StatusCounters(key) \cup BucketCounters(key)
      BY <1>3, <3>1
    <3>3. Total(t, key)' = v
      BY <1>7, <2>1, <2>3 DEF Total
    <3>4. /\ ByStatus(t, key) <= v + Cardinality(Threads \ {t})
          /\ UpTo(t, key, Len(Bounds)) <= v + Cardinality(Threads \ {t})
      BY <1>2, <1>3, <1>4, <2>1, <2>3, ReadInProportion
    <3> QED
      BY <1>3, <2>2, <3>1, <3>2, <3>3, <3>4
  <2>4. CASE c # Counter("count", key, 0)
    <3>1. page[t][Counter("count", key, 0)] # Unset
      BY <1>7, <1>13, <2>1, <2>4
    <3>2. /\ (StatusCounters(key) \cup BucketCounters(key)) \cap todo[t] = {}
          /\ ByStatus(t, key) <= Total(t, key) + Cardinality(Threads \ {t})
          /\ UpTo(t, key, Len(Bounds)) <= Total(t, key) + Cardinality(Threads \ {t})
      BY <1>4, <2>1, <3>1 DEF SkewInv
    <3>3. c \notin StatusCounters(key) \cup BucketCounters(key)
      BY <1>3, <3>2
    <3>4. Total(t, key)' = Total(t, key)
      BY <1>7, <2>1, <2>4 DEF Total
    <3> QED
      BY <1>3, <2>2, <3>2, <3>3, <3>4
  <2> QED
    BY <2>3, <2>4
<1>14. SkewInv(t)'
  BY <1>13 DEF SkewInv
<1> QED
  BY <1>12, <1>14

LEMMA OtherSteps ==
  ASSUME MetricsTypeOK, NEW t \in Threads, ThreadInv(t),
         \/ Resolve(t) \/ Find(t) \/ Register(t)
         \/ CountStatus(t) \/ CountBucket(t) \/ AddDuration(t) \/ CountRequest(t)
  PROVE  /\ Keeps(t) /\ ~Scraping(t)' /\ pc[t] # "render" /\ pc[t] # "idle"
         /\ pc'[t] # "render" /\ alone' = alone
<1>1. Keeps(t) /\ alone' = alone /\ request' = request
  BY DEF Resolve, Find, Register, CountStatus, CountBucket, AddDuration, CountRequest,
         render, history, Keeps
<1>2. \/ pc[t] = "resolve" /\ pc'[t] = "find"
      \/ /\ pc[t] \in {"find", "register"} \cup Recording
         /\ pc'[t] \in {"register", "idle"} \cup Recording
  BY DEF Resolve, Find, Register, CountStatus, CountBucket, AddDuration, CountRequest,
         Proceed, MetricsTypeOK, Recording
<1>3. CASE pc[t] = "resolve" /\ pc'[t] = "find"
  <2>1. request[t].key # Scrape
    BY <1>3, RequestSets DEF ThreadInv
  <2> QED
    BY <1>1, <1>3, <2>1 DEF Scraping, HasPage
<1>4. CASE /\ pc[t] \in {"find", "register"} \cup Recording
           /\ pc'[t] \in {"register", "idle"} \cup Recording
  BY <1>1, <1>4 DEF Scraping, HasPage, Recording
<1> QED
  BY <1>2, <1>3, <1>4

LEMMA RenderedFacts ==
  ASSUME MetricsTypeOK, NEW t \in Threads, ThreadInv(t), Rendered(t)
  PROVE  /\ Keeps(t) /\ Scraping(t) /\ Scraping(t)' /\ pc[t] = "render" /\ pc'[t] = "find"
         /\ todo[t] = {} /\ parts[t] = {} /\ UNCHANGED counters /\ alone' = alone
<1>1. /\ Keeps(t) /\ pc[t] = "render" /\ pc'[t] = "find" /\ request' = request
      /\ todo[t] = {} /\ parts[t] = {} /\ UNCHANGED counters /\ alone' = alone
  BY DEF Rendered, render, Keeps, Proceed, MetricsTypeOK
<1> QED
  BY <1>1 DEF Scraping, HasPage, ThreadInv

LEMMA PageNext ==
  ASSUME CountersInv, \A v \in Threads : ThreadInv(v), NEW t \in Threads, Step(t),
         NEW u \in Threads, PageInv(u), SkewInv(u), Behind(floor[u])
  PROVE  PageInv(u)' /\ SkewInv(u)'
<1>1. MetricsTypeOK /\ CountersGrow /\ ThreadInv(t)
  BY StepKeepsCounters DEF CountersInv
<1>2. CASE u # t
  BY <1>1, <1>2, OtherPages
<1>3. CASE u = t
  <2>1. CASE Begin(t)
    BY <1>1, <1>3, <2>1, BeginPage
  <2>2. CASE OpenPart(t)
    BY <1>1, <1>3, <2>2, OpenPage
  <2>3. CASE Read(t)
    BY <1>1, <1>3, <2>3, ReadPage
  <2>4. CASE Rendered(t)
    BY <1>1, <1>3, <2>4, RenderedFacts, KeptPage
  <2>5. CASE \/ Resolve(t) \/ Find(t) \/ Register(t)
             \/ CountStatus(t) \/ CountBucket(t) \/ AddDuration(t) \/ CountRequest(t)
    <3>1. /\ Keeps(t) /\ ~Scraping(t)' /\ pc[t] # "render"
      BY <1>1, <2>5, OtherSteps
    <3>2. todo[t] = {} /\ parts[t] = {}
      BY <1>3, <3>1 DEF PageInv
    <3> QED
      BY <1>1, <1>3, <3>1, <3>2, KeptPage
  <2> QED
    BY <2>1, <2>2, <2>3, <2>4, <2>5 DEF Step
<1> QED
  BY <1>2, <1>3

LEMMA PublishedNext ==
  ASSUME CountersInv, \A v \in Threads : ThreadInv(v) /\ PageInv(v),
         NEW t \in Threads, Step(t), Behind(published)
  PROVE  Behind(published)'
<1>1. MetricsTypeOK /\ CountersGrow /\ ThreadInv(t) /\ PageInv(t)
  BY StepKeepsCounters DEF CountersInv
<1>2. CASE Rendered(t)
  <2>1. Behind(page[t])
    BY <1>1, <1>2, RenderedFacts DEF PageInv
  <2>2. \A c \in PageCounters : published'[c] = published[c] \/ published'[c] = page[t][c]
    BY <1>2 DEF Rendered
  <2>3. published' \in [PageCounters -> Nat \cup {Unset}]
    BY <1>1, <1>2 DEF Rendered, MetricsTypeOK
  <2>4. ASSUME NEW c \in PageCounters, published'[c] # Unset
        PROVE  Exists(c)' /\ published'[c] <= Holding(c, routes)'
    <3>1. Exists(c) /\ published'[c] <= Holding(c, routes) /\ published'[c] \in Nat
      BY <2>1, <2>2, <2>3, <2>4 DEF Behind
    <3> QED
      BY <1>1, <3>1 DEF CountersGrow
  <2> QED
    BY <2>4 DEF Behind
<1>3. CASE ~Rendered(t)
  <2>1. PICK f \in [PageCounters -> Nat \cup {Unset}] : f = published
    BY <1>1 DEF MetricsTypeOK
  <2>2. published' = f
    BY <1>3, <2>1 DEF Step, Begin, Resolve, OpenPart, Read, Find, Register, CountStatus,
                      CountBucket, AddDuration, CountRequest, history
  <2>3. Behind(f)
    BY <2>1
  <2>4. Behind(f)'
    BY <1>1, <2>3, BehindStays
  <2> QED
    BY <2>2, <2>4 DEF Behind
<1> QED
  BY <1>2, <1>3

LEMMA FloorNext ==
  ASSUME CountersInv, \A v \in Threads : ThreadInv(v), NEW t \in Threads, Step(t),
         NEW u \in Threads, Behind(published), Behind(floor[u])
  PROVE  Behind(floor[u])'
<1>1. MetricsTypeOK /\ CountersGrow
  BY StepKeepsCounters DEF CountersInv
<1>2. floor'[u] = floor[u] \/ floor'[u] = published
  BY <1>1 DEF Step, Begin, Resolve, OpenPart, Read, Rendered, Find, Register, CountStatus,
              CountBucket, AddDuration, CountRequest, history, MetricsTypeOK
<1>3. PICK f \in [PageCounters -> Nat \cup {Unset}] : f = floor'[u] /\ (f = floor[u] \/ f = published)
  BY <1>1, <1>2 DEF MetricsTypeOK
<1>4. Behind(f)
  BY <1>3
<1>5. Behind(f)'
  BY <1>1, <1>4, BehindStays
<1> QED
  BY <1>3, <1>5 DEF Behind

LEMMA QuietNext ==
  ASSUME CountersInv, \A v \in Threads : ThreadInv(v) /\ PageInv(v),
         NEW t \in Threads, Step(t), NEW u \in Threads, QuietInv(u)
  PROVE  QuietInv(u)'
<1>1. MetricsTypeOK /\ ThreadInv(t) /\ PageInv(t)
  BY DEF CountersInv
<1>2. \A v \in Threads \ {t} : pc'[v] = pc[v]
  BY <1>1, OthersKeep
<1>3. CASE u # t
  <2>1. pc'[u] = pc[u] /\ (alone'[u] => alone[u] /\ pc[t] # "idle")
    BY <1>1, <1>3, OthersKeep
  <2>2. ~(alone'[u] /\ pc'[u] # "idle")
    BY <1>3, <2>1 DEF QuietInv
  <2> QED
    BY <2>2 DEF QuietInv
<1>4. CASE u = t /\ Begin(t)
  <2>1. alone'[t] => \A v \in Threads \ {t} : pc[v] = "idle"
    BY <1>1, <1>4 DEF Begin, MetricsTypeOK
  <2>2. \A c \in PageCounters : page'[t][c] = Unset
    BY <1>1, <1>4 DEF Begin, MetricsTypeOK, Blank
  <2> QED
    BY <1>2, <1>4, <2>1, <2>2 DEF QuietInv
<1>5. CASE u = t /\ (OpenPart(t) \/ Read(t) \/ Rendered(t))
  <2>1. /\ UNCHANGED counters /\ alone' = alone /\ pc[t] = "render" /\ Scraping(t)
    BY <1>5 DEF OpenPart, Read, Rendered, history, Scraping
  <2>2. ASSUME alone'[t], NEW c \in PageCounters, page'[t][c] # Unset
        PROVE  page'[t][c] = Holding(c, routes)'
    <3>1. Holding(c, routes)' = Holding(c, routes)
      BY <2>1 DEF Holding, counters
    <3>2. page[t][c] # Unset => page[t][c] = Holding(c, routes)
      BY <1>5, <2>1, <2>2 DEF QuietInv
    <3>3. page'[t][c] = page[t][c] \/ page'[t][c] = Holding(c, routes)
      <4>1. CASE Read(t)
        <5>1. PICK d : Reads(t, d)
          BY <1>1, <4>1, ReadFacts
        <5> QED
          BY <1>1, <5>1 DEF Reads, MetricsTypeOK
      <4>2. CASE ~Read(t)
        BY <1>5, <4>2 DEF OpenPart, Rendered, render
      <4> QED
        BY <4>1, <4>2
    <3> QED
      BY <2>2, <3>1, <3>2, <3>3
  <2>3. alone'[t] => \A v \in Threads \ {t} : pc[v] = "idle"
    BY <1>5, <2>1 DEF QuietInv
  <2> QED
    BY <1>2, <1>5, <2>2, <2>3 DEF QuietInv
<1>6. CASE /\ u = t
           /\ \/ Resolve(t) \/ Find(t) \/ Register(t)
              \/ CountStatus(t) \/ CountBucket(t) \/ AddDuration(t) \/ CountRequest(t)
  <2>1. ~Scraping(t)' /\ pc[t] # "idle" /\ alone' = alone
    BY <1>1, <1>6, OtherSteps
  <2>2. alone'[t] => \A v \in Threads \ {t} : pc[v] = "idle"
    BY <1>6, <2>1 DEF QuietInv
  <2> QED
    BY <1>2, <1>6, <2>1, <2>2 DEF QuietInv
<1> QED
  BY <1>3, <1>4, <1>5, <1>6 DEF Step

-----------------------------------------------------------------------------
(* Before the server runs, nothing is counted and no request is there.     *)
LEMMA InitCounters == MetricsInit => CountersInv
<1> SUFFICES ASSUME MetricsInit
             PROVE  CountersInv
  OBVIOUS
<1>1. NewSeries \in SeriesType /\ NewSeries.count = 0
      /\ NewSeries.status = [class \in Classes |-> 0]
      /\ NewSeries.bucket = [i \in 1..Len(Bounds) |-> 0]
  BY DEF NewSeries, SeriesType
<1>2. MetricsTypeOK
  <2>1. /\ series \in Seq(SeriesType) /\ routes \in [Keys -> Nat \cup {Unset}]
        /\ redirects \in [RedirectResults -> Nat]
    BY <1>1 DEF MetricsInit
  <2>2. /\ pc \in [Threads -> Labels]
        /\ request \in [Threads -> HttpRequests \cup {Unset}]
        /\ handle \in [Threads -> Nat \cup {Unset}]
        /\ parts \in [Threads -> SUBSET {"http", "business"}]
        /\ snapshot \in [Threads -> [Keys -> Nat \cup {Unset}]]
        /\ todo \in [Threads -> SUBSET PageCounters]
        /\ left \in Nat /\ completed \in [HttpRequests -> Nat]
        /\ alone \in [Threads -> BOOLEAN]
    BY MetricsAssumption DEF MetricsInit, Labels
  <2>3. Blank \in [PageCounters -> Nat \cup {Unset}]
    BY DEF Blank
  <2>4. /\ page \in [Threads -> [PageCounters -> Nat \cup {Unset}]]
        /\ published \in [PageCounters -> Nat \cup {Unset}]
        /\ floor \in [Threads -> [PageCounters -> Nat \cup {Unset}]]
    BY <2>3 DEF MetricsInit
  <2> QED
    BY <2>1, <2>2, <2>4 DEF MetricsTypeOK
<1>3. completed \in [HttpRequests -> Nat] /\ \A r \in HttpRequests : completed[r] = 0
  BY DEF MetricsInit
<1>4. IsFiniteSet(Units(completed))
  BY <1>3, SumOfNothing
<1>5. ASSUME NEW R \in SUBSET HttpRequests, NEW L, "idle" \notin L
      PROVE  Completed(R) = 0 /\ Reached(R, L) = 0
  <2>1. Completed(R) = 0
    BY <1>3, CompletedOfNone
  <2>2. Underway(R, L) = {}
    BY <1>5 DEF Underway, MetricsInit
  <2> QED
    BY <2>1, <2>2, FS_EmptySet DEF Reached
<1>6. ASSUME NEW key \in Keys
      PROVE  SeriesInv(key)
  <2>1. OfRoute(key) \in SUBSET HttpRequests
        /\ \A i \in 1..Len(Bounds) : Within(key, i) \in SUBSET HttpRequests
    BY DEF OfRoute, Within
  <2>2. CASE routes[key] = Unset
    BY <1>3, <2>1, <2>2 DEF SeriesInv
  <2>3. CASE routes[key] # Unset
    <3>1. PICK n : n = routes[key]
      OBVIOUS
    <3>2. /\ n \in 1..2 /\ series = <<NewSeries, NewSeries>>
          /\ \A other \in Keys : routes[other] = n => other = key
      <4>1. 1 # Unset /\ 2 # Unset
        BY MetricsAssumption
      <4>2. \A other \in Keys : routes[other] = IF other = Scrape THEN 1
                                               ELSE IF other = Redirect THEN 2 ELSE Unset
        BY DEF MetricsInit
      <4>3. \A other \in Keys : routes[other] = n => other = key
        BY <2>3, <3>1, <4>1, <4>2
      <4>4. n \in 1..2
        BY <2>3, <3>1, <4>2
      <4> QED
        BY <4>3, <4>4 DEF MetricsInit
    <3>3. series[n] = NewSeries /\ n \in 1..Len(series)
      BY <3>2
    <3>4. SumOf(series[n].status) = 0
      <4>1. series[n].status \in [Classes -> Nat] /\ \A class \in Classes : series[n].status[class] = 0
        BY <1>1, <3>3
      <4> QED
        BY <4>1, SumOfNothing
    <3>5. ASSUME NEW i \in 1..Len(Bounds)
          PROVE  SumOf(BucketsUpTo(n, i)) = 0
      <4>1. 1..i \subseteq 1..Len(Bounds)
        BY BoundsType
      <4>2. BucketsUpTo(n, i) \in [1..i -> Nat] /\ \A j \in 1..i : BucketsUpTo(n, i)[j] = 0
        BY <1>1, <3>3, <4>1 DEF BucketsUpTo
      <4> QED
        BY <4>2, SumOfNothing
    <3>6. /\ Completed(OfRoute(key)) = 0
          /\ Reached(OfRoute(key), {"bucket", "duration", "count"}) = 0
      BY <1>5, <2>1
    <3>7. ASSUME NEW i \in 1..Len(Bounds)
          PROVE  Reached(Within(key, i), {"duration", "count"}) = 0
      BY <1>5, <2>1
    <3> QED
      BY <1>1, <2>3, <3>1, <3>2, <3>3, <3>4, <3>5, <3>6, <3>7 DEF SeriesInv
  <2> QED
    BY <2>2, <2>3
<1>7. RedirectsInv
  <2>1. ASSUME NEW result \in RedirectResults
        PROVE  redirects[result] = Reached(WithResult(result), {"find", "register"} \cup Recording)
    <3>1. WithResult(result) \in SUBSET HttpRequests
      BY DEF WithResult, OfRoute
    <3>2. "idle" \notin {"find", "register"} \cup Recording
      BY DEF Recording
    <3>3. Reached(WithResult(result), {"find", "register"} \cup Recording) = 0
      BY <1>5, <3>1, <3>2
    <3> QED
      BY <3>3 DEF MetricsInit
  <2> QED
    BY <2>1 DEF RedirectsInv
<1> QED
  BY <1>2, <1>4, <1>6, <1>7 DEF CountersInv

LEMMA MetricsInitInv == MetricsInit => MetricsInv
<1> SUFFICES ASSUME MetricsInit
             PROVE  MetricsInv
  OBVIOUS
<1>1. CountersInv
  BY InitCounters
<1>2. Behind(published) /\ \A t \in Threads : Behind(floor[t])
  BY DEF MetricsInit, Behind, Blank
<1>3. ASSUME NEW t \in Threads
      PROVE  ThreadInv(t) /\ PageInv(t) /\ SkewInv(t) /\ QuietInv(t)
  <2>1. pc[t] = "idle" /\ todo[t] = {} /\ parts[t] = {} /\ Listed(t) = {}
    BY DEF MetricsInit, Listed
  <2> QED
    BY <2>1 DEF ThreadInv, Recording, PageInv, SkewInv, QuietInv, Scraping, HasPage
<1> QED
  BY <1>1, <1>2, <1>3 DEF MetricsInv, CountersInv

LEMMA MetricsStepInv ==
  ASSUME MetricsInv, NEW t \in Threads, Step(t)
  PROVE  MetricsInv'
<1>1. /\ CountersInv /\ Behind(published)
      /\ \A u \in Threads : /\ ThreadInv(u) /\ PageInv(u) /\ SkewInv(u) /\ QuietInv(u)
                            /\ Behind(floor[u])
      /\ MetricsTypeOK
  BY DEF MetricsInv, CountersInv
<1>2. MetricsTypeOK' /\ IsFiniteSet(Units(completed))'
  BY <1>1, TypeNext
<1>3. \A key \in Keys : SeriesInv(key)'
  BY <1>1, SeriesNext
<1>4. RedirectsInv'
  BY <1>1, RedirectsNext
<1>5. Behind(published)'
  BY <1>1, PublishedNext
<1>6. ASSUME NEW u \in Threads
      PROVE  /\ ThreadInv(u)' /\ PageInv(u)' /\ SkewInv(u)' /\ QuietInv(u)'
             /\ Behind(floor[u])'
  <2>1. ThreadInv(u)'
    BY <1>1, ThreadNext
  <2>2. PageInv(u)' /\ SkewInv(u)'
    BY <1>1, PageNext
  <2>3. QuietInv(u)'
    BY <1>1, QuietNext
  <2>4. Behind(floor[u])'
    BY <1>1, FloorNext
  <2> QED
    BY <2>1, <2>2, <2>3, <2>4
<1> QED
  BY <1>2, <1>3, <1>4, <1>5, <1>6 DEF MetricsInv

LEMMA MetricsStutter ==
  ASSUME MetricsInv, UNCHANGED metricsVars
  PROVE  MetricsInv'
<1>1. /\ UNCHANGED <<routes, series, redirects, pc, request, handle, parts, snapshot, todo, page,
                     left, completed, published, floor, alone>>
  BY DEF metricsVars, counters, render, history
<1>2. MetricsTypeOK' /\ IsFiniteSet(Units(completed))'
  BY <1>1 DEF MetricsInv, MetricsTypeOK
<1>3. ASSUME NEW R, NEW L
      PROVE  Completed(R)' = Completed(R) /\ Reached(R, L)' = Reached(R, L)
  BY <1>1 DEF Completed, Underway, Reached
<1>4. ASSUME NEW key \in Keys
      PROVE  SeriesInv(key)'
  <2>1. SeriesInv(key)
    BY DEF MetricsInv
  <2>2. \A n, i : BucketsUpTo(n, i)' = BucketsUpTo(n, i)
    BY <1>1 DEF BucketsUpTo
  <2> QED
    BY <1>1, <1>3, <2>1, <2>2, SeriesKept DEF SeriesInv
<1>5. RedirectsInv'
  BY <1>1, <1>3 DEF MetricsInv, RedirectsInv
<1>6. \A c : Exists(c)' = Exists(c) /\ Holding(c, routes)' = Holding(c, routes)
  BY <1>1 DEF Exists, Holding
<1>7. Behind(published)'
  BY <1>1, <1>6 DEF MetricsInv, Behind
<1>8. ASSUME NEW u \in Threads
      PROVE  /\ ThreadInv(u)' /\ PageInv(u)' /\ SkewInv(u)' /\ QuietInv(u)'
             /\ Behind(floor[u])'
  <2>1. ThreadInv(u) /\ PageInv(u) /\ SkewInv(u) /\ QuietInv(u) /\ Behind(floor[u])
    BY DEF MetricsInv
  <2>2. Keeps(u) /\ (Scraping(u)' <=> Scraping(u))
    BY <1>1 DEF Keeps, Scraping, HasPage
  <2>3. /\ Listed(u)' = Listed(u) /\ Asked(u)' = Asked(u)
        /\ \A key : /\ ByStatus(u, key)' = ByStatus(u, key)
                    /\ Total(u, key)' = Total(u, key)
                    /\ \A i : UpTo(u, key, i)' = UpTo(u, key, i)
    BY <2>2, KeepsFacts
  <2>4. ThreadInv(u)'
    BY <1>1, <2>1 DEF ThreadInv
  <2>5. Behind(page[u]) => Behind(page[u])'
    BY <1>1, <1>6 DEF Behind
  <2>6. PageInv(u)'
    BY <1>1, <2>1, <2>2, <2>3, <2>5 DEF PageInv
  <2>7. SkewInv(u)'
    BY <1>1, <2>1, <2>2, <2>3 DEF SkewInv
  <2>8. QuietInv(u)'
    BY <1>1, <1>6, <2>1, <2>2 DEF QuietInv
  <2>9. Behind(floor[u])'
    BY <1>1, <1>6, <2>1 DEF Behind
  <2> QED
    BY <2>1, <2>4, <2>6, <2>7, <2>8, <2>9
<1> QED
  BY <1>2, <1>4, <1>5, <1>7, <1>8 DEF MetricsInv

LEMMA MetricsNextInv == MetricsInv /\ [MetricsNext]_metricsVars => MetricsInv'
<1>1. ASSUME MetricsInv, MetricsNext
      PROVE  MetricsInv'
  <2>1. PICK t \in Threads : Step(t)
    BY <1>1 DEF MetricsNext, Step
  <2> QED
    BY <1>1, <2>1, MetricsStepInv
<1> QED
  BY <1>1, MetricsStutter

(***************************************************************************)
(* The invariant of the metrics.                                           *)
(***************************************************************************)
THEOREM MetricsInvariance == MetricsSpec => []MetricsInv
<1> QED
  BY MetricsInitInv, MetricsNextInv, PTL DEF MetricsSpec

(***************************************************************************)
(* Every request that was recorded is in the one series a scrape will find *)
(* under its route, whichever thread registered it (HttpMetrics::          *)
(* findOrRegister).                                                        *)
(***************************************************************************)
THEOREM RequestsAreFound == MetricsSpec => []EveryRequestIsFound
<1>1. ASSUME MetricsInv
      PROVE  EveryRequestIsFound
  <2>1. ASSUME NEW key \in Keys
        PROVE  Completed(OfRoute(key)) = IF routes[key] = Unset THEN 0 ELSE series[routes[key]].count
    <3>1. SeriesInv(key) /\ completed \in [HttpRequests -> Nat]
      BY <1>1 DEF MetricsInv, MetricsTypeOK
    <3>2. CASE routes[key] = Unset
      <4>1. OfRoute(key) \in SUBSET HttpRequests /\ \A r \in OfRoute(key) : completed[r] = 0
        BY <3>1, <3>2 DEF SeriesInv, OfRoute
      <4>2. Completed(OfRoute(key)) = 0
        BY <3>1, <4>1, CompletedOfNone
      <4> QED
        BY <3>2, <4>2
    <3>3. CASE routes[key] # Unset
      BY <3>1, <3>3 DEF SeriesInv
    <3> QED
      BY <3>2, <3>3
  <2> QED
    BY <2>1 DEF EveryRequestIsFound
<1> QED
  BY <1>1, MetricsInvariance, PTL

LEMMA WholePage ==
  ASSUME MetricsInv, NEW t \in Threads, HasPage(t)
  PROVE  /\ Scraping(t) /\ todo[t] = {} /\ parts[t] = {}
         /\ Listed(t) \in SUBSET Keys
         /\ \A key \in Listed(t) : routes[key] # Unset
         /\ \A c \in PageCounters :
              c.field = "redirects" \/ c.key \in Listed(t) => page[t][c] # Unset
<1>1. PageInv(t) /\ pc[t] # "render" /\ Scraping(t)
  BY DEF MetricsInv, HasPage, Scraping
<1>2. todo[t] = {} /\ parts[t] = {}
  BY <1>1 DEF PageInv
<1>3. Listed(t) \in SUBSET Keys /\ \A key \in Listed(t) : routes[key] # Unset
  BY <1>1 DEF PageInv, Listed
<1>4. Asked(t) = HttpCounters(Listed(t)) \cup RedirectCounters
  BY <1>2 DEF Asked
<1>5. ASSUME NEW c \in PageCounters, c.field = "redirects" \/ c.key \in Listed(t)
      PROVE  page[t][c] # Unset
  <2>1. c \in Asked(t)
    BY <1>3, <1>4, <1>5, CounterKinds
  <2> QED
    BY <1>1, <1>2, <2>1 DEF PageInv
<1> QED
  BY <1>1, <1>2, <1>3, <1>5

LEMMA OnThePage ==
  ASSUME MetricsInv, NEW t \in Threads, HasPage(t), NEW key \in Listed(t)
  PROVE  /\ page[t][Counter("count", key, 0)] # Unset
         /\ \A class \in Classes : page[t][Counter("status", key, class)] # Unset
         /\ \A i \in 1..Len(Bounds) : page[t][Counter("bucket", key, i)] # Unset
         /\ Counter("count", key, 0) \in PageCounters
         /\ \A class \in Classes : Counter("status", key, class) \in PageCounters
         /\ \A i \in 1..Len(Bounds) : Counter("bucket", key, i) \in PageCounters
<1>1. key \in Keys
  BY WholePage
<1>2. /\ Counter("count", key, 0) \in PageCounters
      /\ \A class \in Classes : Counter("status", key, class) \in PageCounters
      /\ \A i \in 1..Len(Bounds) : Counter("bucket", key, i) \in PageCounters
  BY <1>1 DEF PageCounters, HttpCounters, StatusCounters, BucketCounters
<1>3. \A field, at : Counter(field, key, at).key = key
  BY DEF Counter
<1> QED
  BY <1>2, <1>3, WholePage

(***************************************************************************)
(* On a page that is read while requests go on, no histogram counts more   *)
(* requests than its total but for those that other threads were recording *)
(* (HttpMetrics::renderPrometheus beside record).                          *)
(***************************************************************************)
THEOREM SkewIsBounded == MetricsSpec => []SkewBounded
<1>1. ASSUME MetricsInv
      PROVE  SkewBounded
  <2>1. ASSUME NEW t \in Threads, HasPage(t), NEW key \in Listed(t)
        PROVE  /\ ByStatus(t, key) <= Total(t, key) + Cardinality(Threads \ {t})
               /\ UpTo(t, key, Len(Bounds)) <= Total(t, key) + Cardinality(Threads \ {t})
    <3>1. SkewInv(t) /\ Scraping(t) /\ parts[t] = {}
      BY <1>1, <2>1, WholePage DEF MetricsInv
    <3>2. page[t][Counter("count", key, 0)] # Unset
      BY <1>1, <2>1, OnThePage
    <3> QED
      BY <3>1, <3>2 DEF SkewInv
  <2> QED
    BY <2>1 DEF SkewBounded
<1> QED
  BY <1>1, MetricsInvariance, PTL

(***************************************************************************)
(* A scrape shows every route and no smaller number than any scrape that   *)
(* ended before it began (the counters of HttpMetrics and ShortLinkMetrics *)
(* are never reset).                                                       *)
(***************************************************************************)
THEOREM ScrapesGoForward == MetricsSpec => []ScrapesNeverGoBack
<1>1. ASSUME MetricsInv
      PROVE  ScrapesNeverGoBack
  <2>1. ASSUME NEW t \in Threads, HasPage(t), NEW c \in PageCounters, floor[t][c] # Unset
        PROVE  page[t][c] # Unset /\ floor[t][c] <= page[t][c]
    <3>1. PageInv(t) /\ Scraping(t) /\ parts[t] = {}
      BY <1>1, <2>1, WholePage DEF MetricsInv
    <3>2. c.field = "redirects" \/ c.key \in Listed(t)
      BY <2>1, <3>1 DEF PageInv
    <3>3. page[t][c] # Unset
      BY <1>1, <2>1, <3>2, WholePage
    <3> QED
      BY <2>1, <3>1, <3>3 DEF PageInv
  <2> QED
    BY <2>1 DEF ScrapesNeverGoBack
<1> QED
  BY <1>1, MetricsInvariance, PTL

(***************************************************************************)
(* A scrape during which no other request was handled is exact, for the    *)
(* routes (HttpMetrics) and for the redirects (ShortLinkMetrics).          *)
(***************************************************************************)
THEOREM QuietScrapes == MetricsSpec => []QuietScrapesAreExact
<1>1. ASSUME MetricsInv
      PROVE  QuietScrapesAreExact
  <2>1. ASSUME NEW t \in Threads, HasPage(t), alone[t]
        PROVE  /\ \A key \in Listed(t) :
                    /\ Total(t, key) = Completed(OfRoute(key))
                    /\ ByStatus(t, key) = Total(t, key)
                    /\ \A i \in 1..Len(Bounds) : UpTo(t, key, i) = Completed(Within(key, i))
               /\ \A result \in RedirectResults :
                    page[t][Counter("redirects", result, 0)] = Completed(WithResult(result))
    <3>1. /\ pc[t] = "find" /\ request[t].key = Scrape /\ Scraping(t)
          /\ \A u \in Threads \ {t} : pc[u] = "idle"
          /\ \A c \in PageCounters : page[t][c] # Unset => page[t][c] = Holding(c, routes)
          /\ completed \in [HttpRequests -> Nat] /\ IsFiniteSet(Units(completed))
      <4>1. pc[t] = "find" /\ request[t].key = Scrape /\ QuietInv(t) /\ Scraping(t)
        BY <1>1, <2>1, WholePage DEF MetricsInv, HasPage
      <4> QED
        BY <1>1, <2>1, <4>1 DEF QuietInv, MetricsInv, MetricsTypeOK
    <3>2. ASSUME NEW R \in SUBSET HttpRequests, NEW L, "idle" \notin L,
                 "find" \notin L \/ \A r \in R : r.key # Scrape
          PROVE  Reached(R, L) = Completed(R)
      <4>1. Underway(R, L) = {}
        <5>1. ASSUME NEW u \in Threads, pc[u] \in L, request[u] \in R
              PROVE  FALSE
          BY <3>1, <3>2, <5>1
        <5> QED
          BY <5>1 DEF Underway
      <4>2. Completed(R) \in Nat
        BY <3>1, CompletedType
      <4> QED
        BY <4>1, <4>2, FS_EmptySet DEF Reached
    <3>3. ASSUME NEW key \in Listed(t)
          PROVE  /\ Total(t, key) = Completed(OfRoute(key))
                 /\ ByStatus(t, key) = Total(t, key)
                 /\ \A i \in 1..Len(Bounds) : UpTo(t, key, i) = Completed(Within(key, i))
      <4>1. key \in Keys /\ routes[key] # Unset
        BY <1>1, <2>1, WholePage
      <4>2. PICK n : n = routes[key]
        OBVIOUS
      <4>3. SeriesInv(key) /\ MetricsTypeOK
        BY <1>1, <4>1 DEF MetricsInv
      <4>4. PICK s \in SeriesType : s = series[n]
        BY <4>1, <4>2, <4>3, SeriesAt
      <4>5. /\ s.count = Completed(OfRoute(key))
            /\ SumOf(s.status) = Reached(OfRoute(key), {"bucket", "duration", "count"})
            /\ \A i \in 1..Len(Bounds) :
                 SumOf([j \in 1..i |-> s.bucket[j]]) = Reached(Within(key, i), {"duration", "count"})
        BY <4>1, <4>2, <4>3, <4>4 DEF SeriesInv, BucketsUpTo
      <4>6. OfRoute(key) \in SUBSET HttpRequests
            /\ \A i \in 1..Len(Bounds) : Within(key, i) \in SUBSET HttpRequests
        BY DEF OfRoute, Within
      <4>7. /\ page[t][Counter("count", key, 0)] = s.count
            /\ \A class \in Classes : page[t][Counter("status", key, class)] = s.status[class]
            /\ \A i \in 1..Len(Bounds) : page[t][Counter("bucket", key, i)] = s.bucket[i]
        <5>1. /\ Holding(Counter("count", key, 0), routes) = s.count
              /\ \A class \in Classes : Holding(Counter("status", key, class), routes) = s.status[class]
              /\ \A i \in 1..Len(Bounds) : Holding(Counter("bucket", key, i), routes) = s.bucket[i]
          BY <4>2, <4>4 DEF Holding, Counter
        <5> QED
          BY <1>1, <2>1, <3>1, <5>1, OnThePage
      <4>8. Total(t, key) = Completed(OfRoute(key))
        BY <4>5, <4>7 DEF Total
      <4>9. ByStatus(t, key) = Total(t, key)
        <5>1. s.status = [class \in Classes |-> page[t][Counter("status", key, class)]]
          BY <4>7 DEF SeriesType
        <5>2. ByStatus(t, key) = SumOf(s.status)
          BY <5>1 DEF ByStatus
        <5>3. Reached(OfRoute(key), {"bucket", "duration", "count"}) = Completed(OfRoute(key))
          BY <3>2, <4>6
        <5> QED
          BY <4>5, <4>8, <5>2, <5>3
      <4>10. ASSUME NEW i \in 1..Len(Bounds)
             PROVE  UpTo(t, key, i) = Completed(Within(key, i))
        <5>1. 1..i \subseteq 1..Len(Bounds)
          BY BoundsType
        <5>2. [j \in 1..i |-> page[t][Counter("bucket", key, j)]] = [j \in 1..i |-> s.bucket[j]]
          BY <4>7, <5>1
        <5>3. Reached(Within(key, i), {"duration", "count"}) = Completed(Within(key, i))
          BY <3>2, <4>6
        <5> QED
          BY <4>5, <5>2, <5>3 DEF UpTo
      <4> QED
        BY <4>8, <4>9, <4>10
    <3>4. ASSUME NEW result \in RedirectResults
          PROVE  page[t][Counter("redirects", result, 0)] = Completed(WithResult(result))
      <4>1. /\ Counter("redirects", result, 0) \in PageCounters
            /\ Counter("redirects", result, 0).field = "redirects"
            /\ Counter("redirects", result, 0).key = result
        BY CounterFacts DEF Counter
      <4>2. page[t][Counter("redirects", result, 0)] = redirects[result]
        <5>1. page[t][Counter("redirects", result, 0)] # Unset
          BY <1>1, <2>1, <4>1, WholePage
        <5>2. Holding(Counter("redirects", result, 0), routes) = redirects[result]
          BY <4>1 DEF Holding
        <5> QED
          BY <3>1, <4>1, <5>1, <5>2
      <4>3. redirects[result] = Reached(WithResult(result), {"find", "register"} \cup Recording)
        BY <1>1 DEF MetricsInv, RedirectsInv
      <4>4. /\ WithResult(result) \in SUBSET HttpRequests
            /\ \A r \in WithResult(result) : r.key # Scrape
        BY RequestSets DEF WithResult, OfRoute
      <4>5. Reached(WithResult(result), {"find", "register"} \cup Recording) = Completed(WithResult(result))
        <5>1. "idle" \notin {"find", "register"} \cup Recording
          BY DEF Recording
        <5> QED
          BY <3>2, <4>4, <5>1
      <4> QED
        BY <4>2, <4>3, <4>5
    <3> QED
      BY <3>3, <3>4
  <2> QED
    BY <2>1 DEF QuietScrapesAreExact
<1> QED
  BY <1>1, MetricsInvariance, PTL

(***************************************************************************)
(* No step takes a series out of the routes or makes a counter smaller: a  *)
(* counter that Prometheus sees fall would count as a restart of the       *)
(* server.                                                                 *)
(***************************************************************************)
THEOREM CountersOnlyGrow == MetricsSpec => [][CountersGrow]_metricsVars
<1>1. ASSUME MetricsInv, [MetricsNext]_metricsVars
      PROVE  [CountersGrow]_metricsVars
  <2>1. CASE UNCHANGED metricsVars
    BY <2>1
  <2>2. CASE MetricsNext
    <3>1. PICK t \in Threads : Step(t)
      BY <2>2 DEF MetricsNext, Step
    <3>2. CountersInv /\ \A u \in Threads : ThreadInv(u)
      BY <1>1 DEF MetricsInv, CountersInv
    <3>3. CountersGrow
      BY <3>1, <3>2, StepKeepsCounters
    <3> QED
      BY <3>3
  <2> QED
    BY <1>1, <2>1, <2>2
<1> QED
  BY <1>1, MetricsInvariance, PTL DEF MetricsSpec
=============================================================================
