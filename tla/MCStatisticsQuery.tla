------------------------- MODULE MCStatisticsQuery -------------------------
(* A small instance of the statistics query for TLC.  Day 0 is the epoch;  *)
(* times are small because TLC computes with 32 bits.                      *)
EXTENDS StatisticsQuery, TLC

Day(n) == n * 86400

Visit(event, outcome, time) ==
  [shape |-> "event", key |-> "a", code |-> "a", id |-> event,
   result |-> outcome, at |-> time]

(* A failed visit that an open query does not reach any more, and visits   *)
(* before and at a midnight, which no partition holds in this order.       *)
Old      == Visit("e1", "error", Day(2) * 1000 + 1)
Evening  == Visit("e2", "success", Day(9) * 1000 - 1)
Midnight == Visit("e3", "success", Day(9) * 1000)
Later    == Visit("e4", "error", (Day(9) + 3600) * 1000)

SomeVisits == {Old, Evening, Midnight, Later}
TwoPartitions == [p \in Partitions |->
                    IF p = CHOOSE q \in Partitions : TRUE
                    THEN <<Midnight, Old>> ELSE <<Later, Evening>>]

Owned == [code \in Codes |-> CHOOSE user \in Users : TRUE]

Query(i, f, t) == [interval |-> i, from |-> f, to |-> t]

(* Open queries, aligned windows that cut the visits in two, the longest   *)
(* window of days and one a bucket too long, and two kinds of nonsense.    *)
SomeInputs == {Query("", None, None),
               Query("hour", Day(9) - 3600, Day(9) + 3600),
               Query("day", Day(8), Day(9)),
               Query("day", 0, Day(366)),
               Query("hour", 0, Day(31) + 3600),
               Query("week", None, None),
               Query("hour", Garbled, None)}

SomeTimes == {Day(9) - 1, Day(9), Day(9) + 3600}

RequestSymmetry == Permutations(Requests)
=============================================================================
