---------------------------- MODULE AccessEvents ----------------------------
(***************************************************************************)
(* What the event consumer knows about one Kafka message and what one      *)
(* event does to the statistics tables: the contract checks that send a    *)
(* message to the dead-letter topic, the aggregated results, the UTC hour  *)
(* bucket and the two UPSERT statements.  Pure definitions, shared by the  *)
(* consumer and by the abstract projection it implements.                  *)
(***************************************************************************)
EXTENDS Integers, FiniteSets

CONSTANTS
  Codes,     \* short codes that occur in keys and payloads
  EventIds,  \* values of event_id
  Messages,  \* the Kafka messages the access-event topic may carry
  None       \* "no row", "no owner", "no message in hand"

(***************************************************************************)
(* The first defect a payload shows, in the order the parser looks for it; *)
(* "event" is a payload that passes every check.                           *)
(***************************************************************************)
Shapes == {"not_json", "no_object", "no_schema", "other_schema", "no_type",
           "other_type", "bad_fields", "event"}

AggregatedResults == {"success", "disabled", "expired", "error"}
Results == AggregatedResults \cup {"not_found"}

(* The value columns of a message that is no event are never looked at.    *)
MessageType == [shape : Shapes, key : Codes, code : Codes, id : EventIds,
                result : Results, at : Nat \ {0}]

ASSUME MessagesAssumption == Messages \subseteq MessageType

(***************************************************************************)
(* parseAccessEventDetailed: the error of a payload, "none" when it parses *)
(***************************************************************************)
ParseError(m) ==
  CASE m.shape = "event"        -> "none"
    [] m.shape = "not_json"     -> "invalid_json"
    [] m.shape = "other_schema" -> "unsupported_schema"
    [] m.shape = "other_type"   -> "unsupported_event_type"
    [] OTHER                    -> "invalid_contract"

(* The reason handleMessage rejects a message before it reaches MySQL.     *)
ContractDefect(m) ==
  IF ParseError(m) # "none" THEN ParseError(m)
  ELSE IF m.key # m.code THEN "key_code_mismatch" ELSE "none"

ContractReasons == {"invalid_json", "unsupported_schema",
                    "unsupported_event_type", "invalid_contract",
                    "key_code_mismatch"}
DeadLetterReasons == ContractReasons \cup {"orphan_short_link"}

(* Seconds since the epoch at the start of the event's UTC hour.           *)
HourBucket(at) == LET seconds == at \div 1000 IN seconds - (seconds % 3600)

Buckets == {HourBucket(m.at) : m \in Messages}

-----------------------------------------------------------------------------
(***************************************************************************)
(* short_link_access_totals, keyed by (link, result), and                  *)
(* short_link_access_hourly, keyed by (link, bucket, result).  A link is   *)
(* named by its code, which is unique; a row with count 0 does not exist.  *)
(***************************************************************************)
TotalsRow == [count : Nat, first : Nat, last : Nat]
NoTotals  == [count |-> 0, first |-> 0, last |-> 0]

TotalsKeys == Codes \X AggregatedResults
HourlyKeys == Codes \X Buckets \X AggregatedResults

TotalsKey(m) == <<m.code, m.result>>
HourlyKey(m) == <<m.code, HourBucket(m.at), m.result>>

Lesser(a, b)  == IF a <= b THEN a ELSE b
Greater(a, b) == IF a <= b THEN b ELSE a

(* Slip: the first event to arrive is taken for the first event.           *)
UpsertedTotalsKeepingFirst(totals, m) ==
  LET row == totals[TotalsKey(m)]
  IN  [totals EXCEPT ![TotalsKey(m)] =
         IF row.count = 0
         THEN [count |-> 1, first |-> m.at, last |-> m.at]
         ELSE [row EXCEPT !.count = @ + 1, !.last = Greater(@, m.at)]]

(* Slip: the last event to arrive is taken for the last event.             *)
UpsertedTotalsKeepingArrival(totals, m) ==
  LET row == totals[TotalsKey(m)]
  IN  [totals EXCEPT ![TotalsKey(m)] =
         IF row.count = 0
         THEN [count |-> 1, first |-> m.at, last |-> m.at]
         ELSE [count |-> row.count + 1,
               first |-> Lesser(row.first, m.at), last |-> m.at]]

(* INSERT ... ON DUPLICATE KEY UPDATE on the totals row of an event.       *)
UpsertedTotals(totals, m) ==
  LET row == totals[TotalsKey(m)]
  IN  [totals EXCEPT ![TotalsKey(m)] =
         IF row.count = 0
         THEN [count |-> 1, first |-> m.at, last |-> m.at]
         ELSE [count |-> row.count + 1,
               first |-> Lesser(row.first, m.at),
               last  |-> Greater(row.last, m.at)]]

(* INSERT ... ON DUPLICATE KEY UPDATE on the hourly row of an event.       *)
UpsertedHourly(hourly, m) ==
  [hourly EXCEPT ![HourlyKey(m)] = @ + 1]

(***************************************************************************)
(* processed_access_events: one receipt per event_id.                      *)
(***************************************************************************)
Dispositions == {"received", "aggregated", "not_found_ignored"}

(* The disposition with which the writer leaves the receipt of an event.   *)
FinalDisposition(m) ==
  IF m.result = "not_found" THEN "not_found_ignored" ELSE "aggregated"
=============================================================================
