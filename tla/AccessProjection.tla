-------------------------- MODULE AccessProjection --------------------------
(***************************************************************************)
(* What the statistics pipeline promises, without processes, transactions, *)
(* retries or group membership: each event is recorded at most once and as *)
(* a whole, a message that cannot be recorded becomes a dead letter, and   *)
(* an offset is committed only when every message up to it is dealt with.  *)
(***************************************************************************)
EXTENDS AccessEvents, Sequences

CONSTANT Partitions

VARIABLES
  log,        \* log[p]: the messages of partition p
  committed,  \* committed[p]: how many of them the group has committed
  dlq,        \* dead letters: where the message came from, and why
  links,      \* codes of existing short links
  receipts,   \* event_id -> receipt, or None
  totals,     \* (link, result) -> count, first and last access
  hourly      \* (link, bucket, result) -> count

vars == <<log, committed, dlq, links, receipts, totals, hourly>>

Init ==
  /\ log = [p \in Partitions |-> <<>>]
  /\ committed = [p \in Partitions |-> 0]
  /\ dlq = {}
  /\ links \in SUBSET Codes
  /\ receipts = [e \in EventIds |-> None]
  /\ totals = [k \in TotalsKeys |-> NoTotals]
  /\ hourly = [k \in HourlyKeys |-> 0]

Source(p, o) == [partition |-> p, offset |-> o]

(* The message at offset o of p has its lasting effect.                    *)
Handled(p, o) ==
  \/ \E d \in dlq : d.source = Source(p, o)
  \/ /\ ContractDefect(log[p][o]) = "none"
     /\ receipts[log[p][o].id] # None

Produce(p, m) ==
  /\ log' = [log EXCEPT ![p] = Append(@, m)]
  /\ UNCHANGED <<committed, dlq, links, receipts, totals, hourly>>

CreateLink(code) ==
  /\ links' = links \cup {code}
  /\ UNCHANGED <<log, committed, dlq, receipts, totals, hourly>>

(* One event, once: its receipt and both statistics rows together.         *)
Record(p, o) ==
  LET m == log[p][o]
  IN  /\ ContractDefect(m) = "none"
      /\ receipts[m.id] = None
      /\ receipts' = [receipts EXCEPT ![m.id] =
                        [disposition |-> FinalDisposition(m),
                         source |-> Source(p, o)]]
      /\ IF m.result = "not_found"
         THEN UNCHANGED <<totals, hourly>>
         ELSE /\ m.code \in links
              /\ totals' = UpsertedTotals(totals, m)
              /\ hourly' = UpsertedHourly(hourly, m)
      /\ UNCHANGED <<log, committed, dlq, links>>

(* Why a message may be a dead letter; no infrastructure fault is one.     *)
MayBury(m, why) ==
  IF ContractDefect(m) # "none"
  THEN why = ContractDefect(m)
  ELSE m.result # "not_found" /\ why = "orphan_short_link"

Bury(p, o, why) ==
  /\ MayBury(log[p][o], why)
  /\ dlq' = dlq \cup {[source |-> Source(p, o), reason |-> why]}
  /\ UNCHANGED <<log, committed, links, receipts, totals, hourly>>

Commit(p, o) ==
  /\ \A i \in 1..o : Handled(p, i)
  /\ committed' = [committed EXCEPT ![p] = o]
  /\ UNCHANGED <<log, dlq, links, receipts, totals, hourly>>

Next ==
  \/ \E p \in Partitions, m \in Messages : Produce(p, m)
  \/ \E code \in Codes : CreateLink(code)
  \/ \E p \in Partitions : \E o \in 1..Len(log[p]) :
       Record(p, o) \/ \E why \in DeadLetterReasons : Bury(p, o, why)
  \/ \E p \in Partitions : \E o \in 0..Len(log[p]) : Commit(p, o)

Spec == Init /\ [][Next]_vars
=============================================================================
