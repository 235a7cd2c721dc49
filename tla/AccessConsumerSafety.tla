------------------------ MODULE AccessConsumerSafety ------------------------
(***************************************************************************)
(* What the event consumers must guarantee, whatever fails and however     *)
(* many of them run.                                                       *)
(***************************************************************************)
EXTENDS AccessConsumer

Projection == INSTANCE AccessProjection
                WITH log <- log, committed <- committed, dlq <- dlq,
                     links <- links, receipts <- receipts,
                     totals <- totals, hourly <- hourly

Handled(p, o) == Projection!Handled(p, o)

-----------------------------------------------------------------------------
(* Every variable has its type.                                            *)
TypeOK ==
  /\ log \in [Partitions -> Seq(Messages)]
  /\ committed \in [Partitions -> Nat]
  /\ position \in [Partitions -> Nat]
  /\ members \in SUBSET Consumers
  /\ owner \in [Partitions -> Consumers \cup {None}]
  /\ dlq \in SUBSET DeadLetter
  /\ links \in SUBSET Codes
  /\ receipts \in [EventIds -> Receipt \cup {None}]
  /\ totals \in [TotalsKeys -> TotalsRow]
  /\ hourly \in [HourlyKeys -> Nat]
  /\ pc \in [Consumers -> Stages]
  /\ cur \in [Consumers -> Coordinates \cup {None}]
  /\ attempt \in [Consumers -> 0..MaxAttempts]
  /\ txn \in [Consumers -> Txn]
  /\ reason \in [Consumers -> DeadLetterReasons \cup {"none"}]
  /\ copies \in [Consumers -> 0..ProcessingMaxAttempts]
  /\ report \in [Consumers -> {"none", "ok", "error"}]
  /\ faults \in 0..MaxFaults

(***************************************************************************)
(* At-least-once: a committed offset promises that every message up to it  *)
(* is in the statistics tables or in the DLQ topic, so no crash, retry,    *)
(* rebalance or late commit ever skips a message (main.cpp commits after   *)
(* process or publishToDeadLetter returned, and exits when it cannot).     *)
(***************************************************************************)
CommittedIsHandled ==
  \A p \in Partitions : \A o \in 1..committed[p] : Handled(p, o)

(* The events whose receipts say "aggregated" and that the row key counts. *)
Aggregated(Matches(_)) ==
  {e \in EventIds : /\ receipts[e] # None
                    /\ receipts[e].disposition = "aggregated"
                    /\ Matches(MessageAt(receipts[e].source))}

(***************************************************************************)
(* Effectively once: an audit of the receipts gives exactly the statistics *)
(* rows: the count, and the first and last access of every (link, result), *)
(* and the count of every (link, hour, result), however often an event was *)
(* delivered, retried, or committed with a lost reply.                     *)
(***************************************************************************)
StatisticsMatchReceipts ==
  /\ \A k \in TotalsKeys :
       LET counted == Aggregated(LAMBDA m : TotalsKey(m) = k)
           times == {MessageAt(receipts[e].source).at : e \in counted}
       IN  /\ totals[k].count = Cardinality(counted)
           /\ counted # {} => /\ totals[k].first \in times
                              /\ totals[k].last \in times
                              /\ \A t \in times : /\ totals[k].first <= t
                                                  /\ t <= totals[k].last
  /\ \A k \in HourlyKeys :
       hourly[k] = Cardinality(Aggregated(LAMBDA m : HourlyKey(m) = k))

(***************************************************************************)
(* The DLQ takes messages that can never be recorded and nothing else: an  *)
(* infrastructure fault never turns an event into a dead letter.           *)
(***************************************************************************)
DeadLettersAreDefects ==
  \A d \in dlq :
    /\ d.source.offset \in 1..Len(log[d.source.partition])
    /\ Projection!MayBury(MessageAt(d.source), d.reason)

(***************************************************************************)
(* With one consumer the committed offset only moves by one message at a   *)
(* time, or back, by an operator while no consumer runs.                   *)
(***************************************************************************)
CommitsInOrder ==
  [][\A p \in Partitions :
       \/ committed'[p] \in {committed[p], committed[p] + 1}
       \/ /\ \A c \in Consumers : pc[c] = "down"
          /\ committed'[p] < committed[p]]_committed

(* The consumers implement the abstract projection.                        *)
ImplementsProjection == Projection!Spec

-----------------------------------------------------------------------------
(***************************************************************************)
(* A message in the log is eventually recorded or a dead letter, once the  *)
(* faults are over: retry, exit and restart never end in a livelock.       *)
(***************************************************************************)
EventuallyHandled ==
  \A p \in Partitions : \A o \in 1..MaxLog :
    (o <= Len(log[p])) ~> (o <= Len(log[p]) /\ Handled(p, o))

(***************************************************************************)
(* A lone consumer catches up for good: the lag goes to zero and stays.    *)
(***************************************************************************)
EventuallyCaughtUp ==
  <>[](\A p \in Partitions : committed[p] = Len(log[p]))

-----------------------------------------------------------------------------
(***************************************************************************)
(* The inductive strengthening of the safety invariants.  ConsumerInv says *)
(* what a process knows about the message in its hand at every stage, and  *)
(* that everything before that message is handled; PositionInv that what   *)
(* a live owner has read ahead of the committed offset is handled or is    *)
(* the one message in its hand.                                            *)
(***************************************************************************)
AttemptLimit(c) ==
  IF pc[c] = "commit_offset" THEN OffsetCommitMaxAttempts
                             ELSE ProcessingMaxAttempts

HandInv(c) ==
  Busy(c) => /\ cur[c] \in Coordinates
             /\ cur[c].offset <= Len(log[cur[c].partition])
             /\ attempt[c] \in 1..AttemptLimit(c)
             /\ \A i \in 1..(cur[c].offset - 1) : Handled(cur[c].partition, i)

TxnInv(c) ==
  /\ pc[c] \in TxnStages => ContractDefect(InHand(c)) = "none"
  /\ pc[c] = "insert" => txn[c].receipt = "absent"
  /\ pc[c] = "ignore" => InHand(c).result = "not_found"
  /\ pc[c] \in {"find", "totals", "hourly", "mark"} =>
       InHand(c).result # "not_found"
  /\ pc[c] = "commit_txn" =>
       \/ txn[c].receipt = FinalDisposition(InHand(c))
       \/ txn[c].receipt = "absent" /\ receipts[InHand(c).id] # None

DlqInv(c) ==
  /\ pc[c] \in DlqStages => Projection!MayBury(InHand(c), reason[c])
  /\ pc[c] = "flush" => copies[c] <= attempt[c]
  /\ pc[c] = "publish" => copies[c] < attempt[c]
  /\ pc[c] \notin DlqStages => copies[c] = 0
  /\ pc[c] = "flush" /\ report[c] = "ok" =>
       Handled(cur[c].partition, cur[c].offset)

ConsumerInv(c) ==
  /\ HandInv(c)
  /\ TxnInv(c)
  /\ DlqInv(c)
  /\ pc[c] = "commit_offset" => Handled(cur[c].partition, cur[c].offset)

PositionInv(p) ==
  owner[p] # None /\ pc[owner[p]] # "down" =>
    /\ position[p] <= Len(log[p])
    /\ \A i \in 1..position[p] :
         \/ Handled(p, i)
         \/ Busy(owner[p]) /\ cur[owner[p]] = [partition |-> p, offset |-> i]

CommittedInv(p) ==
  /\ committed[p] <= Len(log[p])
  /\ \A o \in 1..committed[p] : Handled(p, o)

Inv ==
  /\ TypeOK
  /\ \A c \in Consumers : ConsumerInv(c)
  /\ \A p \in Partitions : PositionInv(p) /\ CommittedInv(p)

-----------------------------------------------------------------------------
(***************************************************************************)
(* What the refinement needs beyond Inv.  WritesInv says what an open      *)
(* transaction has written at each stage.  While it holds the lock of its  *)
(* receipt, the event has no committed receipt, no other transaction holds *)
(* one of the same event, and the link it counts for is there.             *)
(***************************************************************************)
OpenStages == {"ignore", "find", "totals", "hourly", "mark"}
HoldsReceipt(c) == txn[c].receipt # "absent"

Written(receipt, inTotals, inHourly) ==
  [receipt |-> receipt, totals |-> inTotals, hourly |-> inHourly]

WritesInv(c) ==
  /\ pc[c] \notin OpenStages \cup {"commit_txn"} => txn[c] = NoTxn
  /\ pc[c] \in {"ignore", "find", "totals"} =>
       txn[c] = Written("received", FALSE, FALSE)
  /\ pc[c] = "hourly" => txn[c] = Written("received", TRUE, FALSE)
  /\ pc[c] = "mark" => txn[c] = Written("received", TRUE, TRUE)
  /\ pc[c] = "commit_txn" =>
       \/ txn[c] = NoTxn
       \/ /\ InHand(c).result = "not_found"
          /\ txn[c] = Written("not_found_ignored", FALSE, FALSE)
       \/ /\ InHand(c).result # "not_found"
          /\ txn[c] = Written("aggregated", TRUE, TRUE)

LockInv(c) ==
  HoldsReceipt(c) =>
    /\ receipts[InHand(c).id] = None
    /\ \A d \in Consumers \ {c} :
         HoldsReceipt(d) => InHand(d).id # InHand(c).id

LinkInv(c) ==
  pc[c] \in {"totals", "hourly", "mark"} \/ txn[c].totals =>
    InHand(c).code \in links

RecordInv == \A c \in Consumers : WritesInv(c) /\ LockInv(c) /\ LinkInv(c)

(***************************************************************************)
(* What the audit needs: finitely many events have a receipt, and each     *)
(* receipt names a message of the log.                                     *)
(***************************************************************************)
Recorded == {e \in EventIds : receipts[e] # None}

SourcesInv ==
  /\ IsFiniteSet(Recorded)
  /\ \A e \in Recorded :
       receipts[e].source.offset <= Len(log[receipts[e].source.partition])

(***************************************************************************)
(* A lone consumer reads on from the committed offset or, when it was      *)
(* dropped and rejoined with a message in hand, from the one before it.    *)
(***************************************************************************)
ReadsOn(c, p) ==
  IF Busy(c) /\ cur[c].partition = p
  THEN /\ committed[p] \in {cur[c].offset - 1, cur[c].offset}
       /\ owner[p] = c => position[p] \in {cur[c].offset - 1, cur[c].offset}
  ELSE owner[p] = c => position[p] \in {committed[p] - 1, committed[p]}

LoneInv ==
  \A c \in Consumers : pc[c] # "down" => \A p \in Partitions : ReadsOn(c, p)
=============================================================================
