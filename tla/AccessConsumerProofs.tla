------------------------ MODULE AccessConsumerProofs ------------------------
(***************************************************************************)
(* Proofs about the event consumers, for every number of processes and     *)
(* partitions, every set of messages and every bound.                      *)
(***************************************************************************)
EXTENDS AccessConsumerSafety, FiniteSetTheorems, TLAPS

USE DEF kafkaVars, groupVars, tableVars, processVars, OutsideTxn

-----------------------------------------------------------------------------
(* Facts about the constants that every proof below needs.                 *)
LEMMA Limits ==
  /\ MaxAttempts \in Nat \ {0}
  /\ ProcessingMaxAttempts <= MaxAttempts
  /\ OffsetCommitMaxAttempts <= MaxAttempts
BY ConsumerAssumption DEF MaxAttempts, Greater

LEMMA MessageFields ==
  ASSUME NEW m \in Messages
  PROVE  /\ m.code \in Codes /\ m.key \in Codes /\ m.id \in EventIds
         /\ m.result \in Results /\ m.at \in Nat \ {0}
         /\ ContractDefect(m) \in ContractReasons \cup {"none"}
BY MessagesAssumption
   DEF MessageType, ContractDefect, ParseError, ContractReasons

(* The two UPSERT statements keep the tables well-typed.                   *)
LEMMA UpsertTypes ==
  ASSUME NEW t \in [TotalsKeys -> TotalsRow], NEW h \in [HourlyKeys -> Nat],
         NEW m \in Messages
  PROVE  /\ UpsertedTotals(t, m) \in [TotalsKeys -> TotalsRow]
         /\ UpsertedHourly(h, m) \in [HourlyKeys -> Nat]
<1>1. UpsertedHourly(h, m) \in [HourlyKeys -> Nat]
  <2> DEFINE k == HourlyKey(m)
  <2>1. CASE k \in HourlyKeys
    <3>1. h[k] + 1 \in Nat
      BY <2>1
    <3> QED
      BY <2>1, <3>1 DEF UpsertedHourly
  <2>2. CASE k \notin HourlyKeys
    BY <2>2 DEF UpsertedHourly
  <2> QED
    BY <2>1, <2>2
<1>2. UpsertedTotals(t, m) \in [TotalsKeys -> TotalsRow]
  <2>1. CASE TotalsKey(m) \in TotalsKeys
    <3> DEFINE row == t[TotalsKey(m)]
    <3>1. row \in TotalsRow
      BY <2>1
    <3>2. m.at \in Nat
      BY MessageFields
    <3>3. [count |-> row.count + 1, first |-> Lesser(row.first, m.at),
           last |-> Greater(row.last, m.at)] \in TotalsRow
      BY <3>1, <3>2 DEF TotalsRow, Lesser, Greater
    <3>4. [count |-> 1, first |-> m.at, last |-> m.at] \in TotalsRow
      BY <3>2 DEF TotalsRow
    <3> QED
      BY <3>3, <3>4 DEF UpsertedTotals
  <2>2. CASE TotalsKey(m) \notin TotalsKeys
    BY <2>2 DEF UpsertedTotals
  <2> QED
    BY <2>1, <2>2
<1> QED
  BY <1>1, <1>2

-----------------------------------------------------------------------------
(***************************************************************************)
(* What no step takes back: messages, dead letters and receipts.  Handled  *)
(* therefore never turns false.                                            *)
(***************************************************************************)
Grows ==
  /\ \A p \in Partitions :
       /\ Len(log[p]) <= Len(log'[p])
       /\ \A i \in 1..Len(log[p]) : log'[p][i] = log[p][i]
  /\ dlq \subseteq dlq'
  /\ \A e \in EventIds : receipts[e] # None => receipts'[e] # None

LEMMA LogEntry ==
  ASSUME TypeOK, NEW p \in Partitions, NEW o \in 1..Len(log[p])
  PROVE  log[p][o] \in Messages
BY DEF TypeOK

LEMMA HandledStays ==
  ASSUME TypeOK, Grows, NEW p \in Partitions, NEW o \in 1..Len(log[p]),
         Handled(p, o)
  PROVE  Handled(p, o)'
<1>1. log'[p][o] = log[p][o]
  BY DEF Grows
<1>2. log[p][o].id \in EventIds
  BY LogEntry, MessageFields
<1> QED
  BY <1>1, <1>2 DEF Grows, Handled, Projection!Handled

(* A step of one process leaves the memory of the others alone.            *)
SameMemory(d) ==
  /\ pc'[d] = pc[d] /\ cur'[d] = cur[d] /\ attempt'[d] = attempt[d]
  /\ txn'[d] = txn[d] /\ reason'[d] = reason[d]
  /\ copies'[d] = copies[d] /\ report'[d] = report[d]

(* A process that keeps its message keeps what it knows about the log.     *)
LEMMA HandInvStays ==
  ASSUME TypeOK, Grows, NEW c \in Consumers, Busy(c), HandInv(c),
         cur'[c] = cur[c], attempt'[c] \in 1..AttemptLimit(c)'
  PROVE  /\ HandInv(c)'
         /\ InHand(c)' = InHand(c) /\ InHand(c) \in Messages
         /\ InHand(c).id \in EventIds
         /\ Handled(cur[c].partition, cur[c].offset)
              => Handled(cur[c].partition, cur[c].offset)'
<1>1. PICK p \in Partitions, o \in Nat \ {0} :
        cur[c] = [partition |-> p, offset |-> o]
  BY DEF HandInv, Coordinates
<1>2. /\ cur[c].partition = p /\ cur[c].offset = o
      /\ cur'[c].partition = p /\ cur'[c].offset = o
  BY <1>1
<1>3. o \in 1..Len(log[p]) /\ Len(log[p]) \in Nat /\ o <= Len(log'[p])
  BY <1>2 DEF HandInv, TypeOK, Grows
<1>4. InHand(c)' = InHand(c) /\ InHand(c) \in Messages
  BY <1>2, <1>3, LogEntry DEF Grows, InHand, MessageAt
<1>5. InHand(c).id \in EventIds
  BY <1>4, MessageFields
<1>6. ASSUME NEW i \in 1..(o - 1) PROVE Handled(p, i)'
  <2>1. Handled(p, i)
    BY <1>2 DEF HandInv
  <2>2. i \in 1..Len(log[p])
    BY <1>3
  <2> QED
    BY <2>1, <2>2, HandledStays
<1>7. HandInv(c)'
  BY <1>1, <1>2, <1>3, <1>6 DEF HandInv, Coordinates
<1>8. Handled(p, o) => Handled(p, o)'
  BY <1>3, HandledStays
<1> QED
  BY <1>2, <1>4, <1>5, <1>7, <1>8

LEMMA ConsumerInvStays ==
  ASSUME TypeOK, Grows, NEW d \in Consumers, ConsumerInv(d), SameMemory(d)
  PROVE  ConsumerInv(d)'
<1>1. CASE ~ Busy(d)
  BY <1>1 DEF ConsumerInv, HandInv, TxnInv, DlqInv, SameMemory, Busy, TxnStages,
     DlqStages
<1>2. CASE Busy(d)
  <2>1. attempt'[d] \in 1..AttemptLimit(d)'
    BY <1>2 DEF ConsumerInv, HandInv, SameMemory, AttemptLimit
  <2>2. /\ HandInv(d)'
        /\ InHand(d)' = InHand(d) /\ InHand(d) \in Messages
        /\ InHand(d).id \in EventIds
        /\ Handled(cur[d].partition, cur[d].offset)
             => Handled(cur[d].partition, cur[d].offset)'
    BY <1>2, <2>1, HandInvStays DEF ConsumerInv, SameMemory
  <2>3. TxnInv(d)'
    BY <2>2 DEF ConsumerInv, TxnInv, SameMemory, Grows
  <2>4. DlqInv(d)'
    BY <2>2
    DEF ConsumerInv, DlqInv, SameMemory, Projection!MayBury,
        Projection!ContractDefect, Projection!ParseError, ContractDefect, ParseError
  <2> QED
    BY <2>2, <2>3, <2>4 DEF ConsumerInv, SameMemory
<1> QED
  BY <1>1, <1>2

(***************************************************************************)
(* A step that neither deals out a partition nor reads a message keeps     *)
(* PositionInv, unless a live owner drops an unhandled message.            *)
(***************************************************************************)
OwnerKeeps(c) ==
  \/ pc'[c] = "down"
  \/ /\ pc[c] # "down"
     /\ Busy(c) => \/ Busy(c)' /\ cur'[c] = cur[c]
                   \/ Handled(cur[c].partition, cur[c].offset)

LEMMA PositionInvStays ==
  ASSUME TypeOK, Grows, NEW p \in Partitions, PositionInv(p),
         position'[p] = position[p], owner'[p] \in {None, owner[p]},
         owner'[p] # None => OwnerKeeps(owner[p])
  PROVE  PositionInv(p)'
<1> SUFFICES ASSUME owner'[p] # None, pc'[owner'[p]] # "down"
             PROVE  /\ position'[p] <= Len(log'[p])
                    /\ \A i \in 1..position[p] :
                         \/ Handled(p, i)'
                         \/ /\ Busy(owner[p])'
                            /\ cur'[owner[p]] = [partition |-> p, offset |-> i]
  BY DEF PositionInv
<1>1. PICK c \in Consumers : c = owner[p] /\ c = owner'[p]
  BY DEF TypeOK
<1>2. /\ pc[c] # "down" /\ pc'[c] # "down"
      /\ Busy(c) => \/ Busy(c)' /\ cur'[c] = cur[c]
                    \/ Handled(cur[c].partition, cur[c].offset)
  BY <1>1 DEF OwnerKeeps
<1>3. position[p] <= Len(log[p]) /\ position[p] \in Nat /\ Len(log[p]) \in Nat
  BY <1>1, <1>2 DEF PositionInv, TypeOK
<1>4. position'[p] <= Len(log'[p])
  BY <1>3, <1>1, <1>2 DEF Grows, TypeOK, PositionInv
<1>5. ASSUME NEW i \in 1..position[p]
      PROVE  \/ Handled(p, i)'
             \/ Busy(c)' /\ cur'[c] = [partition |-> p, offset |-> i]
  <2>1. i \in 1..Len(log[p])
    BY <1>3
  <2>2. Handled(p, i) \/ (Busy(c) /\ cur[c] = [partition |-> p, offset |-> i])
    BY <1>1, <1>2 DEF PositionInv
  <2>3. \/ Handled(p, i)
        \/ Busy(c)' /\ cur'[c] = [partition |-> p, offset |-> i]
    BY <1>2, <2>2
  <2> QED
    BY <2>1, <2>3, HandledStays
<1>6. Busy(c)' <=> Busy(owner[p])'
  BY <1>1 DEF Busy
<1> QED
  BY <1>1, <1>4, <1>5, <1>6

LEMMA CommittedInvStays ==
  ASSUME TypeOK, Grows, NEW p \in Partitions, CommittedInv(p),
         committed'[p] \in 0..committed[p]
  PROVE  CommittedInv(p)'
<1>1. /\ committed[p] \in Nat /\ Len(log[p]) \in Nat
      /\ committed[p] <= Len(log[p]) /\ Len(log[p]) <= Len(log'[p])
  BY DEF TypeOK, CommittedInv, Grows
<1>2. ASSUME NEW o \in 1..committed'[p]
      PROVE  Handled(p, o)'
  <2>1. o \in 1..Len(log[p]) /\ o \in 1..committed[p]
    BY <1>1
  <2>2. Handled(p, o)
    BY <2>1 DEF CommittedInv
  <2> QED
    BY <2>1, <2>2, HandledStays
<1>3. committed'[p] <= Len(log'[p])
  BY <1>1
<1> QED
  BY <1>2, <1>3 DEF CommittedInv

(***************************************************************************)
(* The frame of a step of consumer c that reads no message: it is enough   *)
(* to look at c itself and at the committed offsets.                       *)
(***************************************************************************)
LEMMA ConsumerStep ==
  ASSUME NEW c \in Consumers, Inv, TypeOK', Grows,
         \A d \in Consumers \ {c} : SameMemory(d),
         ConsumerInv(c)', OwnerKeeps(c),
         \A p \in Partitions : CommittedInv(p)',
         position' = position,
         \A p \in Partitions : owner'[p] \in {None, owner[p]}
  PROVE  Inv'
<1>1. \A d \in Consumers : ConsumerInv(d)'
  <2> TAKE d \in Consumers
  <2>1. CASE d = c
    BY <2>1
  <2>2. CASE d # c
    BY <2>2, ConsumerInvStays DEF Inv
  <2> QED
    BY <2>1, <2>2
<1>2. ASSUME NEW p \in Partitions PROVE PositionInv(p)'
  <2>1. owner'[p] # None => OwnerKeeps(owner[p])
    <3> SUFFICES ASSUME owner'[p] # None PROVE OwnerKeeps(owner[p])
      OBVIOUS
    <3>1. owner[p] \in Consumers
      BY DEF Inv, TypeOK
    <3>2. CASE owner[p] = c
      BY <3>2 DEF OwnerKeeps, Busy
    <3>3. CASE owner[p] # c
      BY <3>1, <3>3 DEF OwnerKeeps, SameMemory, Busy
    <3> QED
      BY <3>2, <3>3
  <2> QED
    BY <2>1, PositionInvStays DEF Inv
<1> QED
  BY <1>1, <1>2 DEF Inv

LEMMA CommittedSame ==
  ASSUME Inv, Grows, committed' = committed
  PROVE  \A p \in Partitions : CommittedInv(p)'
<1> TAKE p \in Partitions
<1>1. committed'[p] \in 0..committed[p]
  BY DEF Inv, TypeOK
<1> QED
  BY <1>1, CommittedInvStays DEF Inv

(* Committing the handled message in hand keeps CommittedInv.              *)
LEMMA CommittedMoved ==
  ASSUME NEW c \in Consumers, Inv, Grows, pc[c] = "commit_offset",
         OffsetCommitted(c)
  PROVE  /\ \A p \in Partitions : CommittedInv(p)'
         /\ committed' \in [Partitions -> Nat]
<1>1. PICK q \in Partitions, o \in Nat \ {0} :
        cur[c] = [partition |-> q, offset |-> o]
  BY DEF Inv, ConsumerInv, HandInv, Coordinates, Busy
<1>2. cur[c].partition = q /\ cur[c].offset = o
  BY <1>1
<1>3. committed' = [committed EXCEPT ![q] = o]
  BY <1>2 DEF OffsetCommitted
<1>4. committed' \in [Partitions -> Nat]
  BY <1>3 DEF Inv, TypeOK
<1>5. ASSUME NEW p \in Partitions PROVE CommittedInv(p)'
  <2>1. CASE p # q
    <3>1. committed'[p] \in 0..committed[p]
      BY <1>3, <2>1 DEF Inv, TypeOK
    <3> QED
      BY <3>1, CommittedInvStays DEF Inv
  <2>2. CASE p = q
    <3>1. committed'[p] = o
      BY <1>3, <2>2 DEF Inv, TypeOK
    <3>2. /\ Len(log[p]) \in Nat /\ Len(log[p]) <= Len(log'[p])
      BY DEF Inv, TypeOK, Grows
    <3>5. ConsumerInv(c) /\ Busy(c)
      BY DEF Inv, Busy
    <3>6. /\ o <= Len(log[p])
          /\ \A i \in 1..(o - 1) : Handled(p, i)
          /\ Handled(p, o)
      BY <1>2, <2>2, <3>5 DEF ConsumerInv, HandInv
    <3>3. ASSUME NEW i \in 1..o PROVE Handled(p, i)'
      <4>1. Handled(p, i) /\ i \in 1..Len(log[p])
        BY <3>2, <3>6
      <4> QED
        BY <4>1, HandledStays DEF Inv
    <3>4. o <= Len(log'[p])
      BY <3>2, <3>6, <1>4, <3>1
    <3> QED
      BY <3>1, <3>3, <3>4 DEF CommittedInv
  <2> QED
    BY <2>1, <2>2
<1> QED
  BY <1>4, <1>5

-----------------------------------------------------------------------------
LEMMA StartTransactionInv ==
  ASSUME NEW c \in Consumers, Inv, StartTransaction(c)
  PROVE  Inv'
<1> USE DEF StartTransaction, Goto
<1>1. TypeOK'
  BY DEF Inv, TypeOK, Stages, TxnStages, DlqStages, NoTxn, Txn
<1>2. Grows
  BY DEF Grows
<1>3. attempt'[c] \in 1..AttemptLimit(c)'
  BY DEF Inv, ConsumerInv, HandInv, AttemptLimit, Busy, TypeOK
<1>4. ConsumerInv(c)'
  BY <1>2, <1>3, HandInvStays
  DEF Inv, TypeOK, ConsumerInv, TxnInv, DlqInv, Busy, NoTxn, TxnStages, DlqStages
<1> QED
  BY <1>1, <1>2, <1>4, ConsumerStep, CommittedSame
  DEF Inv, TypeOK, SameMemory, OwnerKeeps, Busy

LEMMA InsertReceiptInv ==
  ASSUME NEW c \in Consumers, Inv, InsertReceipt(c)
  PROVE  Inv'
<1> USE DEF InsertReceipt, Goto
<1>1. TypeOK'
  <2>1. pc' \in [Consumers -> Stages]
    BY DEF Inv, TypeOK, Stages, TxnStages
  <2>2. txn' \in [Consumers -> Txn]
    <3>1. CASE receipts[InHand(c).id] # None
      BY <3>1 DEF Inv, TypeOK
    <3>2. CASE receipts[InHand(c).id] = None
      <4>1. /\ txn[c] \in Txn
            /\ txn' = [txn EXCEPT ![c] = [txn[c] EXCEPT !.receipt = "received"]]
        BY <3>2 DEF Inv, TypeOK
      <4>2. [txn[c] EXCEPT !.receipt = "received"] \in Txn
        BY <4>1 DEF Txn, Dispositions
      <4> QED
        BY <4>1, <4>2 DEF Inv, TypeOK
    <3> QED
      BY <3>1, <3>2
  <2> QED
    BY <2>1, <2>2 DEF Inv, TypeOK
<1>2. Grows
  BY DEF Grows
<1>3. attempt'[c] \in 1..AttemptLimit(c)'
  BY DEF Inv, ConsumerInv, HandInv, AttemptLimit, Busy, TypeOK
<1>4. ConsumerInv(c)'
  BY <1>2, <1>3, HandInvStays
  DEF Inv, TypeOK, Txn, ConsumerInv, TxnInv, DlqInv, Busy, TxnStages, DlqStages
<1> QED
  BY <1>1, <1>2, <1>4, ConsumerStep, CommittedSame
  DEF Inv, TypeOK, SameMemory, OwnerKeeps, Busy

LEMMA MarkIgnoredInv ==
  ASSUME NEW c \in Consumers, Inv, MarkIgnored(c)
  PROVE  Inv'
<1> USE DEF MarkIgnored, Goto
<1>1. TypeOK'
  BY DEF Inv, TypeOK, Stages, TxnStages, DlqStages, Dispositions, Txn
<1>2. Grows
  BY DEF Grows
<1>3. attempt'[c] \in 1..AttemptLimit(c)'
  BY DEF Inv, ConsumerInv, HandInv, AttemptLimit, Busy, TypeOK
<1>4. ConsumerInv(c)'
  BY <1>2, <1>3, HandInvStays
  DEF Inv, TypeOK, Txn, ConsumerInv, TxnInv, DlqInv, Busy, TxnStages, DlqStages,
      FinalDisposition
<1> QED
  BY <1>1, <1>2, <1>4, ConsumerStep, CommittedSame
  DEF Inv, TypeOK, SameMemory, OwnerKeeps, Busy

(* An orphan is an ordinary event, so it may go to the DLQ.                *)
LEMMA FindShortLinkInv ==
  ASSUME NEW c \in Consumers, Inv, FindShortLink(c)
  PROVE  Inv'
<1> USE DEF FindShortLink, Goto
<1>1. Grows
  BY DEF Grows
<1>2. CASE InHand(c).code \in links
  <2>1. TypeOK'
    BY <1>2 DEF Inv, TypeOK, Stages, TxnStages
  <2>2. attempt'[c] \in 1..AttemptLimit(c)'
    BY <1>2 DEF Inv, ConsumerInv, HandInv, AttemptLimit, Busy, TypeOK
  <2>3. ConsumerInv(c)'
    BY <1>1, <1>2, <2>2, HandInvStays
    DEF Inv, TypeOK, ConsumerInv, TxnInv, DlqInv, Busy, TxnStages, DlqStages
  <2> QED
    BY <1>1, <1>2, <2>1, <2>3, ConsumerStep, CommittedSame
    DEF Inv, TypeOK, SameMemory, OwnerKeeps, Busy
<1>3. CASE InHand(c).code \notin links
  <2>1. TypeOK'
    <3>1. NoTxn \in Txn
      BY DEF NoTxn, Txn
    <3>2. attempt' \in [Consumers -> 0..MaxAttempts]
      BY <1>3, Limits DEF Inv, TypeOK
    <3>3. txn' \in [Consumers -> Txn]
      BY <1>3, <3>1 DEF Inv, TypeOK
    <3>4. pc' \in [Consumers -> Stages]
      BY <1>3 DEF Inv, TypeOK, Stages, DlqStages
    <3>5. reason' \in [Consumers -> DeadLetterReasons \cup {"none"}]
      BY <1>3 DEF Inv, TypeOK, DeadLetterReasons
    <3> QED
      BY <3>2, <3>3, <3>4, <3>5 DEF Inv, TypeOK
  <2>2. attempt'[c] = 1 /\ pc'[c] = "publish"
    BY <1>3 DEF Inv, TypeOK
  <2>3. attempt'[c] \in 1..AttemptLimit(c)'
    BY <2>2, ConsumerAssumption DEF AttemptLimit
  <2>4. HandInv(c)' /\ InHand(c)' = InHand(c)
    BY <1>1, <2>3, HandInvStays DEF Inv, ConsumerInv, Busy
  <2>5. copies'[c] = 0 /\ reason'[c] = "orphan_short_link"
    BY <1>3 DEF Inv, TypeOK, ConsumerInv, DlqInv, DlqStages
  <2>6. TxnInv(c)' 
    BY <2>2, <2>4 DEF TxnInv, TxnStages
  <2>7. Projection!MayBury(InHand(c), "orphan_short_link")
    BY DEF Inv, ConsumerInv, TxnInv, TxnStages, Projection!MayBury,
       Projection!ContractDefect, Projection!ParseError, ContractDefect, ParseError
  <2>8. DlqInv(c)'
    BY <2>2, <2>4, <2>5, <2>7 DEF DlqInv, DlqStages
  <2>9. ConsumerInv(c)'
    BY <2>2, <2>4, <2>6, <2>8 DEF ConsumerInv
  <2>10. \A d \in Consumers \ {c} : SameMemory(d)
    BY <1>3 DEF SameMemory, Inv, TypeOK
  <2>11. OwnerKeeps(c)
    BY <2>2 DEF OwnerKeeps, Busy
  <2>12. \A p \in Partitions : CommittedInv(p)'
    BY <1>1, CommittedSame
  <2> QED
    BY <1>1, <2>1, <2>9, <2>10, <2>11, <2>12, ConsumerStep
<1> QED
  BY <1>2, <1>3

LEMMA UpsertTotalsInv ==
  ASSUME NEW c \in Consumers, Inv, UpsertTotals(c)
  PROVE  Inv'
<1> USE DEF UpsertTotals, Goto
<1>1. TypeOK'
  BY DEF Inv, TypeOK, Stages, TxnStages, DlqStages, Dispositions, Txn
<1>2. Grows
  BY DEF Grows
<1>3. attempt'[c] \in 1..AttemptLimit(c)'
  BY DEF Inv, ConsumerInv, HandInv, AttemptLimit, Busy, TypeOK
<1>4. ConsumerInv(c)'
  BY <1>2, <1>3, HandInvStays
  DEF Inv, TypeOK, Txn, ConsumerInv, TxnInv, DlqInv, Busy, TxnStages, DlqStages,
      FinalDisposition
<1> QED
  BY <1>1, <1>2, <1>4, ConsumerStep, CommittedSame
  DEF Inv, TypeOK, SameMemory, OwnerKeeps, Busy

LEMMA UpsertHourlyInv ==
  ASSUME NEW c \in Consumers, Inv, UpsertHourly(c)
  PROVE  Inv'
<1> USE DEF UpsertHourly, Goto
<1>1. TypeOK'
  BY DEF Inv, TypeOK, Stages, TxnStages, DlqStages, Dispositions, Txn
<1>2. Grows
  BY DEF Grows
<1>3. attempt'[c] \in 1..AttemptLimit(c)'
  BY DEF Inv, ConsumerInv, HandInv, AttemptLimit, Busy, TypeOK
<1>4. ConsumerInv(c)'
  BY <1>2, <1>3, HandInvStays
  DEF Inv, TypeOK, Txn, ConsumerInv, TxnInv, DlqInv, Busy, TxnStages, DlqStages,
      FinalDisposition
<1> QED
  BY <1>1, <1>2, <1>4, ConsumerStep, CommittedSame
  DEF Inv, TypeOK, SameMemory, OwnerKeeps, Busy

LEMMA MarkAggregatedInv ==
  ASSUME NEW c \in Consumers, Inv, MarkAggregated(c)
  PROVE  Inv'
<1> USE DEF MarkAggregated, Goto
<1>1. TypeOK'
  BY DEF Inv, TypeOK, Stages, TxnStages, DlqStages, Dispositions, Txn
<1>2. Grows
  BY DEF Grows
<1>3. attempt'[c] \in 1..AttemptLimit(c)'
  BY DEF Inv, ConsumerInv, HandInv, AttemptLimit, Busy, TypeOK
<1>4. ConsumerInv(c)'
  BY <1>2, <1>3, HandInvStays
  DEF Inv, TypeOK, Txn, ConsumerInv, TxnInv, DlqInv, Busy, TxnStages, DlqStages,
      FinalDisposition
<1> QED
  BY <1>1, <1>2, <1>4, ConsumerStep, CommittedSame
  DEF Inv, TypeOK, SameMemory, OwnerKeeps, Busy

(***************************************************************************)
(* COMMIT keeps the tables well-typed and never removes a receipt.         *)
(***************************************************************************)
LEMMA CommitTypes ==
  ASSUME NEW c \in Consumers, Inv, pc[c] \in TxnStages, TxnCommitted(c)
  PROVE  /\ receipts' \in [EventIds -> Receipt \cup {None}]
         /\ totals' \in [TotalsKeys -> TotalsRow]
         /\ hourly' \in [HourlyKeys -> Nat]
         /\ \A e \in EventIds : receipts[e] # None => receipts'[e] # None
         /\ InHand(c) \in Messages
         /\ txn[c].receipt # "absent" => receipts'[InHand(c).id] # None
<1>1. PICK p \in Partitions, o \in Nat \ {0} :
        cur[c] = [partition |-> p, offset |-> o]
  BY DEF Inv, ConsumerInv, HandInv, Coordinates, Busy, TxnStages
<1>2. cur[c].partition = p /\ cur[c].offset = o
  BY <1>1
<1>3. o \in 1..Len(log[p])
  <2>1. HandInv(c) /\ Busy(c)
    BY DEF Inv, ConsumerInv, Busy, TxnStages
  <2>2. Len(log[p]) \in Nat
    BY DEF Inv, TypeOK
  <2> QED
    BY <1>2, <2>1, <2>2 DEF HandInv
<1>4. InHand(c) \in Messages
  BY <1>2, <1>3, LogEntry DEF Inv, InHand, MessageAt
<1>5. InHand(c).id \in EventIds
  BY <1>4, MessageFields
<1>6. totals' \in [TotalsKeys -> TotalsRow] /\ hourly' \in [HourlyKeys -> Nat]
  BY <1>4, UpsertTypes DEF Inv, TypeOK, TxnCommitted
<1>7. CASE txn[c].receipt = "absent"
  BY <1>4, <1>6, <1>7 DEF Inv, TypeOK, TxnCommitted
<1>8. CASE txn[c].receipt # "absent"
  <2> DEFINE row == [disposition |-> txn[c].receipt, source |-> cur[c]]
  <2>1. txn[c].receipt \in Dispositions
    BY <1>8 DEF Inv, TypeOK, Txn
  <2>2. row \in Receipt
    BY <1>1, <2>1 DEF Receipt, Coordinates
  <2>3. row # None
    BY <2>2, NoneAssumption
  <2>4. receipts' = [receipts EXCEPT ![InHand(c).id] = row]
    BY <1>8 DEF TxnCommitted
  <2> QED
    BY <1>4, <1>5, <1>6, <2>2, <2>3, <2>4 DEF Inv, TypeOK
<1> QED
  BY <1>7, <1>8

LEMMA CommitTransactionInv ==
  ASSUME NEW c \in Consumers, Inv, CommitTransaction(c)
  PROVE  Inv'
<1> USE DEF CommitTransaction, Goto
<1>1. pc[c] \in TxnStages /\ Busy(c)
  BY DEF TxnStages, Busy
<1>2. TypeOK'
  <2>1. NoTxn \in Txn
    BY DEF NoTxn, Txn
  <2>2. txn' \in [Consumers -> Txn]
    BY <2>1 DEF Inv, TypeOK
  <2>3. attempt' \in [Consumers -> 0..MaxAttempts]
    BY Limits DEF Inv, TypeOK
  <2>4. pc' \in [Consumers -> Stages]
    BY DEF Inv, TypeOK, Stages
  <2> QED
    BY <1>1, <2>2, <2>3, <2>4, CommitTypes DEF Inv, TypeOK
<1>3. Grows
  <2>1. \A e \in EventIds : receipts[e] # None => receipts'[e] # None
    BY <1>1, CommitTypes
  <2>2. log' = log /\ dlq' = dlq /\ \A p \in Partitions : Len(log[p]) \in Nat
    BY DEF Inv, TypeOK
  <2> QED
    BY <2>1, <2>2 DEF Grows
<1>4. attempt'[c] = 1 /\ pc'[c] = "commit_offset" /\ cur'[c] = cur[c]
  BY DEF Inv, TypeOK
<1>5. attempt'[c] \in 1..AttemptLimit(c)'
  BY <1>4, ConsumerAssumption DEF AttemptLimit
<1>6. HandInv(c)' /\ InHand(c)' = InHand(c)
  BY <1>1, <1>3, <1>4, <1>5, HandInvStays DEF Inv, ConsumerInv
<1>7. Handled(cur[c].partition, cur[c].offset)'
  <2>1. ContractDefect(InHand(c)) = "none"
    BY <1>1 DEF Inv, ConsumerInv, TxnInv
  <2>2. receipts'[InHand(c).id] # None
    <3>1. \/ txn[c].receipt # "absent"
          \/ receipts[InHand(c).id] # None
      BY DEF Inv, ConsumerInv, TxnInv, FinalDisposition
    <3> QED
      BY <1>1, <3>1, CommitTypes, MessageFields
  <2>3. Projection!ContractDefect(InHand(c)) = "none"
    BY <2>1 DEF Projection!ContractDefect, Projection!ParseError,
       ContractDefect, ParseError
  <2> QED
    BY <2>2, <2>3 DEF Handled, Projection!Handled, InHand, MessageAt
<1>8. TxnInv(c)' /\ DlqInv(c)'
  BY <1>4 DEF Inv, TypeOK, ConsumerInv, DlqInv, TxnInv, TxnStages, DlqStages
<1>9. ConsumerInv(c)'
  <2> DEFINE at == cur[c]
  <2>1. cur'[c] = at
    BY <1>4
  <2> QED
    BY <1>6, <1>7, <1>8, <2>1 DEF ConsumerInv, Handled, Projection!Handled
<1> QED
  BY <1>1, <1>2, <1>3, <1>4, <1>9, ConsumerStep, CommittedSame
  DEF Inv, TypeOK, SameMemory, OwnerKeeps, Busy

-----------------------------------------------------------------------------
(***************************************************************************)
(* The end of a process.  A copy still in flight carries the message in    *)
(* hand, so whatever lands in the DLQ topic is well-typed.                 *)
(***************************************************************************)
LEMMA CopiesLand ==
  ASSUME NEW c \in Consumers, Inv, InFlightCopiesLand(c)
  PROVE  dlq' \in SUBSET DeadLetter /\ dlq \subseteq dlq'
<1>1. CASE UNCHANGED dlq
  BY <1>1 DEF Inv, TypeOK
<1>2. CASE copies[c] > 0 /\ dlq' = dlq \cup {DeadLetterOf(c)}
  <2>1. pc[c] \in DlqStages
    BY <1>2 DEF Inv, ConsumerInv, DlqInv
  <2>2. cur[c] \in Coordinates
    BY <2>1 DEF Inv, ConsumerInv, HandInv, Busy, DlqStages
  <2>3. reason[c] \in DeadLetterReasons
    <3>1. Projection!MayBury(InHand(c), reason[c])
      BY <2>1 DEF Inv, ConsumerInv, DlqInv
    <3>2. reason[c] # "none"
      BY <3>1 DEF Projection!MayBury, Projection!ContractDefect
    <3> QED
      BY <3>2 DEF Inv, TypeOK
  <2> QED
    BY <1>2, <2>2, <2>3 DEF DeadLetterOf, DeadLetter, Inv, TypeOK
<1> QED
  BY <1>1, <1>2 DEF InFlightCopiesLand

LEMMA LostMemoryTypes ==
  ASSUME NEW c \in Consumers, Inv, LoseProcess(c)
  PROVE  /\ pc' \in [Consumers -> Stages]
         /\ cur' \in [Consumers -> Coordinates \cup {None}]
         /\ attempt' \in [Consumers -> 0..MaxAttempts]
         /\ txn' \in [Consumers -> Txn]
         /\ reason' \in [Consumers -> DeadLetterReasons \cup {"none"}]
         /\ copies' \in [Consumers -> 0..ProcessingMaxAttempts]
         /\ report' \in [Consumers -> {"none", "ok", "error"}]
         /\ pc'[c] = "down" /\ copies'[c] = 0
<1>1. NoTxn \in Txn
  BY DEF NoTxn, Txn
<1>2. txn' \in [Consumers -> Txn]
  BY <1>1 DEF Inv, TypeOK, LoseProcess
<1>3. attempt' \in [Consumers -> 0..MaxAttempts]
  BY Limits DEF Inv, TypeOK, LoseProcess
<1>4. copies' \in [Consumers -> 0..ProcessingMaxAttempts] /\ copies'[c] = 0
  BY ConsumerAssumption DEF Inv, TypeOK, LoseProcess
<1>5. pc' \in [Consumers -> Stages] /\ pc'[c] = "down"
  BY DEF Inv, TypeOK, LoseProcess, Goto, Stages
<1> QED
  BY <1>2, <1>3, <1>4, <1>5 DEF Inv, TypeOK, LoseProcess

LEMMA ProcessEnds ==
  ASSUME NEW c \in Consumers, Inv, TypeOK', Grows, LoseProcess(c),
         position' = position,
         \A p \in Partitions : CommittedInv(p)',
         \A p \in Partitions : owner'[p] \in {None, owner[p]}
  PROVE  Inv'
<1>1. pc'[c] = "down" /\ copies'[c] = 0
  BY LostMemoryTypes
<1>2. ConsumerInv(c)'
  BY <1>1 DEF ConsumerInv, HandInv, TxnInv, DlqInv, Busy, TxnStages, DlqStages
<1>3. OwnerKeeps(c)
  BY <1>1 DEF OwnerKeeps
<1>4. \A d \in Consumers \ {c} : SameMemory(d)
  BY DEF SameMemory, LoseProcess, Goto, Inv, TypeOK
<1> QED
  BY <1>2, <1>3, <1>4, ConsumerStep

LEMMA LeaveTypes ==
  ASSUME NEW c \in Consumers, Inv, LeaveGroup(c)
  PROVE  /\ members' \in SUBSET Consumers
         /\ owner' \in [Partitions -> Consumers \cup {None}]
         /\ \A p \in Partitions : owner'[p] \in {None, owner[p]}
BY DEF LeaveGroup, Inv, TypeOK

LEMMA ExitInv ==
  ASSUME NEW c \in Consumers, Inv, Exit(c), faults' \in 0..MaxFaults,
         links' \in SUBSET Codes,
         receipts' \in [EventIds -> Receipt \cup {None}],
         totals' \in [TotalsKeys -> TotalsRow], hourly' \in [HourlyKeys -> Nat],
         \A e \in EventIds : receipts[e] # None => receipts'[e] # None
  PROVE  Inv'
<1> USE DEF Exit
<1>1. dlq' \in SUBSET DeadLetter /\ dlq \subseteq dlq'
  BY CopiesLand
<1>2. /\ members' \in SUBSET Consumers
      /\ owner' \in [Partitions -> Consumers \cup {None}]
      /\ \A p \in Partitions : owner'[p] \in {None, owner[p]}
  BY LeaveTypes
<1>3. TypeOK'
  <2>1. /\ log' \in [Partitions -> Seq(Messages)]
        /\ committed' \in [Partitions -> Nat]
        /\ position' \in [Partitions -> Nat]
    BY DEF Inv, TypeOK
  <2>2. /\ pc' \in [Consumers -> Stages]
        /\ cur' \in [Consumers -> Coordinates \cup {None}]
        /\ attempt' \in [Consumers -> 0..MaxAttempts]
        /\ txn' \in [Consumers -> Txn]
        /\ reason' \in [Consumers -> DeadLetterReasons \cup {"none"}]
        /\ copies' \in [Consumers -> 0..ProcessingMaxAttempts]
        /\ report' \in [Consumers -> {"none", "ok", "error"}]
    BY LostMemoryTypes
  <2> QED
    BY <1>1, <1>2, <2>1, <2>2 DEF TypeOK
<1>4. Grows
  <2>1. log' = log /\ \A p \in Partitions : Len(log[p]) \in Nat
    BY DEF Inv, TypeOK
  <2> QED
    BY <1>1, <2>1 DEF Grows
<1> QED
  BY <1>2, <1>3, <1>4, ProcessEnds, CommittedSame

-----------------------------------------------------------------------------
(* Rolled back, and either tried again or given up with the process.       *)
LEMMA PersistFailedInv ==
  ASSUME NEW c \in Consumers, Inv, pc[c] \in TxnStages, PersistFailed(c),
         faults' \in 0..MaxFaults, links' = links,
         receipts' \in [EventIds -> Receipt \cup {None}],
         totals' \in [TotalsKeys -> TotalsRow], hourly' \in [HourlyKeys -> Nat],
         \A e \in EventIds : receipts[e] # None => receipts'[e] # None
  PROVE  Inv'
<1>1. CASE attempt[c] = ProcessingMaxAttempts
  BY <1>1, ExitInv DEF PersistFailed, Inv, TypeOK
<1>2. CASE attempt[c] # ProcessingMaxAttempts
  <2> USE DEF Goto
  <2>1. Busy(c) /\ pc[c] # "commit_offset"
    BY DEF TxnStages, Busy
  <2>2. attempt[c] \in 1..(ProcessingMaxAttempts - 1)
    BY <1>2, <2>1, ConsumerAssumption
    DEF Inv, ConsumerInv, HandInv, AttemptLimit
  <2>3. /\ attempt' = [attempt EXCEPT ![c] = attempt[c] + 1]
        /\ txn' = [txn EXCEPT ![c] = NoTxn]
        /\ pc' = [pc EXCEPT ![c] = "begin"]
        /\ UNCHANGED <<kafkaVars, dlq, cur, reason, copies, report>>
    BY <1>2 DEF PersistFailed
  <2>4. pc'[c] = "begin" /\ attempt'[c] = attempt[c] + 1
    BY <2>3 DEF Inv, TypeOK
  <2>5. TypeOK'
    <3>1. NoTxn \in Txn
      BY DEF NoTxn, Txn
    <3>2. txn' \in [Consumers -> Txn]
      BY <2>3, <3>1 DEF Inv, TypeOK
    <3>3. attempt' \in [Consumers -> 0..MaxAttempts]
      <4>1. attempt[c] + 1 \in 0..MaxAttempts
        BY <2>2, Limits, ConsumerAssumption
      <4> QED
        BY <2>3, <4>1 DEF Inv, TypeOK
    <3>4. pc' \in [Consumers -> Stages]
      BY <2>3 DEF Inv, TypeOK, Stages, TxnStages
    <3> QED
      BY <2>3, <3>2, <3>3, <3>4 DEF Inv, TypeOK
  <2>6. Grows
    <3>1. log' = log /\ dlq' = dlq /\ \A p \in Partitions : Len(log[p]) \in Nat
      BY <2>3 DEF Inv, TypeOK
    <3> QED
      BY <3>1 DEF Grows
  <2>7. attempt'[c] \in 1..AttemptLimit(c)'
    BY <2>2, <2>4, ConsumerAssumption DEF AttemptLimit
  <2>8. HandInv(c)' /\ InHand(c)' = InHand(c)
    BY <2>1, <2>3, <2>6, <2>7, HandInvStays DEF Inv, ConsumerInv
  <2>9. ConsumerInv(c)'
    <3>1. ContractDefect(InHand(c)) = "none" /\ copies[c] = 0
      BY DEF Inv, ConsumerInv, TxnInv, DlqInv, TxnStages, DlqStages
    <3>2. copies'[c] = 0
      BY <2>3, <3>1
    <3> QED
      BY <2>4, <2>8, <3>1, <3>2
      DEF ConsumerInv, TxnInv, DlqInv, TxnStages, DlqStages
  <2>10. \A d \in Consumers \ {c} : SameMemory(d)
    BY <2>3 DEF SameMemory, Inv, TypeOK
  <2>11. OwnerKeeps(c)
    BY <2>1, <2>3, <2>4 DEF OwnerKeeps, Busy
  <2> QED
    BY <2>3, <2>5, <2>6, <2>9, <2>10, <2>11, ConsumerStep, CommittedSame
    DEF Inv, TypeOK
<1> QED
  BY <1>1, <1>2

(* One more fault leaves the budget in its range.                          *)
LEMMA FaultType ==
  ASSUME TypeOK, Fault
  PROVE  faults' \in 0..MaxFaults
BY ConsumerAssumption DEF TypeOK, Fault

LEMMA StatementFailsInv ==
  ASSUME NEW c \in Consumers, Inv, StatementFails(c)
  PROVE  Inv'
BY FaultType, PersistFailedInv DEF StatementFails, Inv, TypeOK

LEMMA CommitReplyLostInv ==
  ASSUME NEW c \in Consumers, Inv, CommitReplyLost(c)
  PROVE  Inv'
<1>1. pc[c] \in TxnStages /\ TxnCommitted(c) /\ PersistFailed(c)
      /\ faults' \in 0..MaxFaults /\ links' = links
  BY FaultType DEF CommitReplyLost, TxnStages, Inv
<1>2. /\ receipts' \in [EventIds -> Receipt \cup {None}]
      /\ totals' \in [TotalsKeys -> TotalsRow]
      /\ hourly' \in [HourlyKeys -> Nat]
      /\ \A e \in EventIds : receipts[e] # None => receipts'[e] # None
  BY <1>1, CommitTypes
<1> QED
  BY <1>1, <1>2, PersistFailedInv

-----------------------------------------------------------------------------
(* A failed attempt to publish leaves at most one copy per attempt behind. *)
LEMMA DlqAttemptFailedInv ==
  ASSUME NEW c \in Consumers, Inv, pc[c] \in DlqStages, DlqAttemptFailed(c),
         faults' \in 0..MaxFaults, UNCHANGED <<links, tableVars>>
  PROVE  Inv'
<1>1. CASE attempt[c] = ProcessingMaxAttempts
  BY <1>1, ExitInv DEF DlqAttemptFailed, Inv, TypeOK
<1>2. CASE attempt[c] # ProcessingMaxAttempts
  <2> USE DEF Goto
  <2>1. Busy(c) /\ pc[c] # "commit_offset"
    BY DEF DlqStages, Busy
  <2>2. attempt[c] \in 1..(ProcessingMaxAttempts - 1)
    BY <1>2, <2>1, ConsumerAssumption
    DEF Inv, ConsumerInv, HandInv, AttemptLimit
  <2>3. /\ attempt' = [attempt EXCEPT ![c] = attempt[c] + 1]
        /\ pc' = [pc EXCEPT ![c] = "publish"]
        /\ UNCHANGED <<kafkaVars, dlq, cur, txn, reason, copies, report>>
    BY <1>2 DEF DlqAttemptFailed
  <2>4. pc'[c] = "publish" /\ attempt'[c] = attempt[c] + 1
    BY <2>3 DEF Inv, TypeOK
  <2>5. TypeOK'
    <3>1. attempt' \in [Consumers -> 0..MaxAttempts]
      <4>1. attempt[c] + 1 \in 0..MaxAttempts
        BY <2>2, Limits, ConsumerAssumption
      <4> QED
        BY <2>3, <4>1 DEF Inv, TypeOK
    <3>2. pc' \in [Consumers -> Stages]
      BY <2>3 DEF Inv, TypeOK, Stages, DlqStages
    <3> QED
      BY <2>3, <3>1, <3>2 DEF Inv, TypeOK
  <2>6. Grows
    BY <2>3 DEF Grows, Inv, TypeOK
  <2>7. attempt'[c] \in 1..AttemptLimit(c)'
    BY <2>2, <2>4, ConsumerAssumption DEF AttemptLimit
  <2>8. HandInv(c)' /\ InHand(c)' = InHand(c)
    BY <2>1, <2>3, <2>6, <2>7, HandInvStays DEF Inv, ConsumerInv
  <2>9. copies'[c] < attempt'[c]
    <3>1. copies[c] <= attempt[c] /\ copies[c] \in Nat /\ attempt[c] \in Nat
      BY <2>2 DEF Inv, TypeOK, ConsumerInv, DlqInv, DlqStages
    <3> QED
      BY <2>3, <2>4, <3>1
  <2>10. ConsumerInv(c)'
    <3>1. Projection!MayBury(InHand(c), reason[c])
      BY DEF Inv, ConsumerInv, DlqInv
    <3>2. Projection!MayBury(InHand(c), reason[c])'
      BY <2>3, <2>8, <3>1 DEF Projection!MayBury, Projection!ContractDefect,
         Projection!ParseError
    <3> QED
      BY <2>4, <2>8, <2>9, <3>2 DEF ConsumerInv, TxnInv, DlqInv, TxnStages, DlqStages
  <2>11. \A d \in Consumers \ {c} : SameMemory(d)
    BY <2>3 DEF SameMemory, Inv, TypeOK
  <2>12. OwnerKeeps(c)
    BY <2>1, <2>3, <2>4 DEF OwnerKeeps, Busy
  <2> QED
    BY <2>3, <2>5, <2>6, <2>10, <2>11, <2>12, ConsumerStep, CommittedSame
    DEF Inv, TypeOK
<1> QED
  BY <1>1, <1>2

LEMMA DlqProduceFailsInv ==
  ASSUME NEW c \in Consumers, Inv, DlqProduceFails(c)
  PROVE  Inv'
BY FaultType, DlqAttemptFailedInv DEF DlqProduceFails, DlqStages, Inv

LEMMA DlqFlushTimesOutInv ==
  ASSUME NEW c \in Consumers, Inv, DlqFlushTimesOut(c)
  PROVE  Inv'
BY FaultType, DlqAttemptFailedInv DEF DlqFlushTimesOut, DlqStages, Inv

LEMMA DlqProduceInv ==
  ASSUME NEW c \in Consumers, Inv, DlqProduce(c)
  PROVE  Inv'
<1> USE DEF DlqProduce, Goto
<1>1. Busy(c) /\ pc[c] # "commit_offset" /\ pc[c] = "publish"
  BY DEF Busy
<1>2. /\ attempt[c] \in 1..ProcessingMaxAttempts
      /\ copies[c] \in Nat /\ copies[c] < attempt[c]
  BY <1>1 DEF Inv, TypeOK, ConsumerInv, HandInv, DlqInv, AttemptLimit
<1>3. pc'[c] = "flush" /\ copies'[c] = copies[c] + 1 /\ report'[c] = "none"
  BY DEF Inv, TypeOK
<1>4. TypeOK'
  <2>1. copies[c] + 1 \in 0..ProcessingMaxAttempts
    BY <1>2, ConsumerAssumption
  <2>2. copies' \in [Consumers -> 0..ProcessingMaxAttempts]
    BY <2>1 DEF Inv, TypeOK
  <2>3. pc' \in [Consumers -> Stages]
    BY DEF Inv, TypeOK, Stages, DlqStages
  <2> QED
    BY <2>2, <2>3 DEF Inv, TypeOK
<1>5. Grows
  BY DEF Grows, Inv, TypeOK
<1>6. attempt'[c] \in 1..AttemptLimit(c)'
  BY <1>2, <1>3 DEF AttemptLimit
<1>7. HandInv(c)' /\ InHand(c)' = InHand(c)
  BY <1>1, <1>5, <1>6, HandInvStays DEF Inv, ConsumerInv
<1>8. copies'[c] <= attempt'[c]
  BY <1>2, <1>3
<1>9. ConsumerInv(c)'
  <2>1. Projection!MayBury(InHand(c), reason[c])
    BY DEF Inv, ConsumerInv, DlqInv, DlqStages
  <2>2. Projection!MayBury(InHand(c), reason[c])'
    BY <1>7, <2>1 DEF Projection!MayBury, Projection!ContractDefect,
       Projection!ParseError
  <2> QED
    BY <1>3, <1>7, <1>8, <2>2 DEF ConsumerInv, TxnInv, DlqInv, TxnStages, DlqStages
<1> QED
  BY <1>1, <1>3, <1>4, <1>5, <1>9, ConsumerStep, CommittedSame
  DEF Inv, TypeOK, SameMemory, OwnerKeeps, Busy

(* A copy the broker has acknowledged is the message in hand: every copy   *)
(* outstanding was produced for it.                                        *)
LEMMA DlqReportInv ==
  ASSUME NEW c \in Consumers, Inv, pc[c] = "flush", copies[c] > 0,
         dlq' \in SUBSET DeadLetter, dlq \subseteq dlq',
         copies' = [copies EXCEPT ![c] = @ - 1],
         NEW r \in {"ok", "error"}, report' = [report EXCEPT ![c] = r],
         r = "ok" => DeadLetterOf(c) \in dlq',
         faults' \in 0..MaxFaults,
         UNCHANGED <<kafkaVars, links, tableVars, pc, cur, attempt, txn, reason>>
  PROVE  Inv'
<1>1. Busy(c) /\ pc[c] # "commit_offset" /\ pc'[c] = "flush"
  BY DEF Busy
<1>2. copies[c] \in 1..ProcessingMaxAttempts /\ copies[c] <= attempt[c]
      /\ attempt[c] \in 1..ProcessingMaxAttempts
  <2>1. copies[c] \in 0..ProcessingMaxAttempts
    BY DEF Inv, TypeOK
  <2>2. HandInv(c) /\ DlqInv(c)
    BY DEF Inv, ConsumerInv
  <2> QED
    BY <1>1, <2>1, <2>2, ConsumerAssumption DEF HandInv, DlqInv, AttemptLimit
<1>3. copies'[c] = copies[c] - 1 /\ report'[c] = r
  BY DEF Inv, TypeOK
<1>4. TypeOK'
  <2>1. copies[c] - 1 \in 0..ProcessingMaxAttempts
    BY <1>2, ConsumerAssumption
  <2>2. copies' \in [Consumers -> 0..ProcessingMaxAttempts]
    BY <2>1 DEF Inv, TypeOK
  <2> QED
    BY <2>2 DEF Inv, TypeOK
<1>5. Grows
  BY DEF Grows, Inv, TypeOK
<1>6. attempt'[c] \in 1..AttemptLimit(c)'
  BY <1>1, <1>2 DEF AttemptLimit
<1>7. HandInv(c)' /\ InHand(c)' = InHand(c)
  BY <1>1, <1>5, <1>6, HandInvStays DEF Inv, ConsumerInv
<1>8. copies'[c] <= attempt'[c]
  BY <1>2, <1>3
<1>9. Projection!MayBury(InHand(c), reason[c])'
  <2>1. Projection!MayBury(InHand(c), reason[c])
    BY DEF Inv, ConsumerInv, DlqInv, DlqStages
  <2> QED
    BY <1>7, <2>1 DEF Projection!MayBury, Projection!ContractDefect,
       Projection!ParseError
<1>10. r = "ok" => Handled(cur[c].partition, cur[c].offset)'
  <2> SUFFICES ASSUME r = "ok"
               PROVE  Handled(cur[c].partition, cur[c].offset)'
    OBVIOUS
  <2>1. PICK p \in Partitions, o \in Nat \ {0} :
          cur[c] = [partition |-> p, offset |-> o]
    BY <1>1 DEF Inv, ConsumerInv, HandInv, Coordinates
  <2>2. cur'[c].partition = p /\ cur'[c].offset = o
    BY <2>1
  <2>3. DeadLetterOf(c).source = Projection!Source(p, o)
    BY <2>1 DEF DeadLetterOf, Projection!Source
  <2>4. Handled(p, o)'
    BY <2>3 DEF Handled, Projection!Handled
  <2> QED
    BY <2>2, <2>4
<1>11. ConsumerInv(c)'
  BY <1>1, <1>3, <1>7, <1>8, <1>9, <1>10
  DEF ConsumerInv, TxnInv, DlqInv, TxnStages, DlqStages
<1>12. \A d \in Consumers \ {c} : SameMemory(d)
  BY DEF SameMemory, Inv, TypeOK
<1>13. OwnerKeeps(c)
  BY <1>1 DEF OwnerKeeps, Busy
<1> QED
  BY <1>4, <1>5, <1>11, <1>12, <1>13, ConsumerStep, CommittedSame
  DEF Inv, TypeOK

LEMMA DlqDeliveredInv ==
  ASSUME NEW c \in Consumers, Inv, DlqDelivered(c)
  PROVE  Inv'
<1>1. InFlightCopiesLand(c)
  BY DEF DlqDelivered, InFlightCopiesLand
<1>2. dlq' \in SUBSET DeadLetter /\ dlq \subseteq dlq' /\ DeadLetterOf(c) \in dlq'
  BY <1>1, CopiesLand DEF DlqDelivered
<1>3. faults' \in 0..MaxFaults
  BY DEF DlqDelivered, Inv, TypeOK
<1> QED
  BY <1>2, <1>3, DlqReportInv DEF DlqDelivered

LEMMA DlqDeliveryFailsInv ==
  ASSUME NEW c \in Consumers, Inv, DlqDeliveryFails(c)
  PROVE  Inv'
<1>1. dlq' \in SUBSET DeadLetter /\ dlq \subseteq dlq'
  BY CopiesLand DEF DlqDeliveryFails
<1>2. faults' \in 0..MaxFaults
  BY FaultType DEF DlqDeliveryFails, Inv
<1> QED
  BY <1>1, <1>2, DlqReportInv DEF DlqDeliveryFails

LEMMA DlqFlushedInv ==
  ASSUME NEW c \in Consumers, Inv, DlqFlushed(c)
  PROVE  Inv'
<1>1. CASE report[c] # "ok"
  BY <1>1, DlqAttemptFailedInv DEF DlqFlushed, DlqStages, Inv, TypeOK
<1>2. CASE report[c] = "ok"
  <2>1. /\ pc[c] = "flush" /\ copies[c] = 0
        /\ attempt' = [attempt EXCEPT ![c] = 1]
        /\ pc' = [pc EXCEPT ![c] = "commit_offset"]
        /\ UNCHANGED <<kafkaVars, dlq, cur, txn, reason, copies, report>>
        /\ UNCHANGED <<links, tableVars, faults>>
    BY <1>2 DEF DlqFlushed, Goto
  <2>2. pc'[c] = "commit_offset" /\ attempt'[c] = 1 /\ copies'[c] = 0
    BY <2>1 DEF Inv, TypeOK
  <2>3. Busy(c)
    BY <2>1 DEF Busy
  <2>4. TypeOK'
    <3>1. attempt' \in [Consumers -> 0..MaxAttempts]
      BY <2>1, Limits DEF Inv, TypeOK
    <3>2. pc' \in [Consumers -> Stages]
      BY <2>1 DEF Inv, TypeOK, Stages
    <3> QED
      BY <2>1, <3>1, <3>2 DEF Inv, TypeOK
  <2>5. Grows
    BY <2>1 DEF Grows, Inv, TypeOK
  <2>6. attempt'[c] \in 1..AttemptLimit(c)'
    BY <2>2, ConsumerAssumption DEF AttemptLimit
  <2>7. Handled(cur[c].partition, cur[c].offset)
    BY <1>2, <2>1 DEF Inv, ConsumerInv, DlqInv
  <2>8. HandInv(c)' /\ Handled(cur[c].partition, cur[c].offset)'
    <3>1. cur'[c] = cur[c]
      BY <2>1
    <3> QED
      BY <2>3, <2>5, <2>6, <2>7, <3>1, HandInvStays
      DEF Inv, ConsumerInv
  <2>9. ConsumerInv(c)'
    BY <2>2, <2>8 DEF ConsumerInv, TxnInv, DlqInv, TxnStages, DlqStages
  <2>10. \A d \in Consumers \ {c} : SameMemory(d)
    BY <2>1 DEF SameMemory, Inv, TypeOK
  <2>11. OwnerKeeps(c)
    BY <2>1, <2>2, <2>3 DEF OwnerKeeps, Busy
  <2> QED
    BY <2>1, <2>4, <2>5, <2>9, <2>10, <2>11, ConsumerStep, CommittedSame
    DEF Inv, TypeOK
<1> QED
  BY <1>1, <1>2

-----------------------------------------------------------------------------
(* Committing the offset of the message in hand.                           *)
LEMMA CommitOffsetInv ==
  ASSUME NEW c \in Consumers, Inv, CommitOffset(c)
  PROVE  Inv'
<1> USE DEF CommitOffset, BackToPoll, Goto
<1>1. Grows
  BY DEF Grows, Inv, TypeOK
<1>2. committed' \in [Partitions -> Nat] /\ \A p \in Partitions : CommittedInv(p)'
  BY <1>1, CommittedMoved
<1>3. pc'[c] = "poll" /\ copies'[c] = copies[c]
  BY DEF Inv, TypeOK
<1>4. TypeOK'
  <2>1. pc' \in [Consumers -> Stages]
    BY DEF Inv, TypeOK, Stages
  <2>2. attempt' \in [Consumers -> 0..MaxAttempts]
    BY Limits DEF Inv, TypeOK
  <2> QED
    BY <1>2, <2>1, <2>2 DEF Inv, TypeOK
<1>5. copies[c] = 0 /\ Handled(cur[c].partition, cur[c].offset)
  BY DEF Inv, ConsumerInv, DlqInv, DlqStages
<1>6. ConsumerInv(c)'
  BY <1>3, <1>5
  DEF ConsumerInv, HandInv, TxnInv, DlqInv, Busy, TxnStages, DlqStages
<1>7. \A d \in Consumers \ {c} : SameMemory(d)
  BY DEF SameMemory, Inv, TypeOK
<1>8. OwnerKeeps(c)
  BY <1>5 DEF OwnerKeeps
<1> QED
  BY <1>1, <1>2, <1>4, <1>6, <1>7, <1>8, ConsumerStep DEF Inv, TypeOK

LEMMA OffsetAttemptFailedInv ==
  ASSUME NEW c \in Consumers, Inv, pc[c] = "commit_offset",
         OffsetAttemptFailed(c), faults' \in 0..MaxFaults,
         committed' \in [Partitions -> Nat],
         \A p \in Partitions : CommittedInv(p)',
         UNCHANGED <<log, position, dlq, links, tableVars>>
  PROVE  Inv'
<1>1. Grows
  BY DEF Grows, Inv, TypeOK
<1>2. CASE attempt[c] = OffsetCommitMaxAttempts
  <2>1. LoseProcess(c) /\ LeaveGroup(c)
    BY <1>2 DEF OffsetAttemptFailed
  <2>2. /\ members' \in SUBSET Consumers
        /\ owner' \in [Partitions -> Consumers \cup {None}]
        /\ \A p \in Partitions : owner'[p] \in {None, owner[p]}
    BY <2>1, LeaveTypes
  <2>3. TypeOK'
    <3>1. /\ pc' \in [Consumers -> Stages]
          /\ cur' \in [Consumers -> Coordinates \cup {None}]
          /\ attempt' \in [Consumers -> 0..MaxAttempts]
          /\ txn' \in [Consumers -> Txn]
          /\ reason' \in [Consumers -> DeadLetterReasons \cup {"none"}]
          /\ copies' \in [Consumers -> 0..ProcessingMaxAttempts]
          /\ report' \in [Consumers -> {"none", "ok", "error"}]
      BY <2>1, LostMemoryTypes
    <3> QED
      BY <2>2, <3>1 DEF Inv, TypeOK
  <2> QED
    BY <1>1, <2>1, <2>2, <2>3, ProcessEnds
<1>3. CASE attempt[c] # OffsetCommitMaxAttempts
  <2>1. /\ attempt' = [attempt EXCEPT ![c] = attempt[c] + 1]
        /\ UNCHANGED <<members, owner, pc, cur, txn, reason, copies, report>>
    BY <1>3 DEF OffsetAttemptFailed
  <2>2. Busy(c) /\ attempt'[c] = attempt[c] + 1
    BY <2>1 DEF Busy, Inv, TypeOK
  <2>3. attempt[c] \in 1..(OffsetCommitMaxAttempts - 1)
    BY <1>3, <2>2, ConsumerAssumption
    DEF Inv, ConsumerInv, HandInv, AttemptLimit
  <2>4. TypeOK'
    <3>1. attempt[c] + 1 \in 0..MaxAttempts
      BY <2>3, Limits, ConsumerAssumption
    <3>2. attempt' \in [Consumers -> 0..MaxAttempts]
      BY <2>1, <3>1 DEF Inv, TypeOK
    <3> QED
      BY <2>1, <3>2 DEF Inv, TypeOK
  <2>5. attempt'[c] \in 1..AttemptLimit(c)'
    BY <2>1, <2>2, <2>3, ConsumerAssumption DEF AttemptLimit
  <2>6. HandInv(c)' /\ Handled(cur[c].partition, cur[c].offset)'
    <3>1. cur'[c] = cur[c] /\ Handled(cur[c].partition, cur[c].offset)
      BY <2>1 DEF Inv, ConsumerInv
    <3> QED
      BY <1>1, <2>2, <2>5, <3>1, HandInvStays DEF Inv, ConsumerInv
  <2>7. ConsumerInv(c)'
    <3>1. pc'[c] = "commit_offset" /\ copies'[c] = 0
      BY <2>1 DEF Inv, ConsumerInv, DlqInv, DlqStages
    <3> QED
      BY <2>6, <3>1 DEF ConsumerInv, TxnInv, DlqInv, TxnStages, DlqStages
  <2>8. \A d \in Consumers \ {c} : SameMemory(d)
    BY <2>1 DEF SameMemory, Inv, TypeOK
  <2>9. OwnerKeeps(c)
    BY <2>1, <2>2 DEF OwnerKeeps, Busy
  <2> QED
    BY <1>1, <2>1, <2>4, <2>7, <2>8, <2>9, ConsumerStep DEF Inv, TypeOK
<1> QED
  BY <1>2, <1>3

LEMMA CommitOffsetFailsInv ==
  ASSUME NEW c \in Consumers, Inv, CommitOffsetFails(c)
  PROVE  Inv'
<1> USE DEF CommitOffsetFails
<1>1. faults' \in 0..MaxFaults
  BY FaultType DEF Inv, TypeOK
<1>2. Grows
  BY DEF Grows, Inv, TypeOK
<1>3. \A p \in Partitions : CommittedInv(p)'
  BY <1>2, CommittedSame
<1> QED
  BY <1>1, <1>3, OffsetAttemptFailedInv DEF Inv, TypeOK

LEMMA OffsetReplyLostInv ==
  ASSUME NEW c \in Consumers, Inv, OffsetReplyLost(c)
  PROVE  Inv'
<1> USE DEF OffsetReplyLost
<1>1. faults' \in 0..MaxFaults
  BY FaultType DEF Inv
<1>2. Grows
  BY DEF Grows, Inv, TypeOK
<1>3. committed' \in [Partitions -> Nat] /\ \A p \in Partitions : CommittedInv(p)'
  BY <1>2, CommittedMoved
<1> QED
  BY <1>1, <1>3, OffsetAttemptFailedInv

-----------------------------------------------------------------------------
LEMMA CrashInv ==
  ASSUME NEW c \in Consumers, Inv, Crash(c)
  PROVE  Inv'
<1> USE DEF Crash
<1>1. dlq' \in SUBSET DeadLetter /\ dlq \subseteq dlq'
  BY CopiesLand
<1>2. Grows
  BY <1>1 DEF Grows, Inv, TypeOK
<1>3. TypeOK'
  <2>1. faults' \in 0..MaxFaults
    BY FaultType DEF Inv
  <2>2. /\ pc' \in [Consumers -> Stages]
        /\ cur' \in [Consumers -> Coordinates \cup {None}]
        /\ attempt' \in [Consumers -> 0..MaxAttempts]
        /\ txn' \in [Consumers -> Txn]
        /\ reason' \in [Consumers -> DeadLetterReasons \cup {"none"}]
        /\ copies' \in [Consumers -> 0..ProcessingMaxAttempts]
        /\ report' \in [Consumers -> {"none", "ok", "error"}]
    BY LostMemoryTypes
  <2> QED
    BY <1>1, <2>1, <2>2 DEF Inv, TypeOK
<1> QED
  BY <1>2, <1>3, ProcessEnds, CommittedSame DEF Inv, TypeOK

LEMMA StopInv ==
  ASSUME NEW c \in Consumers, Inv, Stop(c)
  PROVE  Inv'
<1>1. faults' \in 0..MaxFaults
  BY FaultType DEF Stop, Inv
<1> QED
  BY <1>1, ExitInv DEF Stop, Inv, TypeOK

-----------------------------------------------------------------------------
(* Reading a message: the owner had nothing else unhandled in hand.        *)
LEMMA PollInv ==
  ASSUME NEW c \in Consumers, NEW p \in Partitions, Inv, Poll(c, p)
  PROVE  Inv'
<1> DEFINE o == position[p] + 1
           m == log[p][o]
<1> USE DEF Goto
<1>1. /\ pc[c] = "poll" /\ owner[p] = c /\ o <= Len(log[p])
      /\ position' = [position EXCEPT ![p] = o]
      /\ cur' = [cur EXCEPT ![c] = [partition |-> p, offset |-> o]]
      /\ attempt' = [attempt EXCEPT ![c] = 1]
      /\ reason' = [reason EXCEPT ![c] = ContractDefect(m)]
      /\ pc' = [pc EXCEPT ![c] = IF ContractDefect(m) = "none" THEN "begin"
                                                              ELSE "publish"]
      /\ UNCHANGED <<log, committed, members, owner, dlq, links, tableVars,
                     txn, copies, report, faults>>
  BY DEF Poll
<1>2. /\ o \in Nat \ {0} /\ o \in 1..Len(log[p]) /\ o - 1 = position[p]
      /\ position[p] \in Nat /\ Len(log[p]) \in Nat
  BY <1>1 DEF Inv, TypeOK
<1>3. m \in Messages
  BY <1>2, LogEntry DEF Inv
<1>4. ContractDefect(m) \in ContractReasons \cup {"none"}
  BY <1>3, MessageFields
<1>5. /\ cur'[c] = [partition |-> p, offset |-> o]
      /\ attempt'[c] = 1 /\ reason'[c] = ContractDefect(m)
      /\ pc'[c] = IF ContractDefect(m) = "none" THEN "begin" ELSE "publish"
      /\ position'[p] = o
  BY <1>1 DEF Inv, TypeOK
<1>6. TypeOK'
  <2>1. cur' \in [Consumers -> Coordinates \cup {None}]
    BY <1>1, <1>2 DEF Inv, TypeOK, Coordinates
  <2>2. attempt' \in [Consumers -> 0..MaxAttempts]
    BY <1>1, Limits DEF Inv, TypeOK
  <2>3. reason' \in [Consumers -> DeadLetterReasons \cup {"none"}]
    BY <1>1, <1>4 DEF Inv, TypeOK, DeadLetterReasons
  <2>4. pc' \in [Consumers -> Stages]
    BY <1>1 DEF Inv, TypeOK, Stages, TxnStages, DlqStages
  <2>5. position' \in [Partitions -> Nat]
    BY <1>1, <1>2 DEF Inv, TypeOK
  <2> QED
    BY <1>1, <2>1, <2>2, <2>3, <2>4, <2>5 DEF Inv, TypeOK
<1>7. Grows
  BY <1>1 DEF Grows, Inv, TypeOK
<1>8. \A i \in 1..position[p] : Handled(p, i)
  <2>1. PositionInv(p) /\ owner[p] = c /\ c # None
    BY <1>1, ConsumerAssumption DEF Inv
  <2>2. pc[c] # "down" /\ ~ Busy(c)
    BY <1>1 DEF Busy
  <2> QED
    BY <2>1, <2>2 DEF PositionInv, Busy
<1>9. \A i \in 1..position[p] : Handled(p, i)'
  <2> TAKE i \in 1..position[p]
  <2>1. i \in 1..Len(log[p]) /\ Handled(p, i)
    BY <1>2, <1>8
  <2> QED
    BY <1>7, <2>1, HandledStays DEF Inv
<1>10. ConsumerInv(c)'
  <2>1. cur'[c].partition = p /\ cur'[c].offset = o
    BY <1>5
  <2>2. attempt'[c] \in 1..AttemptLimit(c)'
    BY <1>5, ConsumerAssumption DEF AttemptLimit
  <2>3. HandInv(c)'
    BY <1>1, <1>2, <1>5, <1>9, <2>1, <2>2 DEF HandInv, Coordinates
  <2>4. InHand(c)' = m
    BY <1>1, <2>1 DEF InHand, MessageAt
  <2>5. TxnInv(c)'
    BY <1>5, <2>4 DEF TxnInv, TxnStages
  <2>6. copies'[c] = 0
    BY <1>1 DEF Inv, ConsumerInv, DlqInv, DlqStages
  <2>7. pc'[c] = "publish" => Projection!MayBury(m, reason'[c])
    BY <1>5 DEF Projection!MayBury, Projection!ContractDefect,
       Projection!ParseError, ContractDefect, ParseError
  <2>8. DlqInv(c)'
    BY <1>5, <2>4, <2>6, <2>7 DEF DlqInv, DlqStages
  <2> QED
    BY <1>5, <2>3, <2>5, <2>8 DEF ConsumerInv
<1>11. \A d \in Consumers \ {c} : SameMemory(d) /\ ConsumerInv(d)'
  <2> TAKE d \in Consumers \ {c}
  <2>1. SameMemory(d)
    BY <1>1 DEF SameMemory, Inv, TypeOK
  <2> QED
    BY <1>7, <2>1, ConsumerInvStays DEF Inv
<1>12. PositionInv(p)'
  <2>1. position'[p] <= Len(log'[p]) /\ owner'[p] = c
    BY <1>1, <1>2, <1>5
  <2>2. Busy(c)'
    BY <1>5 DEF Busy
  <2>3. ASSUME NEW i \in 1..o
        PROVE  \/ Handled(p, i)'
               \/ cur'[c] = [partition |-> p, offset |-> i]
    <3>1. i \in 1..position[p] \/ i = o
      BY <1>2
    <3> QED
      BY <1>5, <1>9, <3>1
  <2> QED
    BY <1>5, <2>1, <2>2, <2>3 DEF PositionInv, Busy
<1>13. ASSUME NEW q \in Partitions \ {p} PROVE PositionInv(q)'
  <2>1. position'[q] = position[q] /\ owner'[q] = owner[q]
    BY <1>1 DEF Inv, TypeOK
  <2>2. owner[q] # None => OwnerKeeps(owner[q])
    <3> SUFFICES ASSUME owner[q] # None PROVE OwnerKeeps(owner[q])
      OBVIOUS
    <3>1. owner[q] \in Consumers
      BY DEF Inv, TypeOK
    <3>2. CASE owner[q] = c
      BY <1>1, <3>2 DEF OwnerKeeps, Busy
    <3>3. CASE owner[q] # c
      <4>1. SameMemory(owner[q])
        BY <1>11, <3>1, <3>3
      <4> QED
        BY <2>1, <4>1 DEF OwnerKeeps, SameMemory, Busy
    <3> QED
      BY <3>2, <3>3
  <2> QED
    BY <1>7, <2>1, <2>2, PositionInvStays DEF Inv
<1>14. \A q \in Partitions : CommittedInv(q)'
  BY <1>1, <1>7, CommittedSame
<1> QED
  BY <1>6, <1>10, <1>11, <1>12, <1>13, <1>14 DEF Inv

-----------------------------------------------------------------------------
(***************************************************************************)
(* Steps that change no message in hand: the environment and the group.    *)
(***************************************************************************)
LEMMA QuietStep ==
  ASSUME Inv, TypeOK', Grows, UNCHANGED <<processVars, position>>,
         \A p \in Partitions : committed'[p] \in 0..committed[p],
         \A p \in Partitions : owner'[p] \in {None, owner[p]}
  PROVE  Inv'
<1>1. \A d \in Consumers : SameMemory(d)
  BY DEF SameMemory
<1>2. \A d \in Consumers : ConsumerInv(d)'
  BY <1>1, ConsumerInvStays DEF Inv
<1>3. \A p \in Partitions : CommittedInv(p)'
  BY CommittedInvStays DEF Inv
<1>4. ASSUME NEW p \in Partitions PROVE PositionInv(p)'
  <2>1. owner'[p] # None => OwnerKeeps(owner[p])
    BY DEF OwnerKeeps, Busy
  <2> QED
    BY <2>1, PositionInvStays DEF Inv
<1> QED
  BY <1>2, <1>3, <1>4 DEF Inv

LEMMA ProduceGrows ==
  ASSUME NEW p \in Partitions, NEW m \in Messages, Inv, Produce(p, m)
  PROVE  log' \in [Partitions -> Seq(Messages)] /\ Grows
<1> USE DEF Produce
<1>1. /\ \A q \in Partitions : log[q] \in Seq(Messages) /\ Len(log[q]) \in Nat
      /\ log' = [log EXCEPT ![p] = Append(log[p], m)]
  BY DEF Inv, TypeOK
<1>2. /\ Append(log[p], m) \in Seq(Messages)
      /\ Len(Append(log[p], m)) = Len(log[p]) + 1
      /\ \A i \in 1..Len(log[p]) : Append(log[p], m)[i] = log[p][i]
  BY <1>1
<1>3. \A q \in Partitions : log'[q] = IF q = p THEN Append(log[p], m) ELSE log[q]
  BY <1>1 DEF Inv, TypeOK
<1>4. ASSUME NEW q \in Partitions
      PROVE  /\ Len(log[q]) <= Len(log'[q])
             /\ \A i \in 1..Len(log[q]) : log'[q][i] = log[q][i]
  <2>1. CASE q = p
    BY <1>1, <1>2, <1>3, <2>1
  <2>2. CASE q # p
    BY <1>1, <1>3, <2>2
  <2> QED
    BY <2>1, <2>2
<1>5. Grows
  BY <1>4 DEF Grows
<1>6. log' \in [Partitions -> Seq(Messages)]
  BY <1>1, <1>2 DEF Inv, TypeOK
<1> QED
  BY <1>5, <1>6

LEMMA ProduceInv ==
  ASSUME NEW p \in Partitions, NEW m \in Messages, Inv, Produce(p, m)
  PROVE  Inv'
<1>1. log' \in [Partitions -> Seq(Messages)] /\ Grows
  BY ProduceGrows
<1> USE DEF Produce
<1>2. TypeOK'
  BY <1>1 DEF Inv, TypeOK
<1>3. \A q \in Partitions : committed'[q] \in 0..committed[q]
  BY DEF Inv, TypeOK
<1>4. \A q \in Partitions : owner'[q] = owner[q]
  OBVIOUS
<1> QED
  BY <1>1, <1>2, <1>3, <1>4, QuietStep

LEMMA CreateLinkInv ==
  ASSUME NEW code \in Codes, Inv, CreateLink(code)
  PROVE  Inv'
<1> USE DEF CreateLink
<1>1. TypeOK'
  BY DEF Inv, TypeOK
<1>2. Grows
  BY DEF Grows, Inv, TypeOK
<1>3. \A q \in Partitions : committed'[q] \in 0..committed[q]
  BY DEF Inv, TypeOK
<1>4. \A q \in Partitions : owner'[q] = owner[q]
  OBVIOUS
<1> QED
  BY <1>1, <1>2, <1>3, <1>4, QuietStep

LEMMA ResetOffsetInv ==
  ASSUME NEW p \in Partitions, NEW o \in 0..MaxLog, Inv, ResetOffset(p, o)
  PROVE  Inv'
<1> USE DEF ResetOffset
<1>1. committed' = [committed EXCEPT ![p] = o] /\ o \in Nat /\ o < committed[p]
  BY ConsumerAssumption
<1>2. TypeOK'
  BY <1>1, FaultType DEF Inv, TypeOK
<1>3. Grows
  BY DEF Grows, Inv, TypeOK
<1>4. ASSUME NEW q \in Partitions PROVE committed'[q] \in 0..committed[q]
  <2>1. committed[q] \in Nat
    BY DEF Inv, TypeOK
  <2> QED
    BY <1>1, <2>1 DEF Inv, TypeOK
<1> QED
  BY <1>2, <1>3, <1>4, QuietStep DEF Inv, TypeOK

LEMMA JoinGroupInv ==
  ASSUME NEW c \in Consumers, Inv, JoinGroup(c)
  PROVE  Inv'
<1> USE DEF JoinGroup
<1>1. TypeOK'
  BY DEF Inv, TypeOK
<1>2. Grows
  BY DEF Grows, Inv, TypeOK
<1>3. \A p \in Partitions : committed'[p] \in 0..committed[p]
  BY DEF Inv, TypeOK
<1>4. \A p \in Partitions : owner'[p] \in {None, owner[p]}
  OBVIOUS
<1>5. UNCHANGED <<processVars, position>>
  BY DEF processVars
<1> QED
  BY <1>1, <1>2, <1>3, <1>4, <1>5, QuietStep

LEMMA SessionTimeoutInv ==
  ASSUME NEW c \in Consumers, Inv, SessionTimeout(c)
  PROVE  Inv'
<1> USE DEF SessionTimeout
<1>1. faults' \in 0..MaxFaults
  BY FaultType DEF Inv, TypeOK
<1>2. /\ members' \in SUBSET Consumers
      /\ owner' \in [Partitions -> Consumers \cup {None}]
      /\ \A p \in Partitions : owner'[p] \in {None, owner[p]}
  BY LeaveTypes
<1>3. TypeOK'
  BY <1>1, <1>2 DEF Inv, TypeOK
<1>4. Grows
  BY DEF Grows, Inv, TypeOK
<1> QED
  BY <1>2, <1>3, <1>4, QuietStep DEF Inv, TypeOK

(* A new process owns nothing.                                             *)
LEMMA StartInv ==
  ASSUME NEW c \in Consumers, Inv, Start(c)
  PROVE  Inv'
<1> USE DEF Start, Goto
<1>1. pc'[c] = "poll" /\ copies'[c] = 0
  BY DEF Inv, TypeOK, ConsumerInv, DlqInv, DlqStages
<1>2. TypeOK'
  <2>1. pc' \in [Consumers -> Stages]
    BY DEF Inv, TypeOK, Stages
  <2> QED
    BY <2>1 DEF Inv, TypeOK
<1>3. Grows
  BY DEF Grows, Inv, TypeOK
<1>4. \A d \in Consumers \ {c} : SameMemory(d)
  BY DEF SameMemory, Inv, TypeOK
<1>5. ASSUME NEW d \in Consumers PROVE ConsumerInv(d)'
  <2>1. CASE d = c
    BY <1>1, <2>1
    DEF ConsumerInv, HandInv, TxnInv, DlqInv, Busy, TxnStages, DlqStages
  <2>2. CASE d # c
    BY <1>3, <1>4, <2>2, ConsumerInvStays DEF Inv
  <2> QED
    BY <2>1, <2>2
<1>6. ASSUME NEW p \in Partitions PROVE PositionInv(p)'
  <2>1. owner'[p] = IF owner[p] = c THEN None ELSE owner[p]
    OBVIOUS
  <2>2. owner'[p] # None => owner[p] \in Consumers \ {c}
    BY <2>1 DEF Inv, TypeOK
  <2>3. owner'[p] # None => OwnerKeeps(owner[p])
    <3> SUFFICES ASSUME owner'[p] # None PROVE OwnerKeeps(owner[p])
      OBVIOUS
    <3> QED
      BY <1>4, <2>2 DEF OwnerKeeps, SameMemory, Busy
  <2>4. owner'[p] \in {None, owner[p]}
    BY <2>1
  <2> QED
    BY <1>3, <2>3, <2>4, PositionInvStays DEF Inv
<1>7. \A p \in Partitions : CommittedInv(p)'
  BY <1>3, CommittedSame
<1> QED
  BY <1>2, <1>5, <1>6, <1>7 DEF Inv

(* A partition dealt out is read on from its committed offset, and all     *)
(* that is committed is handled.                                           *)
LEMMA AssignInv ==
  ASSUME Inv, Assign
  PROVE  Inv'
<1> USE DEF Assign
<1>1. TypeOK'
  BY DEF Inv, TypeOK
<1>2. Grows
  BY DEF Grows, Inv, TypeOK
<1>3. \A d \in Consumers : SameMemory(d)
  BY DEF SameMemory
<1>4. \A d \in Consumers : ConsumerInv(d)'
  BY <1>2, <1>3, ConsumerInvStays DEF Inv
<1>5. \A p \in Partitions : CommittedInv(p)'
  BY <1>2, CommittedSame
<1>6. \A p \in Partitions : PositionInv(p)'
  <2> TAKE p \in Partitions
  <2>1. position'[p] = committed'[p]
    OBVIOUS
  <2> QED
    BY <1>5, <2>1 DEF CommittedInv, PositionInv
<1> QED
  BY <1>1, <1>4, <1>5, <1>6 DEF Inv

-----------------------------------------------------------------------------
LEMMA InitInv ==
  ASSUME Init
  PROVE  Inv
<1> USE DEF Init
<1>1. TypeOK
  <2>1. NoTxn \in Txn
    BY DEF NoTxn, Txn
  <2>2. NoTotals \in TotalsRow
    BY DEF NoTotals, TotalsRow
  <2>3. \A p \in Partitions : <<>> \in Seq(Messages)
    OBVIOUS
  <2>4. attempt \in [Consumers -> 0..MaxAttempts]
    BY Limits
  <2>5. /\ copies \in [Consumers -> 0..ProcessingMaxAttempts]
        /\ faults \in 0..MaxFaults
    BY ConsumerAssumption
  <2> QED
    BY <2>1, <2>2, <2>3, <2>4, <2>5 DEF TypeOK, Stages
<1>2. \A c \in Consumers : ConsumerInv(c)
  BY DEF ConsumerInv, HandInv, TxnInv, DlqInv, Busy, TxnStages, DlqStages
<1>3. \A p \in Partitions : PositionInv(p) /\ CommittedInv(p)
  BY DEF PositionInv, CommittedInv
<1> QED
  BY <1>1, <1>2, <1>3 DEF Inv

-----------------------------------------------------------------------------
(* The induction step, one action at a time.                               *)
LEMMA NextInv ==
  ASSUME Inv, [Next]_vars
  PROVE  Inv'
<1>1. CASE UNCHANGED vars
  <2>1. TypeOK'
    BY <1>1 DEF vars, Inv, TypeOK
  <2>2. Grows
    BY <1>1 DEF vars, Grows, Inv, TypeOK
  <2>3. \A p \in Partitions : committed'[p] \in 0..committed[p]
    BY <1>1 DEF vars, Inv, TypeOK
  <2> QED
    BY <1>1, <2>1, <2>2, <2>3, QuietStep DEF vars
<1>2. CASE Environment
  BY <1>2, ProduceInv, CreateLinkInv, ResetOffsetInv, AssignInv DEF Environment
<1>3. ASSUME NEW c \in Consumers, Start(c) \/ JoinGroup(c) \/ SessionTimeout(c)
      PROVE  Inv'
  BY <1>3, StartInv, JoinGroupInv, SessionTimeoutInv
<1>4. ASSUME NEW c \in Consumers, Work(c)
      PROVE  Inv'
  BY <1>4, PollInv, StartTransactionInv, InsertReceiptInv, MarkIgnoredInv,
     FindShortLinkInv, UpsertTotalsInv, UpsertHourlyInv, MarkAggregatedInv,
     CommitTransactionInv, DlqProduceInv, DlqDeliveredInv, DlqFlushedInv,
     CommitOffsetInv DEF Work
<1>5. ASSUME NEW c \in Consumers, Failure(c)
      PROVE  Inv'
  BY <1>5, StatementFailsInv, CommitReplyLostInv, DlqProduceFailsInv,
     DlqDeliveryFailsInv, DlqFlushTimesOutInv, CommitOffsetFailsInv,
     OffsetReplyLostInv, CrashInv, StopInv DEF Failure
<1> QED
  BY <1>1, <1>2, <1>3, <1>4, <1>5 DEF Next

(***************************************************************************)
(* The strengthened invariant holds in every reachable state.              *)
(***************************************************************************)
THEOREM Invariance == Spec => []Inv
<1>1. Init => Inv
  BY InitInv
<1>2. Inv /\ [Next]_vars => Inv'
  BY NextInv
<1> QED
  BY <1>1, <1>2, PTL DEF Spec

(***************************************************************************)
(* Every variable keeps its type: in particular the attempt counters of    *)
(* persistWithRetry, publishToDeadLetter and commitWithRetry and the       *)
(* number of DLQ copies in flight never pass their configured limits.      *)
(***************************************************************************)
THEOREM TypeCorrect == Spec => []TypeOK
<1>1. Inv => TypeOK
  BY DEF Inv
<1> QED
  BY <1>1, Invariance, PTL

(***************************************************************************)
(* At-least-once: for any number of consumers, partitions, retries and     *)
(* faults, an offset the group has committed only covers messages that are *)
(* recorded in MySQL or stored in the dead-letter topic.                   *)
(***************************************************************************)
THEOREM NoMessageLost == Spec => []CommittedIsHandled
<1>1. Inv => CommittedIsHandled
  BY DEF Inv, CommittedInv, CommittedIsHandled
<1> QED
  BY <1>1, Invariance, PTL

-----------------------------------------------------------------------------
(* Whatever reaches the DLQ topic is a copy some process had in flight.    *)
LEMMA OnlyCopiesAreBuried ==
  ASSUME [Next]_vars
  PROVE  dlq' = dlq \/ \E c \in Consumers : InFlightCopiesLand(c)
<1>1. CASE UNCHANGED vars
  BY <1>1 DEF vars
<1>2. CASE Environment
  BY <1>2 DEF Environment, Produce, CreateLink, ResetOffset, Assign
<1>3. ASSUME NEW c \in Consumers, Start(c) \/ JoinGroup(c) \/ SessionTimeout(c)
      PROVE  dlq' = dlq
  BY <1>3 DEF Start, JoinGroup, SessionTimeout
<1>4. ASSUME NEW c \in Consumers, Work(c)
      PROVE  dlq' = dlq \/ InFlightCopiesLand(c)
  <2>1. CASE DlqDelivered(c)
    BY <2>1 DEF DlqDelivered, InFlightCopiesLand
  <2>2. CASE DlqFlushed(c)
    BY <2>2 DEF DlqFlushed, DlqAttemptFailed, Exit
  <2>3. CASE \E p \in Partitions : Poll(c, p)
    BY <2>3 DEF Poll
  <2>4. CASE DlqProduce(c) \/ CommitOffset(c)
    BY <2>4 DEF DlqProduce, CommitOffset
  <2> QED
    BY <1>4, <2>1, <2>2, <2>3, <2>4
    DEF Work, StartTransaction, InsertReceipt, MarkIgnored, FindShortLink,
        UpsertTotals, UpsertHourly, MarkAggregated, CommitTransaction
<1>5. ASSUME NEW c \in Consumers, Failure(c)
      PROVE  dlq' = dlq \/ InFlightCopiesLand(c)
  <2>1. CASE StatementFails(c) \/ CommitReplyLost(c)
    BY <2>1 DEF StatementFails, CommitReplyLost, PersistFailed, Exit
  <2>2. CASE DlqProduceFails(c) \/ DlqFlushTimesOut(c)
    BY <2>2 DEF DlqProduceFails, DlqFlushTimesOut, DlqAttemptFailed, Exit
  <2>3. CASE DlqDeliveryFails(c) \/ Crash(c) \/ Stop(c)
    BY <2>3 DEF DlqDeliveryFails, Crash, Stop, Exit
  <2>4. CASE CommitOffsetFails(c) \/ OffsetReplyLost(c)
    BY <2>4 DEF CommitOffsetFails, OffsetReplyLost
  <2> QED
    BY <1>5, <2>1, <2>2, <2>3, <2>4 DEF Failure
<1> QED
  BY <1>1, <1>2, <1>3, <1>4, <1>5 DEF Next

(* Messages are appended and never changed.                                *)
LEMMA LogGrows ==
  ASSUME Inv, [Next]_vars
  PROVE  \A p \in Partitions :
           /\ Len(log[p]) <= Len(log'[p])
           /\ \A i \in 1..Len(log[p]) : log'[p][i] = log[p][i]
<1>1. CASE log' = log
  BY <1>1 DEF Inv, TypeOK
<1>2. ASSUME NEW p \in Partitions, NEW m \in Messages, Produce(p, m)
      PROVE  Grows
  BY <1>2, ProduceGrows
<1>3. log' = log \/ \E p \in Partitions, m \in Messages : Produce(p, m)
  <2>1. CASE UNCHANGED vars
    BY <2>1 DEF vars
  <2>2. CASE Environment
    BY <2>2 DEF Environment, CreateLink, ResetOffset, Assign
  <2>3. ASSUME NEW c \in Consumers, Start(c) \/ JoinGroup(c) \/ SessionTimeout(c)
        PROVE  log' = log
    BY <2>3 DEF Start, JoinGroup, SessionTimeout
  <2>4. ASSUME NEW c \in Consumers, Work(c)
        PROVE  log' = log
    <3>1. CASE DlqFlushed(c)
      BY <3>1 DEF DlqFlushed, DlqAttemptFailed, Exit
    <3> QED
      BY <2>4, <3>1
      DEF Work, Poll, StartTransaction, InsertReceipt, MarkIgnored,
          FindShortLink, UpsertTotals, UpsertHourly, MarkAggregated,
          CommitTransaction, DlqProduce, DlqDelivered, CommitOffset
  <2>5. ASSUME NEW c \in Consumers, Failure(c)
        PROVE  log' = log
    <3>1. CASE StatementFails(c) \/ CommitReplyLost(c)
      BY <3>1 DEF StatementFails, CommitReplyLost, PersistFailed, Exit
    <3>2. CASE DlqProduceFails(c) \/ DlqFlushTimesOut(c)
      BY <3>2 DEF DlqProduceFails, DlqFlushTimesOut, DlqAttemptFailed, Exit
    <3>3. CASE DlqDeliveryFails(c) \/ Crash(c) \/ Stop(c)
      BY <3>3 DEF DlqDeliveryFails, Crash, Stop, Exit
    <3> QED
      BY <2>5, <3>1, <3>2, <3>3 DEF Failure, CommitOffsetFails, OffsetReplyLost
  <2> QED
    BY <2>1, <2>2, <2>3, <2>4, <2>5 DEF Next
<1> QED
  BY <1>1, <1>2, <1>3 DEF Grows

LEMMA BuriedStepInv ==
  ASSUME Inv, DeadLettersAreDefects, [Next]_vars
  PROVE  DeadLettersAreDefects'
<1> SUFFICES ASSUME NEW d \in dlq'
             PROVE  /\ d.source.offset \in 1..Len(log'[d.source.partition])
                    /\ Projection!MayBury(MessageAt(d.source)', d.reason)
  BY DEF DeadLettersAreDefects, Projection!MayBury, Projection!ContractDefect,
     Projection!ParseError
<1>1. d.source \in Coordinates /\ d.source.offset \in 1..Len(log[d.source.partition])
      /\ Projection!MayBury(MessageAt(d.source), d.reason)
  <2>1. CASE d \in dlq
    BY <2>1 DEF DeadLettersAreDefects, Inv, TypeOK, DeadLetter
  <2>2. CASE d \notin dlq
    <3>1. PICK c \in Consumers : copies[c] > 0 /\ d = DeadLetterOf(c)
      BY <2>2, OnlyCopiesAreBuried DEF InFlightCopiesLand
    <3>2. pc[c] \in DlqStages /\ Busy(c) /\ Projection!MayBury(InHand(c), reason[c])
      BY <3>1 DEF Inv, TypeOK, ConsumerInv, DlqInv, DlqStages, Busy
    <3>3. d.source = cur[c] /\ d.reason = reason[c]
      BY <3>1 DEF DeadLetterOf
    <3>4. cur[c] \in Coordinates /\ cur[c].offset <= Len(log[cur[c].partition])
      BY <3>2 DEF Inv, ConsumerInv, HandInv
    <3>5. cur[c].offset \in 1..Len(log[cur[c].partition])
      BY <3>4 DEF Coordinates, Inv, TypeOK
    <3> QED
      BY <3>2, <3>3, <3>4, <3>5 DEF InHand
  <2> QED
    BY <2>1, <2>2
<1>2. PICK p \in Partitions, o \in Nat \ {0} :
        d.source = [partition |-> p, offset |-> o]
  BY <1>1 DEF Coordinates
<1>3. d.source.partition = p /\ d.source.offset = o
  BY <1>2
<1>4. log'[p][o] = log[p][o] /\ o \in 1..Len(log'[p])
  <2>1. o \in 1..Len(log[p]) /\ Len(log[p]) \in Nat
    BY <1>1, <1>3 DEF Inv, TypeOK
  <2>2. Len(log'[p]) \in Nat
    BY NextInv DEF Inv, TypeOK
  <2> QED
    BY <2>1, <2>2, LogGrows
<1>5. MessageAt(d.source)' = MessageAt(d.source)
  BY <1>3, <1>4 DEF MessageAt
<1> QED
  BY <1>1, <1>3, <1>4, <1>5

(***************************************************************************)
(* The DLQ topic only ever takes messages that break the event contract or *)
(* name a code without a row, whatever fails in MySQL or Kafka, and each   *)
(* under the reason that applies to it.                                    *)
(***************************************************************************)
THEOREM OnlyDefectsAreBuried == Spec => []DeadLettersAreDefects
<1>1. Init => DeadLettersAreDefects
  BY DEF Init, DeadLettersAreDefects
<1>2. Inv /\ DeadLettersAreDefects /\ [Next]_vars => DeadLettersAreDefects'
  BY BuriedStepInv
<1> QED
  BY <1>1, <1>2, Invariance, PTL DEF Spec

-----------------------------------------------------------------------------
(***************************************************************************)
(* What one step may do, for the refinement.  A step of a consumer leaves  *)
(* the memory of the others alone; it writes inside its open transaction,  *)
(* or commits that transaction, or ends with no transaction open and then  *)
(* buries its message, commits its offset, or shows nothing outside.       *)
(***************************************************************************)
LEMMA StepGrows ==
  ASSUME Inv, [Next]_vars
  PROVE  Grows
<1>1. dlq \subseteq dlq'
  BY OnlyCopiesAreBuried, CopiesLand
<1>2. \A e \in EventIds : receipts[e] # None => receipts'[e] # None
  <2>1. CASE receipts' = receipts
    BY <2>1
  <2>2. ASSUME NEW c \in Consumers, pc[c] = "commit_txn", TxnCommitted(c)
        PROVE  \A e \in EventIds : receipts[e] # None => receipts'[e] # None
    BY <2>2, CommitTypes DEF TxnStages
  <2>3. \/ receipts' = receipts
        \/ \E c \in Consumers : pc[c] = "commit_txn" /\ TxnCommitted(c)
    <3>1. CASE UNCHANGED vars
      BY <3>1 DEF vars
    <3>2. CASE Environment
      BY <3>2 DEF Environment, Produce, CreateLink, ResetOffset, Assign
    <3>3. ASSUME NEW c \in Consumers, Start(c) \/ JoinGroup(c) \/ SessionTimeout(c)
          PROVE  receipts' = receipts
      BY <3>3 DEF Start, JoinGroup, SessionTimeout
    <3>4. ASSUME NEW c \in Consumers, Work(c)
          PROVE  \/ receipts' = receipts
                 \/ pc[c] = "commit_txn" /\ TxnCommitted(c)
      BY <3>4
      DEF Work, Poll, StartTransaction, InsertReceipt, MarkIgnored,
          FindShortLink, UpsertTotals, UpsertHourly, MarkAggregated,
          CommitTransaction, DlqProduce, DlqDelivered, DlqFlushed, CommitOffset
    <3>5. ASSUME NEW c \in Consumers, Failure(c)
          PROVE  \/ receipts' = receipts
                 \/ pc[c] = "commit_txn" /\ TxnCommitted(c)
      BY <3>5
      DEF Failure, StatementFails, CommitReplyLost, DlqProduceFails,
          DlqDeliveryFails, DlqFlushTimesOut, CommitOffsetFails,
          OffsetReplyLost, Crash, Stop
    <3> QED
      BY <3>1, <3>2, <3>3, <3>4, <3>5 DEF Next
  <2> QED
    BY <2>1, <2>2, <2>3
<1> QED
  BY <1>1, <1>2, LogGrows DEF Grows

(* The process keeps its name, its memory and nothing else.                *)
LEMMA OthersKeep ==
  ASSUME NEW c \in Consumers, NEW d \in Consumers \ {c}, TypeOK,
         Start(c) \/ Work(c) \/ Failure(c)
  PROVE  SameMemory(d)
<1> USE DEF SameMemory, TypeOK, Goto
<1>1. ASSUME LoseProcess(c) PROVE SameMemory(d)
  BY <1>1 DEF LoseProcess
<1>2. CASE Start(c)
  BY <1>2 DEF Start
<1>3. CASE \E p \in Partitions : Poll(c, p)
  BY <1>3 DEF Poll
<1>4. CASE \/ StartTransaction(c) \/ InsertReceipt(c) \/ MarkIgnored(c)
           \/ FindShortLink(c) \/ UpsertTotals(c) \/ UpsertHourly(c)
           \/ MarkAggregated(c) \/ CommitTransaction(c)
  BY <1>4
  DEF StartTransaction, InsertReceipt, MarkIgnored, FindShortLink,
      UpsertTotals, UpsertHourly, MarkAggregated, CommitTransaction
<1>5. CASE DlqProduce(c) \/ DlqDelivered(c) \/ DlqDeliveryFails(c)
  BY <1>5 DEF DlqProduce, DlqDelivered, DlqDeliveryFails
<1>6. CASE DlqProduceFails(c) \/ DlqFlushed(c) \/ DlqFlushTimesOut(c)
  BY <1>1, <1>6
  DEF DlqProduceFails, DlqFlushed, DlqFlushTimesOut, DlqAttemptFailed, Exit
<1>7. CASE StatementFails(c) \/ CommitReplyLost(c)
  BY <1>1, <1>7 DEF StatementFails, CommitReplyLost, PersistFailed, Exit
<1>8. CASE CommitOffset(c) \/ CommitOffsetFails(c) \/ OffsetReplyLost(c)
  BY <1>1, <1>8
  DEF CommitOffset, BackToPoll, CommitOffsetFails, OffsetReplyLost,
      OffsetAttemptFailed
<1>9. CASE Crash(c) \/ Stop(c)
  BY <1>1, <1>9 DEF Crash, Stop, Exit
<1> QED
  BY <1>2, <1>3, <1>4, <1>5, <1>6, <1>7, <1>8, <1>9 DEF Work, Failure

Writing(c) ==
  \/ InsertReceipt(c) \/ MarkIgnored(c) \/ FindShortLink(c)
  \/ UpsertTotals(c) \/ UpsertHourly(c) \/ MarkAggregated(c)

Recording(c) ==
  /\ pc[c] = "commit_txn" /\ TxnCommitted(c)
  /\ UNCHANGED <<log, committed, dlq, links>>

Burying(c) == InFlightCopiesLand(c) /\ UNCHANGED <<log, committed, links, tableVars>>

Committing(c) ==
  /\ pc[c] = "commit_offset" /\ OffsetCommitted(c)
  /\ UNCHANGED <<log, dlq, links, tableVars>>

Hidden == UNCHANGED <<log, committed, dlq, links, tableVars>>

LEMMA StepKinds ==
  ASSUME NEW c \in Consumers, Inv, RecordInv, Start(c) \/ Work(c) \/ Failure(c)
  PROVE  \/ Writing(c)
         \/ /\ txn'[c] = NoTxn /\ pc'[c] \notin OpenStages
            /\ Recording(c) \/ Burying(c) \/ Committing(c) \/ Hidden
<1> USE DEF Goto
<1> DEFINE Closed == txn'[c] = NoTxn /\ pc'[c] \notin OpenStages
<1>1. /\ c \in DOMAIN txn /\ c \in DOMAIN pc
      /\ txn = [x \in Consumers |-> txn[x]] /\ pc = [x \in Consumers |-> pc[x]]
  BY DEF Inv, TypeOK
<1>2. pc[c] \notin OpenStages \cup {"commit_txn"} => txn[c] = NoTxn
  BY DEF RecordInv, WritesInv
<1>3. pc[c] \notin DlqStages /\ InFlightCopiesLand(c) => dlq' = dlq
  <2>1. pc[c] \notin DlqStages => copies[c] = 0
    BY DEF Inv, ConsumerInv, DlqInv
  <2> QED
    BY <2>1 DEF InFlightCopiesLand
<1>4. ASSUME LoseProcess(c) PROVE Closed
  BY <1>1, <1>4 DEF LoseProcess, OpenStages
<1>5. CASE Start(c)
  BY <1>1, <1>2, <1>5 DEF Start, Hidden, OpenStages
<1>6. CASE \E p \in Partitions : Poll(c, p)
  BY <1>1, <1>2, <1>6 DEF Poll, Hidden, OpenStages
<1>7. CASE StartTransaction(c)
  BY <1>1, <1>7 DEF StartTransaction, Hidden, OpenStages
<1>8. CASE CommitTransaction(c)
  BY <1>1, <1>8 DEF CommitTransaction, Recording, OpenStages
<1>9. CASE StatementFails(c) \/ CommitReplyLost(c)
  <2>1. pc[c] \notin DlqStages
    BY <1>9 DEF StatementFails, CommitReplyLost, TxnStages, DlqStages
  <2>2. Closed /\ UNCHANGED <<log, committed, dlq>>
    BY <1>1, <1>3, <1>4, <1>9, <2>1
    DEF StatementFails, CommitReplyLost, PersistFailed, Exit, OpenStages
  <2> QED
    BY <1>9, <2>2 DEF StatementFails, CommitReplyLost, Hidden, Recording
<1>10. CASE DlqProduce(c) \/ DlqDelivered(c) \/ DlqDeliveryFails(c)
  <2>1. Closed
    BY <1>1, <1>2, <1>10
    DEF DlqProduce, DlqDelivered, DlqDeliveryFails, OpenStages
  <2> QED
    BY <1>10, <2>1
    DEF DlqProduce, DlqDelivered, DlqDeliveryFails, Hidden, Burying,
        InFlightCopiesLand
<1>11. CASE DlqProduceFails(c) \/ DlqFlushed(c) \/ DlqFlushTimesOut(c)
  <2>1. txn[c] = NoTxn
    BY <1>2, <1>11
    DEF DlqProduceFails, DlqFlushed, DlqFlushTimesOut, OpenStages
  <2>2. Closed /\ UNCHANGED <<log, committed>>
    BY <1>1, <1>4, <1>11, <2>1
    DEF DlqProduceFails, DlqFlushed, DlqFlushTimesOut, DlqAttemptFailed, Exit,
        OpenStages
  <2>3. InFlightCopiesLand(c) \/ UNCHANGED dlq
    BY <1>11
    DEF DlqProduceFails, DlqFlushed, DlqFlushTimesOut, DlqAttemptFailed, Exit
  <2> QED
    BY <1>11, <2>2, <2>3
    DEF DlqProduceFails, DlqFlushed, DlqFlushTimesOut, Burying, Hidden
<1>12. CASE CommitOffset(c) \/ CommitOffsetFails(c) \/ OffsetReplyLost(c)
  <2>1. txn[c] = NoTxn /\ pc[c] = "commit_offset"
    BY <1>2, <1>12
    DEF CommitOffset, CommitOffsetFails, OffsetReplyLost, OpenStages
  <2>2. Closed
    BY <1>1, <1>4, <1>12, <2>1
    DEF CommitOffset, BackToPoll, CommitOffsetFails, OffsetReplyLost,
        OffsetAttemptFailed, OpenStages
  <2> QED
    BY <1>12, <2>1, <2>2
    DEF CommitOffset, CommitOffsetFails, OffsetReplyLost, Committing, Hidden
<1>13. CASE Crash(c) \/ Stop(c)
  BY <1>4, <1>13 DEF Crash, Stop, Exit, Burying
<1> QED
  BY <1>5, <1>6, <1>7, <1>8, <1>9, <1>10, <1>11, <1>12, <1>13
  DEF Work, Failure, Writing

-----------------------------------------------------------------------------
(* A busy process that keeps its memory keeps the message in its hand.     *)
LEMMA InHandStays ==
  ASSUME Inv, Grows, NEW c \in Consumers, Busy(c), cur'[c] = cur[c]
  PROVE  InHand(c)' = InHand(c) /\ InHand(c) \in Messages
<1>1. PICK p \in Partitions, o \in Nat \ {0} :
        cur[c] = [partition |-> p, offset |-> o]
  BY DEF Inv, ConsumerInv, HandInv, Coordinates
<1>2. /\ cur[c].partition = p /\ cur[c].offset = o
      /\ cur'[c].partition = p /\ cur'[c].offset = o
  BY <1>1
<1>3. o \in 1..Len(log[p])
  BY <1>2 DEF Inv, ConsumerInv, HandInv, TypeOK
<1> QED
  BY <1>2, <1>3, LogEntry DEF Inv, Grows, InHand, MessageAt

(* The columns a statement leaves alone keep their value.                  *)
LEMMA WrittenFields ==
  /\ NoTxn = Written("absent", FALSE, FALSE)
  /\ \A r, t, h : LET w == Written(r, t, h)
                  IN  w.receipt = r /\ w.totals = t /\ w.hourly = h
BY DEF Written, NoTxn

LEMMA TxnWrites ==
  ASSUME NEW c \in Consumers, TypeOK, NEW r, NEW t \in BOOLEAN,
         NEW h \in BOOLEAN, txn[c] = Written(r, t, h)
  PROVE  /\ \A x : txn' = [txn EXCEPT ![c].receipt = x] => txn'[c] = Written(x, t, h)
         /\ txn' = [txn EXCEPT ![c].totals = TRUE] => txn'[c] = Written(r, TRUE, h)
         /\ txn' = [txn EXCEPT ![c].hourly = TRUE] => txn'[c] = Written(r, t, TRUE)
<1>1. ASSUME NEW x, txn' = [txn EXCEPT ![c].receipt = x]
      PROVE  txn'[c] = Written(x, t, h)
  <2>1. txn'[c] = [Written(r, t, h) EXCEPT !.receipt = x]
    BY <1>1 DEF TypeOK
  <2> QED
    BY <2>1 DEF Written
<1>2. ASSUME txn' = [txn EXCEPT ![c].totals = TRUE]
      PROVE  txn'[c] = Written(r, TRUE, h)
  <2>1. txn'[c] = [Written(r, t, h) EXCEPT !.totals = TRUE]
    BY <1>2 DEF TypeOK
  <2> QED
    BY <2>1 DEF Written
<1>3. ASSUME txn' = [txn EXCEPT ![c].hourly = TRUE]
      PROVE  txn'[c] = Written(r, t, TRUE)
  <2>1. txn'[c] = [Written(r, t, h) EXCEPT !.hourly = TRUE]
    BY <1>3 DEF TypeOK
  <2> QED
    BY <2>1 DEF Written
<1> QED
  BY <1>1, <1>2, <1>3

LEMMA HoldersAreBusy ==
  ASSUME NEW c \in Consumers, WritesInv(c),
         HoldsReceipt(c) \/ txn[c].totals \/ pc[c] \in OpenStages
  PROVE  Busy(c) /\ pc[c] \in TxnStages
BY DEF HoldsReceipt, WritesInv, Written, NoTxn, OpenStages, Busy, TxnStages

(* The open transaction of a process that does not move.                   *)
LEMMA RecordStays ==
  ASSUME Inv, RecordInv, Grows, links \subseteq links',
         NEW d \in Consumers, SameMemory(d)
  PROVE  /\ WritesInv(d)' /\ LinkInv(d)'
         /\ HoldsReceipt(d)' <=> HoldsReceipt(d)
         /\ HoldsReceipt(d) => InHand(d)' = InHand(d) /\ InHand(d).id \in EventIds
<1>1. WritesInv(d) /\ LinkInv(d)
  BY DEF RecordInv
<1>2. Busy(d) => InHand(d)' = InHand(d) /\ InHand(d) \in Messages
  BY InHandStays DEF SameMemory
<1>3. WritesInv(d)'
  BY <1>1, <1>2 DEF WritesInv, SameMemory, Busy
<1>4. LinkInv(d)'
  BY <1>1, <1>2, HoldersAreBusy DEF LinkInv, SameMemory, OpenStages
<1>5. HoldsReceipt(d) => Busy(d)
  BY <1>1, HoldersAreBusy
<1> QED
  BY <1>2, <1>3, <1>4, <1>5, MessageFields DEF HoldsReceipt, SameMemory

(***************************************************************************)
(* The frame of a step of consumer c: the others keep their locks, so it   *)
(* is enough to look at c and at the receipts of the other holders.        *)
(***************************************************************************)
LEMMA RecordStep ==
  ASSUME NEW c \in Consumers, Inv, RecordInv, Grows, links \subseteq links',
         \A d \in Consumers \ {c} : SameMemory(d),
         WritesInv(c)', LinkInv(c)',
         HoldsReceipt(c)' =>
           /\ receipts'[InHand(c)'.id] = None
           /\ \A d \in Consumers \ {c} :
                HoldsReceipt(d) => InHand(d).id # InHand(c)'.id,
         \A d \in Consumers \ {c} :
           HoldsReceipt(d) => receipts'[InHand(d).id] = None
  PROVE  RecordInv'
<1>1. ASSUME NEW d \in Consumers \ {c}
      PROVE  /\ WritesInv(d)' /\ LinkInv(d)'
             /\ HoldsReceipt(d)' <=> HoldsReceipt(d)
             /\ HoldsReceipt(d) => InHand(d)' = InHand(d)
  BY RecordStays
<1>2. LockInv(c)'
  BY <1>1 DEF LockInv
<1>3. ASSUME NEW d \in Consumers \ {c}
      PROVE  LockInv(d)'
  <2>1. LockInv(d)
    BY DEF RecordInv
  <2> SUFFICES ASSUME HoldsReceipt(d)'
               PROVE  /\ receipts'[InHand(d)'.id] = None
                      /\ \A e \in Consumers \ {d} :
                           HoldsReceipt(e)' => InHand(e)'.id # InHand(d)'.id
    BY DEF LockInv
  <2>2. ASSUME NEW e \in Consumers \ {d}, HoldsReceipt(e)'
        PROVE  InHand(e)'.id # InHand(d)'.id
    <3>1. CASE e = c
      BY <1>1, <2>2, <3>1
    <3>2. CASE e # c
      BY <1>1, <2>1, <2>2, <3>2 DEF LockInv
    <3> QED
      BY <3>1, <3>2
  <2> QED
    BY <1>1, <2>2
<1> QED
  BY <1>1, <1>2, <1>3 DEF RecordInv

(* Steps that change no process and no receipt.                            *)
LEMMA RecordQuiet ==
  ASSUME Inv, RecordInv, Grows, links \subseteq links',
         UNCHANGED <<processVars, receipts>>
  PROVE  RecordInv'
<1>1. \A d \in Consumers : SameMemory(d)
  BY DEF SameMemory
<1>2. ASSUME NEW d \in Consumers
      PROVE  /\ WritesInv(d)' /\ LinkInv(d)'
             /\ HoldsReceipt(d)' <=> HoldsReceipt(d)
             /\ HoldsReceipt(d) => InHand(d)' = InHand(d)
  BY <1>1, RecordStays
<1>3. ASSUME NEW d \in Consumers
      PROVE  LockInv(d)'
  BY <1>2 DEF LockInv, RecordInv
<1> QED
  BY <1>2, <1>3 DEF RecordInv

(* INSERT IGNORE takes the lock of a receipt nobody holds or has.          *)
LEMMA InsertReceiptRecord ==
  ASSUME NEW c \in Consumers, Inv, RecordInv, Grows, InsertReceipt(c)
  PROVE  RecordInv'
<1> USE DEF InsertReceipt, Goto
<1>1. \A d \in Consumers \ {c} : SameMemory(d)
  BY OthersKeep DEF Work, Inv
<1>2. InHand(c)' = InHand(c) /\ InHand(c) \in Messages
  BY InHandStays DEF Busy
<1>3. WritesInv(c) /\ txn[c] = NoTxn
  BY DEF RecordInv, WritesInv, OpenStages
<1>4. \A d \in Consumers \ {c} :
        HoldsReceipt(d) => /\ InHand(d).id # InHand(c).id
                           /\ receipts'[InHand(d).id] = None
  BY DEF LockedReceipt, HoldsReceipt, RecordInv, LockInv
<1>5. CASE receipts[InHand(c).id] # None
  <2>1. pc'[c] = "commit_txn" /\ txn'[c] = NoTxn
    BY <1>3, <1>5 DEF Inv, TypeOK
  <2>2. WritesInv(c)' /\ LinkInv(c)' /\ ~ HoldsReceipt(c)'
    BY <2>1 DEF WritesInv, LinkInv, HoldsReceipt, OpenStages, NoTxn
  <2> QED
    BY <1>1, <1>4, <2>2, RecordStep
<1>6. CASE receipts[InHand(c).id] = None
  <2>1. /\ pc'[c] \in {"ignore", "find"}
        /\ txn' = [txn EXCEPT ![c].receipt = "received"]
    BY <1>6 DEF Inv, TypeOK
  <2>2. txn'[c] = Written("received", FALSE, FALSE)
    <3>1. txn[c] = Written("absent", FALSE, FALSE)
      BY <1>3, WrittenFields
    <3> QED
      BY <2>1, <3>1, TxnWrites DEF Inv
  <2>3. WritesInv(c)' /\ LinkInv(c)'
    <3>1. ~ txn'[c].totals
      BY <2>2 DEF Written
    <3> QED
      BY <2>1, <2>2, <3>1 DEF WritesInv, LinkInv, OpenStages
  <2>4. receipts'[InHand(c)'.id] = None
    BY <1>2, <1>6
  <2> QED
    BY <1>1, <1>2, <1>4, <2>3, <2>4, RecordStep
<1> QED
  BY <1>5, <1>6

(* The statements between INSERT IGNORE and COMMIT, under that lock.       *)
LEMMA StatementRecord ==
  ASSUME NEW c \in Consumers, Inv, RecordInv, Grows,
         MarkIgnored(c) \/ FindShortLink(c) \/ UpsertTotals(c)
           \/ UpsertHourly(c) \/ MarkAggregated(c)
  PROVE  RecordInv'
<1> USE DEF MarkIgnored, FindShortLink, UpsertTotals, UpsertHourly,
            MarkAggregated, Goto
<1>1. \A d \in Consumers \ {c} : SameMemory(d)
  BY OthersKeep DEF Work, Inv
<1>2. pc[c] \in OpenStages /\ Busy(c) /\ cur' = cur /\ UNCHANGED <<links, receipts>>
  BY DEF OpenStages, Busy
<1>3. InHand(c)' = InHand(c) /\ InHand(c) \in Messages
  BY <1>2, InHandStays
<1>4. /\ WritesInv(c) /\ LockInv(c) /\ LinkInv(c) /\ TxnInv(c)
      /\ \A d \in Consumers : LockInv(d)
  BY DEF RecordInv, Inv, ConsumerInv
<1>5. HoldsReceipt(c)
  BY <1>2, <1>4 DEF WritesInv, Written, HoldsReceipt, OpenStages
<1>6. /\ receipts'[InHand(c)'.id] = None
      /\ \A d \in Consumers \ {c} :
           HoldsReceipt(d) => /\ InHand(d).id # InHand(c)'.id
                              /\ receipts'[InHand(d).id] = None
  BY <1>2, <1>3, <1>4, <1>5 DEF LockInv
<1>7. /\ txn \in [Consumers -> Txn]
      /\ \A x : pc' = [pc EXCEPT ![c] = x] => pc'[c] = x
      /\ \A x : txn' = [txn EXCEPT ![c] = x] => txn'[c] = x
  BY DEF Inv, TypeOK
<1>8. WritesInv(c)' /\ LinkInv(c)'
  <2>1. CASE MarkIgnored(c)
    <3>1. /\ txn[c] = Written("received", FALSE, FALSE)
          /\ pc'[c] = "commit_txn" /\ InHand(c).result = "not_found"
      BY <1>4, <1>7, <2>1 DEF TxnInv, WritesInv
    <3>2. txn'[c] = Written("not_found_ignored", FALSE, FALSE)
      BY <2>1, <3>1, TxnWrites DEF Inv
    <3> QED
      BY <1>3, <3>1, <3>2 DEF WritesInv, LinkInv, OpenStages, Written
  <2>2. CASE FindShortLink(c)
    <3>1. CASE InHand(c).code \in links
      <4>1. /\ pc'[c] = "totals" /\ txn'[c] = Written("received", FALSE, FALSE)
        BY <1>4, <1>7, <2>2, <3>1 DEF WritesInv
      <4> QED
        BY <1>2, <1>3, <3>1, <4>1 DEF WritesInv, LinkInv, OpenStages, Written
    <3>2. CASE InHand(c).code \notin links
      <4>1. pc'[c] = "publish" /\ txn'[c] = NoTxn
        BY <1>7, <2>2, <3>2
      <4> QED
        BY <4>1 DEF WritesInv, LinkInv, OpenStages, NoTxn
    <3> QED
      BY <3>1, <3>2
  <2>3. CASE UpsertTotals(c)
    <3>1. /\ txn[c] = Written("received", FALSE, FALSE)
          /\ pc'[c] = "hourly" /\ InHand(c).code \in links
      BY <1>4, <1>7, <2>3 DEF LinkInv, WritesInv
    <3>2. txn'[c] = Written("received", TRUE, FALSE)
      BY <2>3, <3>1, TxnWrites DEF Inv
    <3> QED
      BY <1>2, <1>3, <3>1, <3>2 DEF WritesInv, LinkInv, OpenStages
  <2>4. CASE UpsertHourly(c)
    <3>1. /\ txn[c] = Written("received", TRUE, FALSE)
          /\ pc'[c] = "mark" /\ InHand(c).code \in links
      BY <1>4, <1>7, <2>4 DEF LinkInv, WritesInv
    <3>2. txn'[c] = Written("received", TRUE, TRUE)
      BY <2>4, <3>1, TxnWrites DEF Inv
    <3> QED
      BY <1>2, <1>3, <3>1, <3>2 DEF WritesInv, LinkInv, OpenStages
  <2>5. CASE MarkAggregated(c)
    <3>1. /\ txn[c] = Written("received", TRUE, TRUE)
          /\ pc'[c] = "commit_txn" /\ InHand(c).code \in links
          /\ InHand(c).result # "not_found"
      BY <1>4, <1>7, <2>5 DEF LinkInv, WritesInv, TxnInv
    <3>2. txn'[c] = Written("aggregated", TRUE, TRUE)
      BY <2>5, <3>1, TxnWrites DEF Inv
    <3> QED
      BY <1>2, <1>3, <3>1, <3>2 DEF WritesInv, LinkInv, OpenStages
  <2> QED
    BY <2>1, <2>2, <2>3, <2>4, <2>5
<1> QED
  BY <1>1, <1>2, <1>6, <1>8, RecordStep

(* Any other step of a consumer ends with no transaction open.             *)
LEMMA ClosedRecord ==
  ASSUME NEW c \in Consumers, Inv, RecordInv, Grows,
         \A d \in Consumers \ {c} : SameMemory(d),
         txn'[c] = NoTxn, pc'[c] \notin OpenStages, links' = links,
         Recording(c) \/ receipts' = receipts
  PROVE  RecordInv'
<1>1. WritesInv(c)' /\ LinkInv(c)' /\ ~ HoldsReceipt(c)'
  <2>1. txn'[c].receipt = "absent" /\ ~ txn'[c].totals
    BY DEF NoTxn
  <2> QED
    BY <2>1 DEF WritesInv, LinkInv, HoldsReceipt, OpenStages
<1>2. ASSUME NEW d \in Consumers \ {c}, HoldsReceipt(d)
      PROVE  receipts'[InHand(d).id] = None
  <2>1. receipts[InHand(d).id] = None
    BY <1>2 DEF RecordInv, LockInv
  <2>2. CASE receipts' = receipts
    BY <2>1, <2>2
  <2>3. CASE Recording(c) /\ HoldsReceipt(c)
    <3>1. InHand(d).id # InHand(c).id
      BY <1>2, <2>3 DEF RecordInv, LockInv
    <3>2. \E r : receipts' = [receipts EXCEPT ![InHand(c).id] = r]
      BY <2>3 DEF Recording, TxnCommitted, HoldsReceipt
    <3>3. InHand(d).id \in EventIds
      BY <1>2, RecordStays
    <3> QED
      BY <2>1, <3>1, <3>2, <3>3 DEF Inv, TypeOK
  <2>4. CASE Recording(c) /\ ~ HoldsReceipt(c)
    BY <2>1, <2>4 DEF Recording, TxnCommitted, HoldsReceipt
  <2> QED
    BY <2>2, <2>3, <2>4
<1> QED
  BY <1>1, <1>2, RecordStep

LEMMA InitRecord ==
  ASSUME Init
  PROVE  RecordInv
<1> SUFFICES ASSUME NEW c \in Consumers
             PROVE  WritesInv(c) /\ LockInv(c) /\ LinkInv(c)
  BY DEF RecordInv
<1>1. /\ pc[c] = "down" /\ txn[c] = NoTxn
      /\ txn[c].receipt = "absent" /\ ~ txn[c].totals
  BY DEF Init, NoTxn
<1> QED
  BY <1>1 DEF WritesInv, LockInv, LinkInv, HoldsReceipt, OpenStages

LEMMA NextRecord ==
  ASSUME Inv, RecordInv, [Next]_vars
  PROVE  RecordInv'
<1>1. Grows
  BY StepGrows
<1>2. CASE UNCHANGED vars \/ Environment \/ \E c \in Consumers : JoinGroup(c) \/ SessionTimeout(c)
  <2>1. links \subseteq links' /\ UNCHANGED <<processVars, receipts>>
    BY <1>2
    DEF vars, Environment, Produce, CreateLink, ResetOffset, Assign, JoinGroup,
        SessionTimeout
  <2> QED
    BY <1>1, <2>1, RecordQuiet
<1>3. ASSUME NEW c \in Consumers, Start(c) \/ Work(c) \/ Failure(c)
      PROVE  RecordInv'
  <2>1. CASE Writing(c)
    BY <1>1, <2>1, InsertReceiptRecord, StatementRecord DEF Writing
  <2>2. CASE ~ Writing(c)
    <3>1. \A d \in Consumers \ {c} : SameMemory(d)
      BY <1>3, OthersKeep DEF Inv
    <3>2. /\ txn'[c] = NoTxn /\ pc'[c] \notin OpenStages /\ links' = links
          /\ Recording(c) \/ receipts' = receipts
      BY <1>3, <2>2, StepKinds DEF Recording, Burying, Committing, Hidden
    <3> QED
      BY <1>1, <3>1, <3>2, ClosedRecord
  <2> QED
    BY <2>1, <2>2
<1> QED
  BY <1>2, <1>3 DEF Next

-----------------------------------------------------------------------------
(* The projection and the consumers share the definitions of AccessEvents. *)
LEMMA SharedDefinitions ==
  /\ \A m : Projection!ContractDefect(m) = ContractDefect(m)
  /\ \A m : Projection!FinalDisposition(m) = FinalDisposition(m)
  /\ \A t, m : Projection!UpsertedTotals(t, m) = UpsertedTotals(t, m)
  /\ \A h, m : Projection!UpsertedHourly(h, m) = UpsertedHourly(h, m)
BY DEF Projection!ContractDefect, Projection!ParseError, ContractDefect,
       ParseError, Projection!FinalDisposition, FinalDisposition,
       Projection!UpsertedTotals, UpsertedTotals, Projection!TotalsKey, TotalsKey,
       Projection!Lesser, Lesser, Projection!Greater, Greater,
       Projection!UpsertedHourly, UpsertedHourly, Projection!HourlyKey, HourlyKey,
       Projection!HourBucket, HourBucket

LEMMA SharedInit ==
  ASSUME Init
  PROVE  Projection!Init
BY DEF Init, Projection!Init, NoTotals, Projection!NoTotals, TotalsKeys,
       Projection!TotalsKeys, HourlyKeys, Projection!HourlyKeys, Buckets,
       Projection!Buckets, AggregatedResults, Projection!AggregatedResults,
       HourBucket, Projection!HourBucket

(* Where the message in hand is.                                           *)
LEMMA InHandSource ==
  ASSUME Inv, NEW c \in Consumers, Busy(c)
  PROVE  \E p \in Partitions, o \in Nat \ {0} :
           /\ o \in 1..Len(log[p]) /\ o \in 0..Len(log[p])
           /\ cur[c] = Projection!Source(p, o)
           /\ cur[c].partition = p /\ cur[c].offset = o
           /\ InHand(c) = log[p][o] /\ InHand(c) \in Messages
<1>1. PICK p \in Partitions, o \in Nat \ {0} :
        cur[c] = [partition |-> p, offset |-> o]
  BY DEF Inv, ConsumerInv, HandInv, Coordinates
<1>2. cur[c].partition = p /\ cur[c].offset = o
  BY <1>1
<1>3. o \in 1..Len(log[p]) /\ o \in 0..Len(log[p])
  BY <1>2 DEF Inv, ConsumerInv, HandInv, TypeOK
<1> QED
  BY <1>1, <1>2, <1>3, LogEntry DEF Inv, InHand, MessageAt, Projection!Source

(* COMMIT records the event, or finds that it has nothing to write.        *)
LEMMA RecordingIsRecord ==
  ASSUME Inv, RecordInv, NEW c \in Consumers, Recording(c)
  PROVE  Projection!Next \/ UNCHANGED Projection!vars
<1> USE DEF Recording
<1>1. PICK p \in Partitions, o \in Nat \ {0} :
           /\ o \in 1..Len(log[p])
           /\ cur[c] = Projection!Source(p, o)
           /\ InHand(c) = log[p][o]
  BY InHandSource DEF Busy
<1>2. WritesInv(c) /\ LockInv(c) /\ LinkInv(c) /\ pc[c] = "commit_txn"
  BY DEF RecordInv
<1>3. ContractDefect(InHand(c)) = "none"
  BY DEF Inv, ConsumerInv, TxnInv, TxnStages
<1>4. CASE txn[c] = NoTxn
  <2>1. txn[c].receipt = "absent" /\ ~ txn[c].totals /\ ~ txn[c].hourly
    BY <1>4 DEF NoTxn
  <2> QED
    BY <2>1 DEF TxnCommitted, Projection!vars
<1>5. CASE txn[c] # NoTxn
  <2> DEFINE counted == InHand(c).result # "not_found"
  <2>1. /\ txn[c].receipt = FinalDisposition(InHand(c))
        /\ txn[c].totals <=> counted
        /\ txn[c].hourly <=> counted
    <3>1. CASE ~ counted
      <4>1. txn[c] = Written("not_found_ignored", FALSE, FALSE)
        BY <1>2, <1>5, <3>1 DEF WritesInv
      <4> QED
        BY <3>1, <4>1 DEF Written, FinalDisposition
    <3>2. CASE counted
      <4>1. txn[c] = Written("aggregated", TRUE, TRUE)
        BY <1>2, <1>5, <3>2 DEF WritesInv
      <4> QED
        BY <3>2, <4>1 DEF Written, FinalDisposition
    <3> QED
      BY <3>1, <3>2
  <2>2. HoldsReceipt(c) /\ receipts[InHand(c).id] = None
    BY <1>2, <2>1 DEF HoldsReceipt, FinalDisposition, LockInv
  <2>3. counted => InHand(c).code \in links
    BY <1>2, <2>1 DEF LinkInv
  <2>4. receipts' = [receipts EXCEPT ![InHand(c).id] =
                       [disposition |-> FinalDisposition(InHand(c)),
                        source |-> cur[c]]]
    BY <2>1, <2>2 DEF TxnCommitted, HoldsReceipt
  <2>5. /\ totals' = IF counted THEN UpsertedTotals(totals, InHand(c)) ELSE totals
        /\ hourly' = IF counted THEN UpsertedHourly(hourly, InHand(c)) ELSE hourly
    BY <2>1 DEF TxnCommitted
  <2>6. Projection!Record(p, o)
    BY <1>1, <1>3, <2>2, <2>3, <2>4, <2>5, SharedDefinitions
    DEF Projection!Record
  <2> QED
    BY <1>1, <2>6 DEF Projection!Next
<1> QED
  BY <1>4, <1>5

(* A copy that lands buries the message its process holds.                 *)
LEMMA BuryingIsBury ==
  ASSUME Inv, NEW c \in Consumers, Burying(c)
  PROVE  Projection!Next \/ UNCHANGED Projection!vars
<1> USE DEF Burying
<1>1. CASE dlq' = dlq
  BY <1>1 DEF Projection!vars
<1>2. CASE copies[c] > 0 /\ dlq' = dlq \cup {DeadLetterOf(c)}
  <2>1. pc[c] \in DlqStages /\ Busy(c) /\ Projection!MayBury(InHand(c), reason[c])
    BY <1>2 DEF Inv, TypeOK, ConsumerInv, DlqInv, DlqStages, Busy
  <2>2. PICK p \in Partitions, o \in Nat \ {0} :
           /\ o \in 1..Len(log[p])
           /\ cur[c] = Projection!Source(p, o)
           /\ InHand(c) = log[p][o]
    BY <2>1, InHandSource
  <2>3. reason[c] \in Projection!DeadLetterReasons
    <3>1. reason[c] # "none"
      BY <2>1 DEF Projection!MayBury, Projection!ContractDefect
    <3> QED
      BY <3>1
      DEF Inv, TypeOK, Projection!DeadLetterReasons, DeadLetterReasons,
          Projection!ContractReasons, ContractReasons
  <2>4. Projection!Bury(p, o, reason[c])
    BY <1>2, <2>1, <2>2 DEF Projection!Bury, DeadLetterOf
  <2> QED
    BY <2>2, <2>3, <2>4 DEF Projection!Next
<1> QED
  BY <1>1, <1>2 DEF InFlightCopiesLand

(* An offset is committed after its message and all before it.             *)
LEMMA CommittingIsCommit ==
  ASSUME Inv, NEW c \in Consumers, Committing(c)
  PROVE  Projection!Next
<1> USE DEF Committing
<1>1. PICK p \in Partitions, o \in Nat \ {0} :
           /\ o \in 1..Len(log[p]) /\ o \in 0..Len(log[p])
           /\ cur[c].partition = p /\ cur[c].offset = o
  BY InHandSource DEF Busy
<1>2. Handled(p, o) /\ \A i \in 1..(o - 1) : Handled(p, i)
  BY <1>1 DEF Inv, ConsumerInv, HandInv, Busy
<1>3. \A i \in 1..o : Projection!Handled(p, i)
  <2> TAKE i \in 1..o
  <2>1. i = o \/ i \in 1..(o - 1)
    OBVIOUS
  <2> QED
    BY <1>2, <2>1 DEF Handled
<1>4. Projection!Commit(p, o)
  BY <1>1, <1>3 DEF OffsetCommitted, Projection!Commit
<1> QED
  BY <1>1, <1>4 DEF Projection!Next

(* The environment and the group coordinator.                              *)
LEMMA EnvironmentRefines ==
  ASSUME Inv, Environment
  PROVE  Projection!Next \/ UNCHANGED Projection!vars
<1>1. ASSUME NEW p \in Partitions, NEW m \in Messages, Produce(p, m)
      PROVE  Projection!Next
  BY <1>1 DEF Produce, Projection!Produce, Projection!Next
<1>2. ASSUME NEW code \in Codes, CreateLink(code)
      PROVE  Projection!Next
  BY <1>2 DEF CreateLink, Projection!CreateLink, Projection!Next
<1>3. ASSUME NEW p \in Partitions, NEW o \in 0..MaxLog, ResetOffset(p, o)
      PROVE  Projection!Next
  <2>1. /\ o \in Nat /\ o < committed[p] /\ committed[p] \in Nat
        /\ committed[p] <= Len(log[p]) /\ Len(log[p]) \in Nat
        /\ \A i \in 1..committed[p] : Handled(p, i)
    BY <1>3, ConsumerAssumption DEF ResetOffset, Inv, TypeOK, CommittedInv
  <2>2. o \in 0..Len(log[p]) /\ \A i \in 1..o : Projection!Handled(p, i)
    BY <2>1 DEF Handled
  <2>3. Projection!Commit(p, o)
    BY <1>3, <2>2 DEF ResetOffset, Projection!Commit
  <2> QED
    BY <2>2, <2>3 DEF Projection!Next
<1>4. CASE Assign
  BY <1>4 DEF Assign, Projection!vars
<1> QED
  BY <1>1, <1>2, <1>3, <1>4 DEF Environment

LEMMA NextRefines ==
  ASSUME Inv, RecordInv, [Next]_vars
  PROVE  [Projection!Next]_(Projection!vars)
<1>1. CASE UNCHANGED vars
  BY <1>1 DEF vars, Projection!vars
<1>2. CASE Environment
  BY <1>2, EnvironmentRefines
<1>3. ASSUME NEW c \in Consumers, JoinGroup(c) \/ SessionTimeout(c)
      PROVE  UNCHANGED Projection!vars
  BY <1>3 DEF JoinGroup, SessionTimeout, Projection!vars
<1>4. ASSUME NEW c \in Consumers, Start(c) \/ Work(c) \/ Failure(c)
      PROVE  Projection!Next \/ UNCHANGED Projection!vars
  <2>1. CASE Writing(c)
    BY <2>1
    DEF Writing, InsertReceipt, MarkIgnored, FindShortLink, UpsertTotals,
        UpsertHourly, MarkAggregated, Projection!vars
  <2>2. CASE Recording(c)
    BY <2>2, RecordingIsRecord
  <2>3. CASE Burying(c)
    BY <2>3, BuryingIsBury
  <2>4. CASE Committing(c)
    BY <2>4, CommittingIsCommit
  <2>5. CASE Hidden
    BY <2>5 DEF Hidden, Projection!vars
  <2> QED
    BY <1>4, <2>1, <2>2, <2>3, <2>4, <2>5, StepKinds
<1> QED
  BY <1>1, <1>2, <1>3, <1>4 DEF Next

(***************************************************************************)
(* Until it commits, an open transaction of MySqlAccessStatisticsWriter    *)
(* holds a receipt nobody else holds or has, and has written what its      *)
(* stage says, for every interleaving of any number of consumers.          *)
(***************************************************************************)
THEOREM RecordInvariance == Spec => []RecordInv
<1>1. Init => RecordInv
  BY InitRecord
<1>2. Inv /\ RecordInv /\ [Next]_vars => RecordInv'
  BY NextRecord
<1> QED
  BY <1>1, <1>2, Invariance, PTL DEF Spec

(***************************************************************************)
(* The consumers implement the abstract projection: a COMMIT is one        *)
(* Record of a new event or changes nothing, a copy that lands is a Bury,  *)
(* an offset commit or reset is a Commit, and every other step is hidden.  *)
(***************************************************************************)
THEOREM RefinesProjection == Spec => ImplementsProjection
<1>1. Init => Projection!Init
  BY SharedInit
<1>2. Inv /\ RecordInv /\ [Next]_vars => [Projection!Next]_(Projection!vars)
  BY NextRefines
<1> QED
  BY <1>1, <1>2, Invariance, RecordInvariance, PTL
  DEF Spec, ImplementsProjection, Projection!Spec

-----------------------------------------------------------------------------
(* The two families of sets the audit counts.                              *)
Aggregate(e) == receipts[e] # None /\ receipts[e].disposition = "aggregated"
EventOf(e) == MessageAt(receipts[e].source)
CountedTotals(k) == {e \in EventIds : Aggregate(e) /\ TotalsKey(EventOf(e)) = k}
CountedHourly(k) == {e \in EventIds : Aggregate(e) /\ HourlyKey(EventOf(e)) = k}
TimesOf(k) == {EventOf(e).at : e \in CountedTotals(k)}

(* A totals row agrees with the set of events it counts.                   *)
RowMatches(row, S, times) ==
  /\ row.count = Cardinality(S)
  /\ S # {} => /\ row.first \in times /\ row.last \in times
               /\ \A t \in times : row.first <= t /\ t <= row.last

Audit ==
  /\ \A k \in TotalsKeys : RowMatches(totals[k], CountedTotals(k), TimesOf(k))
  /\ \A k \in HourlyKeys : hourly[k] = Cardinality(CountedHourly(k))

LEMMA AuditForm == StatisticsMatchReceipts <=> Audit
BY DEF StatisticsMatchReceipts, Audit, Aggregated, CountedTotals, CountedHourly,
       TimesOf, RowMatches, Aggregate, EventOf

(* One more event in the set and in the row.                               *)
LEMMA RowCountsOneMore ==
  ASSUME NEW t \in [TotalsKeys -> TotalsRow], NEW m \in Messages,
         NEW k \in TotalsKeys, k = TotalsKey(m),
         NEW S, IsFiniteSet(S), NEW e, e \notin S,
         NEW times \in SUBSET Nat, S = {} => times = {},
         RowMatches(t[k], S, times)
  PROVE  RowMatches(UpsertedTotals(t, m)[k], S \cup {e}, times \cup {m.at})
<1> DEFINE row == t[k]
           new == UpsertedTotals(t, m)[k]
<1>1. row \in TotalsRow /\ m.at \in Nat
  BY MessageFields
<1>2. Cardinality(S \cup {e}) = Cardinality(S) + 1
  BY FS_AddElement
<1>3. new = IF row.count = 0
            THEN [count |-> 1, first |-> m.at, last |-> m.at]
            ELSE [count |-> row.count + 1, first |-> Lesser(row.first, m.at),
                  last |-> Greater(row.last, m.at)]
  BY DEF UpsertedTotals
<1>4. Cardinality(S) = 0 <=> S = {}
  BY FS_EmptySet
<1>5. row.count \in Nat /\ row.first \in Nat /\ row.last \in Nat
  BY <1>1 DEF TotalsRow
<1>6. row.count = Cardinality(S)
  BY DEF RowMatches
<1>7. CASE S = {}
  <2>1. new = [count |-> 1, first |-> m.at, last |-> m.at]
    BY <1>3, <1>4, <1>6, <1>7
  <2>2. new.count = 1 /\ new.first = m.at /\ new.last = m.at
    BY <2>1
  <2> QED
    BY <1>1, <1>2, <1>4, <1>7, <2>2 DEF RowMatches
<1>8. CASE S # {}
  <2>1. new = [count |-> row.count + 1, first |-> Lesser(row.first, m.at),
               last |-> Greater(row.last, m.at)]
    BY <1>3, <1>4, <1>6, <1>8
  <2>2. /\ new.count = row.count + 1 /\ new.first = Lesser(row.first, m.at)
        /\ new.last = Greater(row.last, m.at)
    BY <2>1
  <2>3. /\ row.first \in times /\ row.last \in times
        /\ \A x \in times : row.first <= x /\ x <= row.last
    BY <1>8 DEF RowMatches
  <2>4. new.first \in times \cup {m.at} /\ new.last \in times \cup {m.at}
    BY <2>2, <2>3 DEF Lesser, Greater
  <2>5. ASSUME NEW x \in times \cup {m.at}
        PROVE  new.first <= x /\ x <= new.last
    BY <1>1, <1>5, <2>2, <2>3 DEF Lesser, Greater
  <2> QED
    BY <1>2, <1>6, <2>2, <2>4, <2>5 DEF RowMatches
<1> QED
  BY <1>7, <1>8

(* A receipt that stays names the same message of the log.                 *)
LEMMA EventStays ==
  ASSUME Inv, SourcesInv, Grows, NEW e \in EventIds, receipts[e] # None,
         receipts'[e] = receipts[e]
  PROVE  /\ EventOf(e)' = EventOf(e) /\ EventOf(e) \in Messages
         /\ Aggregate(e)' <=> Aggregate(e)
         /\ receipts'[e].source.offset <= Len(log'[receipts'[e].source.partition])
<1>1. receipts[e].source \in Coordinates
  BY DEF Inv, TypeOK, Receipt
<1>2. PICK p \in Partitions, o \in Nat \ {0} :
        receipts[e].source = [partition |-> p, offset |-> o]
  BY <1>1 DEF Coordinates
<1>3. receipts[e].source.partition = p /\ receipts[e].source.offset = o
  BY <1>2
<1>4. o <= Len(log[p]) /\ Len(log[p]) \in Nat
  BY <1>3 DEF SourcesInv, Recorded, Inv, TypeOK
<1>5. o \in 1..Len(log[p])
  BY <1>4
<1>6. log'[p][o] = log[p][o] /\ log[p][o] \in Messages
  BY <1>5, LogEntry DEF Grows, Inv
<1>7. Len(log[p]) <= Len(log'[p])
  BY DEF Grows
<1>8. EventOf(e)' = log'[p][o] /\ EventOf(e) = log[p][o]
  BY <1>3 DEF EventOf, MessageAt
<1>9. o <= Len(log'[p])
  <2>1. Len(log'[p]) \in Int
    BY <1>7
  <2> QED
    BY <1>4, <1>7, <2>1
<1> QED
  BY <1>3, <1>6, <1>8, <1>9 DEF Aggregate

(* Steps that leave the tables alone.                                      *)
LEMMA AuditStays ==
  ASSUME Inv, SourcesInv, Audit, Grows, UNCHANGED tableVars
  PROVE  SourcesInv' /\ Audit'
<1>1. Recorded' = Recorded
  BY DEF Recorded
<1>2. SourcesInv'
  <2>1. IsFiniteSet(Recorded')
    BY <1>1 DEF SourcesInv
  <2>2. \A e \in Recorded' :
          receipts'[e].source.offset <= Len(log'[receipts'[e].source.partition])
    BY <1>1, EventStays DEF Recorded
  <2> QED
    BY <2>1, <2>2 DEF SourcesInv
<1>3. ASSUME NEW e \in EventIds
      PROVE  /\ Aggregate(e)' <=> Aggregate(e)
             /\ Aggregate(e) => EventOf(e)' = EventOf(e)
  BY EventStays DEF Aggregate
<1>4. \A k : CountedTotals(k)' = CountedTotals(k)
  BY <1>3 DEF CountedTotals
<1>5. \A k : CountedHourly(k)' = CountedHourly(k)
  BY <1>3 DEF CountedHourly
<1>6. \A k : TimesOf(k)' = TimesOf(k)
  <2> TAKE k
  <2>1. \A e \in CountedTotals(k) : EventOf(e)' = EventOf(e)
    BY <1>3 DEF CountedTotals
  <2> QED
    BY <1>4, <2>1 DEF TimesOf
<1> QED
  BY <1>2, <1>4, <1>5, <1>6 DEF Audit

-----------------------------------------------------------------------------
(* One event recorded by the abstract projection: one receipt, one row of  *)
(* each table.                                                             *)
LEMMA AuditRecord ==
  ASSUME Inv, SourcesInv, Audit, Grows, TypeOK',
         NEW p \in Partitions, NEW o \in 1..Len(log[p]), Projection!Record(p, o)
  PROVE  SourcesInv' /\ Audit'
<1>1. PICK m \in Messages : m = log[p][o]
  BY LogEntry DEF Inv
<1>2. PICK id \in EventIds : id = m.id
  BY MessageFields
<1> DEFINE row == [disposition |-> FinalDisposition(m),
                   source |-> [partition |-> p, offset |-> o]]
<1>3. /\ receipts[id] = None /\ receipts' = [receipts EXCEPT ![id] = row]
      /\ IF m.result = "not_found" THEN UNCHANGED <<totals, hourly>>
         ELSE /\ totals' = UpsertedTotals(totals, m)
              /\ hourly' = UpsertedHourly(hourly, m)
      /\ log' = log
  BY <1>1, <1>2, SharedDefinitions DEF Projection!Record, Projection!Source
<1>4. m.at \in Nat /\ m.code \in Codes /\ m.result \in Results
  BY MessageFields
<1>5. /\ receipts'[id] = row
      /\ \A e \in EventIds \ {id} : receipts'[e] = receipts[e]
  BY <1>3 DEF Inv, TypeOK
<1>6. row.source.partition = p /\ row.source.offset = o
  OBVIOUS
<1>7. row # None
  <2>1. [partition |-> p, offset |-> o] \in Coordinates
    BY DEF Coordinates
  <2>2. row \in Receipt
    BY <2>1 DEF Receipt, Dispositions, FinalDisposition
  <2> QED
    BY <2>2, NoneAssumption
<1>8. EventOf(id)' = m
  BY <1>1, <1>3, <1>5, <1>6 DEF EventOf, MessageAt
<1>9. ~ Aggregate(id)
  BY <1>3 DEF Aggregate
<1>10. Aggregate(id)' <=> m.result # "not_found"
  BY <1>5, <1>7 DEF Aggregate, FinalDisposition
<1>11. ASSUME NEW e \in EventIds \ {id}
      PROVE  /\ Aggregate(e)' <=> Aggregate(e)
             /\ Aggregate(e) => EventOf(e)' = EventOf(e)
  BY <1>5, EventStays DEF Aggregate
<1> HIDE DEF row
<1>12. SourcesInv'
  <2>1. Recorded' = Recorded \cup {id}
    BY <1>4, <1>5, <1>7 DEF Recorded
  <2>2. IsFiniteSet(Recorded')
    BY <2>1, FS_AddElement DEF SourcesInv
  <2>3. ASSUME NEW e \in Recorded'
        PROVE  receipts'[e].source.offset <= Len(log'[receipts'[e].source.partition])
    <3>1. CASE e = id
      <4>1. o <= Len(log'[p])
        BY <1>3
      <4> QED
        BY <1>5, <1>6, <3>1, <4>1
    <3>2. CASE e # id
      BY <1>5, <3>2, EventStays DEF Recorded
    <3> QED
      BY <3>1, <3>2
  <2> QED
    BY <2>2, <2>3 DEF SourcesInv
<1>13. CASE m.result = "not_found"
  <2>1. \A k : CountedTotals(k)' = CountedTotals(k)
    BY <1>9, <1>10, <1>11, <1>13 DEF CountedTotals
  <2>2. \A k : CountedHourly(k)' = CountedHourly(k)
    BY <1>9, <1>10, <1>11, <1>13 DEF CountedHourly
  <2>3. \A k : TimesOf(k)' = TimesOf(k)
    <3> TAKE k
    <3>1. \A e \in CountedTotals(k) : EventOf(e)' = EventOf(e)
      BY <1>9, <1>11 DEF CountedTotals
    <3> QED
      BY <2>1, <3>1 DEF TimesOf
  <2>4. totals' = totals /\ hourly' = hourly
    BY <1>3, <1>13
  <2> QED
    BY <1>12, <2>1, <2>2, <2>3, <2>4 DEF Audit
<1>14. CASE m.result # "not_found"
  <2>1. /\ totals' = UpsertedTotals(totals, m)
        /\ hourly' = UpsertedHourly(hourly, m)
    BY <1>3, <1>14
  <2>2. ASSUME NEW k \in TotalsKeys
        PROVE  RowMatches(totals'[k], CountedTotals(k)', TimesOf(k)')
    <3>1. RowMatches(totals[k], CountedTotals(k), TimesOf(k))
      BY DEF Audit
    <3>2. id \notin CountedTotals(k)
      BY <1>9 DEF CountedTotals
    <3>3. \A e \in CountedTotals(k) : EventOf(e)' = EventOf(e) /\ EventOf(e).at \in Nat
      <4> TAKE e \in CountedTotals(k)
      <4>1. e \in EventIds \ {id} /\ Aggregate(e) /\ receipts[e] # None
        BY <1>9 DEF CountedTotals, Aggregate
      <4>2. EventOf(e)' = EventOf(e) /\ EventOf(e) \in Messages
        BY <1>5, <4>1, EventStays
      <4> QED
        BY <4>2, MessageFields
    <3>4. CASE k = TotalsKey(m)
      <4>1. CountedTotals(k)' = CountedTotals(k) \cup {id}
        BY <1>4, <1>8, <1>9, <1>10, <1>11, <1>14, <3>4 DEF CountedTotals
      <4>2. TimesOf(k)' = TimesOf(k) \cup {m.at}
        BY <1>8, <3>3, <4>1 DEF TimesOf
      <4>3. IsFiniteSet(CountedTotals(k))
        <5>1. CountedTotals(k) \subseteq Recorded
          BY DEF CountedTotals, Aggregate, Recorded
        <5> QED
          BY <5>1, FS_Subset DEF SourcesInv
      <4>4. TimesOf(k) \in SUBSET Nat /\ (CountedTotals(k) = {} => TimesOf(k) = {})
        BY <3>3 DEF TimesOf
      <4>5. totals \in [TotalsKeys -> TotalsRow]
        BY DEF Inv, TypeOK
      <4>6. RowMatches(UpsertedTotals(totals, m)[k], CountedTotals(k) \cup {id},
                       TimesOf(k) \cup {m.at})
        BY <1>4, <3>1, <3>2, <3>4, <4>3, <4>4, <4>5, RowCountsOneMore
      <4> QED
        BY <2>1, <4>1, <4>2, <4>6
    <3>5. CASE k # TotalsKey(m)
      <4>1. CountedTotals(k)' = CountedTotals(k)
        BY <1>8, <1>9, <1>11, <3>5 DEF CountedTotals
      <4>2. TimesOf(k)' = TimesOf(k)
        BY <3>3, <4>1 DEF TimesOf
      <4>3. totals'[k] = totals[k]
        BY <2>1, <3>5 DEF UpsertedTotals, Inv, TypeOK
      <4> QED
        BY <3>1, <4>1, <4>2, <4>3
    <3> QED
      BY <3>4, <3>5
  <2>3. ASSUME NEW k \in HourlyKeys
        PROVE  hourly'[k] = Cardinality(CountedHourly(k)')
    <3>1. hourly[k] = Cardinality(CountedHourly(k))
      BY DEF Audit
    <3>2. id \notin CountedHourly(k)
      BY <1>9 DEF CountedHourly
    <3>3. CASE k = HourlyKey(m)
      <4>1. CountedHourly(k)' = CountedHourly(k) \cup {id}
        BY <1>4, <1>8, <1>9, <1>10, <1>11, <1>14, <3>3 DEF CountedHourly
      <4>2. IsFiniteSet(CountedHourly(k))
        <5>1. CountedHourly(k) \subseteq Recorded
          BY DEF CountedHourly, Aggregate, Recorded
        <5> QED
          BY <5>1, FS_Subset DEF SourcesInv
      <4>3. Cardinality(CountedHourly(k)') = Cardinality(CountedHourly(k)) + 1
        BY <3>2, <4>1, <4>2, FS_AddElement
      <4>4. hourly'[k] = hourly[k] + 1
        BY <2>1, <3>3 DEF UpsertedHourly, Inv, TypeOK
      <4> QED
        BY <3>1, <4>3, <4>4
    <3>4. CASE k # HourlyKey(m)
      <4>1. CountedHourly(k)' = CountedHourly(k)
        BY <1>8, <1>9, <1>11, <3>4 DEF CountedHourly
      <4>2. hourly'[k] = hourly[k]
        BY <2>1, <3>4 DEF UpsertedHourly, Inv, TypeOK
      <4> QED
        BY <3>1, <4>1, <4>2
    <3> QED
      BY <3>3, <3>4
  <2> QED
    BY <1>12, <2>2, <2>3 DEF Audit
<1> QED
  BY <1>13, <1>14

LEMMA InitAudit ==
  ASSUME Init
  PROVE  SourcesInv /\ Audit
<1>1. Recorded = {}
  BY DEF Init, Recorded
<1>2. \A k : CountedTotals(k) = {} /\ CountedHourly(k) = {}
  BY DEF Init, CountedTotals, CountedHourly, Aggregate
<1>3. NoTotals.count = 0
  BY DEF NoTotals
<1> QED
  BY <1>1, <1>2, <1>3, FS_EmptySet DEF Init, SourcesInv, Audit, RowMatches

LEMMA NextAudit ==
  ASSUME Inv, RecordInv, SourcesInv, Audit, [Next]_vars
  PROVE  SourcesInv' /\ Audit'
<1>1. Grows /\ TypeOK'
  BY StepGrows, NextInv DEF Inv
<1>2. \/ UNCHANGED tableVars
      \/ \E p \in Partitions : \E o \in 1..Len(log[p]) : Projection!Record(p, o)
  <2>1. [Projection!Next]_(Projection!vars)
    BY NextRefines
  <2> QED
    BY <2>1
    DEF Projection!Next, Projection!vars, Projection!Produce, Projection!CreateLink,
        Projection!Bury, Projection!Commit
<1> QED
  BY <1>1, <1>2, AuditStays, AuditRecord

(***************************************************************************)
(* Effectively once: in every reachable state the statistics rows are what *)
(* counting the receipts gives, for any number of consumers, events,       *)
(* redeliveries, retries and lost replies.                                 *)
(***************************************************************************)
THEOREM AuditHolds == Spec => []StatisticsMatchReceipts
<1>1. Init => SourcesInv /\ Audit
  BY InitAudit
<1>2. Inv /\ RecordInv /\ SourcesInv /\ Audit /\ [Next]_vars => SourcesInv' /\ Audit'
  BY NextAudit
<1>3. Audit => StatisticsMatchReceipts
  BY AuditForm
<1> QED
  BY <1>1, <1>2, <1>3, Invariance, RecordInvariance, PTL DEF Spec

-----------------------------------------------------------------------------
(***************************************************************************)
(* A lone consumer: what it reads on from, step by step.                   *)
(***************************************************************************)
LEMMA StaysOrLeaves ==
  ASSUME NEW c \in Consumers, TypeOK, LoneInv,
         \/ pc'[c] = "down"
         \/ pc[c] # "down" /\ Busy(c)' = Busy(c) /\ cur'[c] = cur[c],
         committed' = committed,
         \A p \in Partitions :
           owner'[p] = c => owner[p] = c /\ position'[p] = position[p]
  PROVE  pc'[c] # "down" => \A p \in Partitions : ReadsOn(c, p)'
BY DEF LoneInv, ReadsOn

(* The next message follows the committed offset, or is that one again.    *)
LEMMA PollReadsOn ==
  ASSUME NEW c \in Consumers, NEW q \in Partitions, Inv, LoneInv, Poll(c, q)
  PROVE  \A p \in Partitions : ReadsOn(c, p)'
<1> DEFINE o == position[q] + 1
<1>1. /\ pc[c] = "poll" /\ owner[q] = c /\ UNCHANGED <<committed, owner>>
      /\ cur'[c] = [partition |-> q, offset |-> o]
      /\ pc'[c] \in {"begin", "publish"}
      /\ \A p \in Partitions :
           position'[p] = IF p = q THEN o ELSE position[p]
  BY DEF Poll, Goto, Inv, TypeOK
<1>2. \A p \in Partitions : committed[p] \in Nat /\ position[p] \in Nat
  BY DEF Inv, TypeOK
<1>3. Busy(c)' /\ ~ Busy(c) /\ pc[c] # "down"
  BY <1>1 DEF Busy
<1>4. \A p \in Partitions :
        owner[p] = c => position[p] \in {committed[p] - 1, committed[p]}
  BY <1>3 DEF LoneInv, ReadsOn
<1>5. ASSUME NEW p \in Partitions
      PROVE  ReadsOn(c, p)'
  <2>1. cur'[c].partition = q /\ cur'[c].offset = o
    BY <1>1
  <2>2. CASE p = q
    <3>1. committed'[p] \in {o - 1, o} /\ position'[p] = o
      BY <1>1, <1>2, <1>4, <2>2
    <3> QED
      BY <1>3, <2>1, <2>2, <3>1 DEF ReadsOn
  <2>3. CASE p # q
    BY <1>1, <1>3, <1>4, <2>1, <2>3 DEF ReadsOn
  <2> QED
    BY <2>2, <2>3
<1> QED
  BY <1>5

(* A commit moves the offset to the message in hand.                       *)
LEMMA CommitReadsOn ==
  ASSUME NEW c \in Consumers, Inv, LoneInv,
         pc[c] = "commit_offset", OffsetCommitted(c),
         \/ pc'[c] = "poll"
         \/ pc'[c] = "commit_offset" /\ cur'[c] = cur[c],
         UNCHANGED <<position, owner>>
  PROVE  \A p \in Partitions : ReadsOn(c, p)'
<1> TAKE p \in Partitions
<1>1. PICK q \in Partitions, o \in Nat \ {0} :
        cur[c].partition = q /\ cur[c].offset = o
  BY InHandSource DEF Busy
<1>2. /\ ReadsOn(c, p) /\ Busy(c)
      /\ \A r \in Partitions : committed'[r] = IF r = q THEN o ELSE committed[r]
      /\ committed[p] \in Nat /\ position[p] \in Nat
  BY <1>1 DEF LoneInv, Busy, OffsetCommitted, Inv, TypeOK
<1>3. CASE pc'[c] = "poll"
  BY <1>1, <1>2, <1>3 DEF ReadsOn, Busy
<1>4. CASE pc'[c] = "commit_offset" /\ cur'[c] = cur[c]
  BY <1>1, <1>2, <1>4 DEF ReadsOn, Busy
<1> QED
  BY <1>3, <1>4

LEMMA WorkReadsOn ==
  ASSUME NEW c \in Consumers, Inv, LoneInv, Start(c) \/ Work(c) \/ Failure(c)
  PROVE  pc'[c] # "down" => \A p \in Partitions : ReadsOn(c, p)'
<1> USE DEF Goto
<1>1. ASSUME LoseProcess(c) PROVE pc'[c] = "down"
  BY <1>1 DEF LoseProcess, Inv, TypeOK
<1>2. ASSUME LoseProcess(c) PROVE pc'[c] # "down" => \A p \in Partitions : ReadsOn(c, p)'
  BY <1>1, <1>2
<1>3. CASE Start(c)
  <2>1. pc'[c] = "poll" /\ c # None
    BY <1>3, ConsumerAssumption DEF Start, Inv, TypeOK
  <2>2. \A p \in Partitions : owner'[p] # c
    BY <1>3, <2>1 DEF Start
  <2> QED
    BY <2>1, <2>2 DEF ReadsOn, Busy
<1>4. CASE \E q \in Partitions : Poll(c, q)
  BY <1>4, PollReadsOn
<1>5. CASE CommitOffset(c)
  <2>1. pc'[c] = "poll"
    BY <1>5 DEF CommitOffset, BackToPoll, Inv, TypeOK
  <2> QED
    BY <1>5, <2>1, CommitReadsOn DEF CommitOffset
<1>6. CASE OffsetReplyLost(c)
  <2>1. CASE LoseProcess(c)
    BY <1>2, <2>1
  <2>2. CASE ~ LoseProcess(c)
    BY <1>6, <2>2, CommitReadsOn DEF OffsetReplyLost, OffsetAttemptFailed
  <2> QED
    BY <2>1, <2>2
<1>7. ASSUME Busy(c), pc'[c] \notin {"down", "poll"}, cur' = cur,
             UNCHANGED <<committed, owner, position>>
      PROVE  \A p \in Partitions : ReadsOn(c, p)'
  BY <1>7 DEF LoneInv, ReadsOn, Busy
<1>8. CASE \/ StartTransaction(c) \/ InsertReceipt(c) \/ MarkIgnored(c)
           \/ FindShortLink(c) \/ UpsertTotals(c) \/ UpsertHourly(c)
           \/ MarkAggregated(c) \/ CommitTransaction(c)
  BY <1>7, <1>8
  DEF StartTransaction, InsertReceipt, MarkIgnored, FindShortLink, UpsertTotals,
      UpsertHourly, MarkAggregated, CommitTransaction, Busy, Inv, TypeOK
<1>9. CASE DlqProduce(c) \/ DlqDelivered(c) \/ DlqDeliveryFails(c)
  BY <1>7, <1>9 DEF DlqProduce, DlqDelivered, DlqDeliveryFails, Busy, Inv, TypeOK
<1>10. CASE DlqProduceFails(c) \/ DlqFlushed(c) \/ DlqFlushTimesOut(c)
  <2>1. CASE LoseProcess(c)
    BY <1>2, <2>1
  <2>2. CASE ~ LoseProcess(c)
    BY <1>7, <1>10, <2>2
    DEF DlqProduceFails, DlqFlushed, DlqFlushTimesOut, DlqAttemptFailed, Exit,
        Busy, Inv, TypeOK
  <2> QED
    BY <2>1, <2>2
<1>11. CASE StatementFails(c) \/ CommitReplyLost(c)
  <2>1. CASE LoseProcess(c)
    BY <1>2, <2>1
  <2>2. CASE ~ LoseProcess(c)
    BY <1>7, <1>11, <2>2
    DEF StatementFails, CommitReplyLost, PersistFailed, Exit, TxnStages, Busy,
        Inv, TypeOK
  <2> QED
    BY <2>1, <2>2
<1>12. CASE CommitOffsetFails(c)
  <2>1. CASE LoseProcess(c)
    BY <1>2, <2>1
  <2>2. CASE ~ LoseProcess(c)
    BY <1>7, <1>12, <2>2 DEF CommitOffsetFails, OffsetAttemptFailed, Busy
  <2> QED
    BY <2>1, <2>2
<1>13. CASE Crash(c) \/ Stop(c)
  BY <1>2, <1>13 DEF Crash, Stop, Exit
<1> QED
  BY <1>3, <1>4, <1>5, <1>6, <1>8, <1>9, <1>10, <1>11, <1>12, <1>13
  DEF Work, Failure

LEMMA GroupReadsOn ==
  ASSUME Inv, LoneInv, NEW c \in Consumers, \A d \in Consumers : d = c,
         UNCHANGED vars \/ Environment \/ JoinGroup(c) \/ SessionTimeout(c)
  PROVE  pc'[c] # "down" => \A p \in Partitions : ReadsOn(c, p)'
<1>1. CASE Assign
  <2>1. \A p \in Partitions : committed[p] \in Nat
    BY DEF Inv, TypeOK
  <2> QED
    BY <1>1, <2>1 DEF Assign, LoneInv, ReadsOn, Busy
<1>2. CASE \E p \in Partitions : \E o \in 0..MaxLog : ResetOffset(p, o)
  BY <1>2 DEF ResetOffset
<1>3. CASE JoinGroup(c)
  <2>1. c # None
    BY ConsumerAssumption
  <2> QED
    BY <1>3, <2>1, StaysOrLeaves DEF JoinGroup, Busy, Inv
<1>4. CASE SessionTimeout(c)
  <2>1. c # None
    BY ConsumerAssumption
  <2> QED
    BY <1>4, <2>1, StaysOrLeaves DEF SessionTimeout, LeaveGroup, Busy, Inv
<1>5. CASE UNCHANGED <<committed, position, owner, pc, cur>>
  BY <1>5, StaysOrLeaves DEF Busy, Inv
<1> QED
  BY <1>1, <1>2, <1>3, <1>4, <1>5 DEF Environment, vars, Produce, CreateLink

LEMMA LoneStep ==
  ASSUME Inv, RecordInv, LoneInv, \A c, d \in Consumers : c = d, [Next]_vars
  PROVE  /\ LoneInv'
         /\ \A p \in Partitions :
              \/ committed'[p] \in {committed[p], committed[p] + 1}
              \/ /\ \A c \in Consumers : pc[c] = "down"
                 /\ committed'[p] < committed[p]
<1>1. LoneInv'
  <2> SUFFICES ASSUME NEW c \in Consumers
               PROVE  pc'[c] # "down" => \A p \in Partitions : ReadsOn(c, p)'
    BY DEF LoneInv
  <2>1. \A d \in Consumers : d = c
    OBVIOUS
  <2>2. \/ UNCHANGED vars \/ Environment \/ JoinGroup(c) \/ SessionTimeout(c)
        \/ Start(c) \/ Work(c) \/ Failure(c)
    BY <2>1 DEF Next
  <2> QED
    BY <2>1, <2>2, WorkReadsOn, GroupReadsOn
<1>2. ASSUME NEW p \in Partitions
      PROVE  \/ committed'[p] \in {committed[p], committed[p] + 1}
             \/ /\ \A c \in Consumers : pc[c] = "down"
                /\ committed'[p] < committed[p]
  <2>1. committed[p] \in Nat
    BY DEF Inv, TypeOK
  <2>2. CASE committed' = committed
    BY <2>2
  <2>3. CASE \E q \in Partitions : \E o \in 0..MaxLog : ResetOffset(q, o)
    BY <2>1, <2>3 DEF ResetOffset, Inv, TypeOK
  <2>4. ASSUME NEW c \in Consumers, pc[c] = "commit_offset", OffsetCommitted(c)
        PROVE  committed'[p] \in {committed[p], committed[p] + 1}
    <3>1. PICK q \in Partitions, o \in Nat \ {0} :
            cur[c].partition = q /\ cur[c].offset = o
      BY <2>4, InHandSource DEF Busy
    <3>2. committed'[p] = IF p = q THEN o ELSE committed[p]
      BY <2>4, <3>1 DEF OffsetCommitted, Inv, TypeOK
    <3>3. p = q => committed[p] \in {o - 1, o}
      BY <2>4, <3>1 DEF LoneInv, ReadsOn, Busy
    <3> QED
      BY <2>1, <3>2, <3>3
  <2>5. \/ committed' = committed
        \/ \E q \in Partitions : \E o \in 0..MaxLog : ResetOffset(q, o)
        \/ \E c \in Consumers : pc[c] = "commit_offset" /\ OffsetCommitted(c)
    <3>1. ASSUME NEW c \in Consumers, Start(c) \/ Work(c) \/ Failure(c)
          PROVE  \/ committed' = committed
                 \/ pc[c] = "commit_offset" /\ OffsetCommitted(c)
      BY <3>1, StepKinds
      DEF Writing, InsertReceipt, MarkIgnored, FindShortLink, UpsertTotals,
          UpsertHourly, MarkAggregated, Recording, Burying, Committing, Hidden
    <3> QED
      BY <3>1
      DEF Next, vars, Environment, Produce, CreateLink, Assign, JoinGroup,
          SessionTimeout
  <2> QED
    BY <2>2, <2>3, <2>4, <2>5
<1> QED
  BY <1>1, <1>2

(***************************************************************************)
(* With at most one consumer the committed offset moves message by message,*)
(* through retries, lost commit replies, lost sessions and restarts; only  *)
(* an operator moves it back, and only while the consumer is down.         *)
(***************************************************************************)
THEOREM LoneConsumerCommitsInOrder ==
  ASSUME \A c, d \in Consumers : c = d
  PROVE  Spec => CommitsInOrder
<1>1. Init => LoneInv
  BY DEF Init, LoneInv
<1>2. Inv /\ RecordInv /\ LoneInv /\ [Next]_vars
        => /\ LoneInv'
           /\ [\A p \in Partitions :
                 \/ committed'[p] \in {committed[p], committed[p] + 1}
                 \/ /\ \A c \in Consumers : pc[c] = "down"
                    /\ committed'[p] < committed[p]]_committed
  BY LoneStep
<1> QED
  BY <1>1, <1>2, Invariance, RecordInvariance, PTL DEF Spec, CommitsInOrder
=============================================================================
