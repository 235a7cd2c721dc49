--------------------------- MODULE AccessConsumer ---------------------------
(***************************************************************************)
(* The access-event consumers: every process of the consumer group runs    *)
(* the loop of main.cpp, one message at a time, against Kafka (partition   *)
(* logs, committed offsets, group membership, the dead-letter topic) and   *)
(* the statistics tables in MySQL, one statement per step.                 *)
(*                                                                         *)
(* Offsets are 1-based: log[p][o] is the message at Kafka offset o - 1, so *)
(* committing it stores o, the number of messages that are done.           *)
(***************************************************************************)
EXTENDS AccessEvents, Sequences

CONSTANTS
  Consumers,                \* the processes that may join the group
  Partitions,               \* partitions of the access-event topic
  ProcessingMaxAttempts,    \* consumer.processing_max_attempts
  OffsetCommitMaxAttempts,  \* consumer.offset_commit_max_attempts
  MaxLog,                   \* bound: messages appended to one partition
  MaxFaults                 \* bound: faults of the environment in a behaviour

ASSUME ConsumerAssumption ==
  /\ None \notin Consumers
  /\ ProcessingMaxAttempts \in Nat \ {0}
  /\ OffsetCommitMaxAttempts \in Nat \ {0}
  /\ MaxLog \in Nat
  /\ MaxFaults \in Nat

VARIABLES
  \* Kafka
  log,        \* log[p]: the messages of partition p
  committed,  \* committed[p]: the group's committed offset
  position,   \* position[p]: last offset handed to the owner of p
  members,    \* consumers in the current group generation
  owner,      \* owner[p]: the consumer p is assigned to, or None
  dlq,        \* dead letters the DLQ topic holds (a copy counts once)
  \* MySQL
  links,      \* codes with a row in short_links
  receipts,   \* processed_access_events
  totals,     \* short_link_access_totals
  hourly,     \* short_link_access_hourly
  \* one consumer process
  pc,         \* what it does next
  cur,        \* coordinates of the message in hand, or None
  attempt,    \* attempt of the current retry loop
  txn,        \* what its open transaction has written
  reason,     \* why the message in hand goes to the DLQ
  copies,     \* DLQ copies produced and not yet reported as delivered
  report,     \* deliveryObserved_ and deliveryError_ of the DLQ publisher
  faults      \* faults the environment may still inject

kafkaVars    == <<log, committed, position, members, owner>>
groupVars    == <<position, members, owner>>
tableVars    == <<receipts, totals, hourly>>
processVars  == <<pc, cur, attempt, txn, reason, copies, report>>
vars == <<kafkaVars, dlq, links, tableVars, processVars, faults>>

-----------------------------------------------------------------------------
TxnStages == {"begin", "insert", "ignore", "find", "totals", "hourly",
              "mark", "commit_txn"}
DlqStages == {"publish", "flush"}
Stages == TxnStages \cup DlqStages \cup {"down", "poll", "commit_offset"}

MaxAttempts == Greater(ProcessingMaxAttempts, OffsetCommitMaxAttempts)

(* The writes of an open transaction: the disposition of the receipt it    *)
(* inserted, and whether it has upserted the two statistics rows.          *)
Txn == [receipt : Dispositions \cup {"absent"}, totals : BOOLEAN,
        hourly : BOOLEAN]
NoTxn == [receipt |-> "absent", totals |-> FALSE, hourly |-> FALSE]

Coordinates == [partition : Partitions, offset : Nat \ {0}]
Receipt == [disposition : Dispositions, source : Coordinates]
DeadLetter == [source : Coordinates, reason : DeadLetterReasons]

ASSUME NoneAssumption == None \notin Receipt

MessageAt(at) == log[at.partition][at.offset]
InHand(c) == MessageAt(cur[c])
Busy(c) == pc[c] \notin {"down", "poll"}
DeadLetterOf(c) == [source |-> cur[c], reason |-> reason[c]]

Init ==
  /\ log = [p \in Partitions |-> <<>>]
  /\ committed = [p \in Partitions |-> 0]
  /\ position = [p \in Partitions |-> 0]
  /\ members = {}
  /\ owner = [p \in Partitions |-> None]
  /\ dlq = {}
  /\ links \in SUBSET Codes
  /\ receipts = [e \in EventIds |-> None]
  /\ totals = [k \in TotalsKeys |-> NoTotals]
  /\ hourly = [k \in HourlyKeys |-> 0]
  /\ pc = [c \in Consumers |-> "down"]
  /\ cur = [c \in Consumers |-> None]
  /\ attempt = [c \in Consumers |-> 0]
  /\ txn = [c \in Consumers |-> NoTxn]
  /\ reason = [c \in Consumers |-> "none"]
  /\ copies = [c \in Consumers |-> 0]
  /\ report = [c \in Consumers |-> "none"]
  /\ faults = MaxFaults

-----------------------------------------------------------------------------
(* One more fault of the environment; the bound keeps behaviours finite.   *)
Fault == faults > 0 /\ faults' = faults - 1

Goto(c, stage) == pc' = [pc EXCEPT ![c] = stage]

(* The process is gone: its memory and its open transaction with it.       *)
LoseProcess(c) ==
  /\ Goto(c, "down")
  /\ cur' = [cur EXCEPT ![c] = None]
  /\ attempt' = [attempt EXCEPT ![c] = 0]
  /\ txn' = [txn EXCEPT ![c] = NoTxn]
  /\ reason' = [reason EXCEPT ![c] = "none"]
  /\ copies' = [copies EXCEPT ![c] = 0]
  /\ report' = [report EXCEPT ![c] = "none"]

(* A copy still in flight may reach the DLQ topic after its producer died. *)
InFlightCopiesLand(c) ==
  \/ UNCHANGED dlq
  \/ copies[c] > 0 /\ dlq' = dlq \cup {DeadLetterOf(c)}

(* A membership change of the group revokes every assignment.              *)
LeaveGroup(c) ==
  /\ members' = members \ {c}
  /\ owner' = IF c \in members THEN [p \in Partitions |-> None] ELSE owner

(* ~KafkaAccessEventConsumer and the destructors of its members: the       *)
(* consumer leaves the group, the DLQ producer flushes what it still has.  *)
Exit(c) ==
  /\ LoseProcess(c)
  /\ InFlightCopiesLand(c)
  /\ LeaveGroup(c)
  /\ UNCHANGED <<log, committed, position>>

(* The loop is back at the poll, nothing in hand.                          *)
BackToPoll(c) ==
  /\ Goto(c, "poll")
  /\ cur' = [cur EXCEPT ![c] = None]
  /\ attempt' = [attempt EXCEPT ![c] = 0]
  /\ reason' = [reason EXCEPT ![c] = "none"]
  /\ report' = [report EXCEPT ![c] = "none"]
  /\ UNCHANGED <<txn, copies>>

-----------------------------------------------------------------------------
(***************************************************************************)
(* The environment: producers append, the API creates links, processes     *)
(* start and die, the group coordinator assigns, operators reset offsets.  *)
(***************************************************************************)
Produce(p, m) ==
  /\ Len(log[p]) < MaxLog
  /\ log' = [log EXCEPT ![p] = Append(@, m)]
  /\ UNCHANGED <<committed, groupVars, dlq, links, tableVars, processVars, faults>>

CreateLink(code) ==
  /\ code \notin links
  /\ links' = links \cup {code}
  /\ UNCHANGED <<kafkaVars, dlq, tableVars, processVars, faults>>

(* A new process; what a dead one of the same name owned stays unassigned. *)
Start(c) ==
  /\ pc[c] = "down"
  /\ Goto(c, "poll")
  /\ members' = members \ {c}
  /\ owner' = [p \in Partitions |-> IF owner[p] = c THEN None ELSE owner[p]]
  /\ UNCHANGED <<log, committed, position, dlq, links, tableVars, cur, attempt,
                 txn, reason, copies, report, faults>>

JoinGroup(c) ==
  /\ pc[c] # "down"
  /\ c \notin members
  /\ members' = members \cup {c}
  /\ owner' = [p \in Partitions |-> None]
  /\ UNCHANGED <<log, committed, position, dlq, links, tableVars, processVars, faults>>

(* Partitions are dealt out and each is read on from its committed offset. *)
Assign ==
  /\ members # {}
  /\ \A p \in Partitions : owner[p] = None
  /\ owner' \in [Partitions -> members]
  /\ position' = committed
  /\ UNCHANGED <<log, committed, members, dlq, links, tableVars, processVars, faults>>

(* The coordinator drops a dead member, or, by fault, one that is alive.   *)
SessionTimeout(c) ==
  /\ c \in members
  /\ IF pc[c] = "down" THEN UNCHANGED faults ELSE Fault
  /\ LeaveGroup(c)
  /\ UNCHANGED <<log, committed, position, dlq, links, tableVars, processVars>>

Crash(c) ==
  /\ pc[c] # "down"
  /\ Fault
  /\ LoseProcess(c)
  /\ InFlightCopiesLand(c)
  /\ UNCHANGED <<kafkaVars, links, tableVars>>

(* SIGTERM: noticed by the loop between two messages.                      *)
Stop(c) ==
  /\ pc[c] = "poll"
  /\ Fault
  /\ Exit(c)
  /\ UNCHANGED <<links, tableVars>>

(* Replay: the consumers are stopped, as docs/RUNBOOK.md demands, and the   *)
(* committed offset of the empty group is moved back by hand.              *)
ResetOffset(p, o) ==
  /\ \A c \in Consumers : pc[c] = "down"
  /\ members = {}
  /\ o < committed[p]
  /\ Fault
  /\ committed' = [committed EXCEPT ![p] = o]
  /\ UNCHANGED <<log, groupVars, dlq, links, tableVars, processVars>>

-----------------------------------------------------------------------------
(***************************************************************************)
(* run and handleMessage.                                                  *)
(***************************************************************************)
Poll(c, p) ==
  LET o == position[p] + 1
      defect == ContractDefect(log[p][o])
  IN  /\ pc[c] = "poll"
      /\ owner[p] = c
      /\ o <= Len(log[p])
      /\ position' = [position EXCEPT ![p] = o]
      /\ cur' = [cur EXCEPT ![c] = [partition |-> p, offset |-> o]]
      /\ attempt' = [attempt EXCEPT ![c] = 1]
      /\ reason' = [reason EXCEPT ![c] = defect]
      /\ Goto(c, IF defect = "none" THEN "begin" ELSE "publish")
      /\ UNCHANGED <<log, committed, members, owner, dlq, links, tableVars,
                     txn, copies, report, faults>>

(***************************************************************************)
(* MySqlAccessStatisticsWriter::process, statement by statement.  Nobody   *)
(* else sees the writes before COMMIT, and until then the row locks make   *)
(* another session that wants the same row wait.                           *)
(***************************************************************************)
LockedReceipt(c, id) ==
  \E d \in Consumers \ {c} : txn[d].receipt # "absent" /\ InHand(d).id = id

LockedTotals(c, key) ==
  \E d \in Consumers \ {c} : txn[d].totals /\ TotalsKey(InHand(d)) = key

LockedHourly(c, key) ==
  \E d \in Consumers \ {c} : txn[d].hourly /\ HourlyKey(InHand(d)) = key

(* Everything a statement inside the transaction leaves alone.             *)
OutsideTxn == <<kafkaVars, dlq, links, tableVars, cur, copies, report, faults>>

StartTransaction(c) ==
  /\ pc[c] = "begin"
  /\ txn' = [txn EXCEPT ![c] = NoTxn]
  /\ Goto(c, "insert")
  /\ UNCHANGED <<OutsideTxn, attempt, reason>>

(* Slip: the receipt is written outside the transaction (autocommit).      *)
InsertReceiptAutocommit(c) ==
  /\ pc[c] = "insert"
  /\ IF receipts[InHand(c).id] # None
     THEN Goto(c, "commit_txn") /\ UNCHANGED <<txn, receipts>>
     ELSE /\ txn' = [txn EXCEPT ![c].receipt = "received"]
          /\ receipts' = [receipts EXCEPT ![InHand(c).id] =
                            [disposition |-> "received", source |-> cur[c]]]
          /\ Goto(c, IF InHand(c).result = "not_found" THEN "ignore" ELSE "find")
  /\ UNCHANGED <<kafkaVars, dlq, links, totals, hourly, cur, copies, report,
                 faults, attempt, reason>>

(* Slip: a lookup of the receipt instead of the locking INSERT IGNORE.     *)
InsertReceiptUnlocked(c) ==
  /\ pc[c] = "insert"
  /\ IF receipts[InHand(c).id] # None
     THEN Goto(c, "commit_txn") /\ UNCHANGED txn
     ELSE /\ txn' = [txn EXCEPT ![c].receipt = "received"]
          /\ Goto(c, IF InHand(c).result = "not_found" THEN "ignore" ELSE "find")
  /\ UNCHANGED <<OutsideTxn, attempt, reason>>

(* INSERT IGNORE: an event_id that has a receipt inserts nothing.          *)
InsertReceipt(c) ==
  /\ pc[c] = "insert"
  /\ ~ LockedReceipt(c, InHand(c).id)
  /\ IF receipts[InHand(c).id] # None
     THEN Goto(c, "commit_txn") /\ UNCHANGED txn
     ELSE /\ txn' = [txn EXCEPT ![c].receipt = "received"]
          /\ Goto(c, IF InHand(c).result = "not_found" THEN "ignore" ELSE "find")
  /\ UNCHANGED <<OutsideTxn, attempt, reason>>

MarkIgnored(c) ==
  /\ pc[c] = "ignore"
  /\ txn' = [txn EXCEPT ![c].receipt = "not_found_ignored"]
  /\ Goto(c, "commit_txn")
  /\ UNCHANGED <<OutsideTxn, attempt, reason>>

(* A code without a row: OrphanShortLinkEvent, ROLLBACK, dead letter.      *)
FindShortLink(c) ==
  /\ pc[c] = "find"
  /\ IF InHand(c).code \in links
     THEN Goto(c, "totals") /\ UNCHANGED <<txn, attempt, reason>>
     ELSE /\ txn' = [txn EXCEPT ![c] = NoTxn]
          /\ reason' = [reason EXCEPT ![c] = "orphan_short_link"]
          /\ attempt' = [attempt EXCEPT ![c] = 1]
          /\ Goto(c, "publish")
  /\ UNCHANGED OutsideTxn

UpsertTotals(c) ==
  /\ pc[c] = "totals"
  /\ ~ LockedTotals(c, TotalsKey(InHand(c)))
  /\ txn' = [txn EXCEPT ![c].totals = TRUE]
  /\ Goto(c, "hourly")
  /\ UNCHANGED <<OutsideTxn, attempt, reason>>

UpsertHourly(c) ==
  /\ pc[c] = "hourly"
  /\ ~ LockedHourly(c, HourlyKey(InHand(c)))
  /\ txn' = [txn EXCEPT ![c].hourly = TRUE]
  /\ Goto(c, "mark")
  /\ UNCHANGED <<OutsideTxn, attempt, reason>>

MarkAggregated(c) ==
  /\ pc[c] = "mark"
  /\ txn' = [txn EXCEPT ![c].receipt = "aggregated"]
  /\ Goto(c, "commit_txn")
  /\ UNCHANGED <<OutsideTxn, attempt, reason>>

(* COMMIT takes effect in MySQL: the transaction's writes become visible.  *)
TxnCommitted(c) ==
  LET m == InHand(c)
  IN  /\ receipts' = IF txn[c].receipt = "absent" THEN receipts
                     ELSE [receipts EXCEPT ![m.id] =
                             [disposition |-> txn[c].receipt, source |-> cur[c]]]
      /\ totals' = IF txn[c].totals THEN UpsertedTotals(totals, m) ELSE totals
      /\ hourly' = IF txn[c].hourly THEN UpsertedHourly(hourly, m) ELSE hourly

CommitTransaction(c) ==
  /\ pc[c] = "commit_txn"
  /\ TxnCommitted(c)
  /\ txn' = [txn EXCEPT ![c] = NoTxn]
  /\ attempt' = [attempt EXCEPT ![c] = 1]
  /\ Goto(c, "commit_offset")
  /\ UNCHANGED <<kafkaVars, dlq, links, cur, reason, copies, report, faults>>

(* Slip: after the last attempt the message is logged and skipped.         *)
PersistFailedSkips(c) ==
  /\ txn' = [txn EXCEPT ![c] = NoTxn]
  /\ IF attempt[c] = ProcessingMaxAttempts
     THEN /\ attempt' = [attempt EXCEPT ![c] = 1]
          /\ Goto(c, "commit_offset")
     ELSE /\ attempt' = [attempt EXCEPT ![c] = @ + 1]
          /\ Goto(c, "begin")
  /\ UNCHANGED <<kafkaVars, dlq, cur, reason, copies, report>>

(***************************************************************************)
(* persistWithRetry: the attempt threw.  The transaction is rolled back;   *)
(* the last attempt ends the process, any other reconnects and starts over.*)
(***************************************************************************)
PersistFailed(c) ==
  IF attempt[c] = ProcessingMaxAttempts
  THEN Exit(c)
  ELSE /\ txn' = [txn EXCEPT ![c] = NoTxn]
       /\ attempt' = [attempt EXCEPT ![c] = @ + 1]
       /\ Goto(c, "begin")
       /\ UNCHANGED <<kafkaVars, dlq, cur, reason, copies, report>>

StatementFails(c) ==
  /\ pc[c] \in TxnStages
  /\ Fault
  /\ PersistFailed(c)
  /\ UNCHANGED <<links, tableVars>>

(* COMMIT took effect but its reply is lost: the client sees a failure.    *)
CommitReplyLost(c) ==
  /\ pc[c] = "commit_txn"
  /\ Fault
  /\ TxnCommitted(c)
  /\ PersistFailed(c)
  /\ UNCHANGED links

-----------------------------------------------------------------------------
(***************************************************************************)
(* publishToDeadLetter and KafkaDeadLetterPublisher::publish.  Reports are *)
(* served inside flush and carry no identity: the last one decides.        *)
(***************************************************************************)
DlqAttemptFailed(c) ==
  IF attempt[c] = ProcessingMaxAttempts
  THEN Exit(c)
  ELSE /\ attempt' = [attempt EXCEPT ![c] = @ + 1]
       /\ Goto(c, "publish")
       /\ UNCHANGED <<kafkaVars, dlq, cur, txn, reason, copies, report>>

DlqProduce(c) ==
  /\ pc[c] = "publish"
  /\ copies' = [copies EXCEPT ![c] = @ + 1]
  /\ report' = [report EXCEPT ![c] = "none"]
  /\ Goto(c, "flush")
  /\ UNCHANGED <<kafkaVars, dlq, links, tableVars, cur, attempt, txn, reason, faults>>

DlqProduceFails(c) ==
  /\ pc[c] = "publish"
  /\ Fault
  /\ DlqAttemptFailed(c)
  /\ UNCHANGED <<links, tableVars>>

(* deliveryCallback for the oldest outstanding copy.                       *)
DlqDelivered(c) ==
  /\ pc[c] = "flush"
  /\ copies[c] > 0
  /\ dlq' = dlq \cup {DeadLetterOf(c)}
  /\ copies' = [copies EXCEPT ![c] = @ - 1]
  /\ report' = [report EXCEPT ![c] = "ok"]
  /\ UNCHANGED <<kafkaVars, links, tableVars, pc, cur, attempt, txn, reason, faults>>

(* A copy reported as failed may all the same have been stored.            *)
DlqDeliveryFails(c) ==
  /\ pc[c] = "flush"
  /\ copies[c] > 0
  /\ Fault
  /\ InFlightCopiesLand(c)
  /\ copies' = [copies EXCEPT ![c] = @ - 1]
  /\ report' = [report EXCEPT ![c] = "error"]
  /\ UNCHANGED <<kafkaVars, links, tableVars, pc, cur, attempt, txn, reason>>

(* Slip: a flush without error is taken for a successful delivery.         *)
DlqFlushedUnchecked(c) ==
  /\ pc[c] = "flush"
  /\ copies[c] = 0
  /\ attempt' = [attempt EXCEPT ![c] = 1]
  /\ Goto(c, "commit_offset")
  /\ UNCHANGED <<kafkaVars, dlq, links, tableVars, cur, txn, reason, copies,
                 report, faults>>

(* flush returned without error: every outstanding copy has been reported. *)
DlqFlushed(c) ==
  /\ pc[c] = "flush"
  /\ copies[c] = 0
  /\ IF report[c] = "ok"
     THEN /\ attempt' = [attempt EXCEPT ![c] = 1]
          /\ Goto(c, "commit_offset")
          /\ UNCHANGED <<kafkaVars, dlq, cur, txn, reason, copies, report>>
     ELSE DlqAttemptFailed(c)
  /\ UNCHANGED <<links, tableVars, faults>>

DlqFlushTimesOut(c) ==
  /\ pc[c] = "flush"
  /\ copies[c] > 0
  /\ Fault
  /\ DlqAttemptFailed(c)
  /\ UNCHANGED <<links, tableVars>>

-----------------------------------------------------------------------------
(***************************************************************************)
(* commitWithRetry.  The broker checks membership of the generation, not   *)
(* who owns the partition: a commit that arrives late can move it back.    *)
(***************************************************************************)
OffsetCommitted(c) ==
  committed' = [committed EXCEPT ![cur[c].partition] = cur[c].offset]

CommitOffset(c) ==
  /\ pc[c] = "commit_offset"
  /\ c \in members
  /\ OffsetCommitted(c)
  /\ BackToPoll(c)
  /\ UNCHANGED <<log, groupVars, dlq, links, tableVars, faults>>

(* Slip: after the last failed commit the loop goes on to the next message.*)
OffsetAttemptFailedGoesOn(c) ==
  IF attempt[c] = OffsetCommitMaxAttempts
  THEN BackToPoll(c) /\ UNCHANGED <<members, owner>>
  ELSE /\ attempt' = [attempt EXCEPT ![c] = @ + 1]
       /\ UNCHANGED <<members, owner, pc, cur, txn, reason, copies, report>>

(* The last failed attempt ends the process: no later message is committed.*)
OffsetAttemptFailed(c) ==
  IF attempt[c] = OffsetCommitMaxAttempts
  THEN LoseProcess(c) /\ LeaveGroup(c)
  ELSE /\ attempt' = [attempt EXCEPT ![c] = @ + 1]
       /\ UNCHANGED <<members, owner, pc, cur, txn, reason, copies, report>>

CommitOffsetFails(c) ==
  /\ pc[c] = "commit_offset"
  /\ IF c \in members THEN Fault ELSE UNCHANGED faults
  /\ OffsetAttemptFailed(c)
  /\ UNCHANGED <<log, committed, position, dlq, links, tableVars>>

(* The commit took effect but its reply is lost.                           *)
OffsetReplyLost(c) ==
  /\ pc[c] = "commit_offset"
  /\ c \in members
  /\ Fault
  /\ OffsetCommitted(c)
  /\ OffsetAttemptFailed(c)
  /\ UNCHANGED <<log, position, dlq, links, tableVars>>

-----------------------------------------------------------------------------
(* What a consumer does by itself as long as nothing fails.                *)
Work(c) ==
  \/ \E p \in Partitions : Poll(c, p)
  \/ StartTransaction(c) \/ InsertReceipt(c) \/ MarkIgnored(c)
  \/ FindShortLink(c) \/ UpsertTotals(c) \/ UpsertHourly(c)
  \/ MarkAggregated(c) \/ CommitTransaction(c)
  \/ DlqProduce(c) \/ DlqDelivered(c) \/ DlqFlushed(c)
  \/ CommitOffset(c)

Failure(c) ==
  \/ StatementFails(c) \/ CommitReplyLost(c)
  \/ DlqProduceFails(c) \/ DlqDeliveryFails(c) \/ DlqFlushTimesOut(c)
  \/ CommitOffsetFails(c) \/ OffsetReplyLost(c)
  \/ Crash(c) \/ Stop(c)

Environment ==
  \/ \E p \in Partitions, m \in Messages : Produce(p, m)
  \/ \E code \in Codes : CreateLink(code)
  \/ \E p \in Partitions : \E o \in 0..MaxLog : ResetOffset(p, o)
  \/ Assign

Next ==
  \/ Environment
  \/ \E c \in Consumers : \/ Start(c) \/ JoinGroup(c) \/ SessionTimeout(c)
                          \/ Work(c) \/ Failure(c)

Spec == Init /\ [][Next]_vars

(***************************************************************************)
(* A consumer thread keeps running, Compose restarts a process that exited *)
(* (restart: unless-stopped), a running process keeps trying to join, a    *)
(* commit by a consumer that is no member returns, and the coordinator     *)
(* drops dead members and completes the assignment.                        *)
(***************************************************************************)
Fairness ==
  /\ WF_vars(Assign)
  /\ \A c \in Consumers :
       /\ WF_vars(Work(c))
       /\ WF_vars(Start(c))
       /\ WF_vars(JoinGroup(c))
       /\ WF_vars(pc[c] = "down" /\ SessionTimeout(c))

FairSpec == Spec /\ Fairness
=============================================================================
