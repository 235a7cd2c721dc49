------------------------ MODULE ConsumerObservability ------------------------
(***************************************************************************)
(* What a consumer process tells about itself: the loop that consumes      *)
(* keeps the lag gauges and the health flag, and a second thread answers   *)
(* GET /health and GET /metrics from them, one connection after another.   *)
(* Both end when the process is told to stop.  What happens to a message   *)
(* between poll and commit is the matter of AccessConsumer; here it is     *)
(* handled or it ends the process.                                         *)
(***************************************************************************)
EXTENDS Integers, Sequences, FiniteSets

CONSTANTS
  Partitions,               \* partitions of the access-event topic
  Clients,                  \* connections to the observability port
  OffsetCommitMaxAttempts,  \* consumer.offset_commit_max_attempts
  MaxLog,                   \* bound: messages of a partition
  MaxRebalances,            \* bound: changes of the assignment
  MaxMishaps,               \* bound: failures of Kafka and of the handling
  Absent                    \* no message, no gauge, no watermark

ASSUME WatchAssumption ==
  /\ IsFiniteSet(Partitions) /\ IsFiniteSet(Clients)
  /\ OffsetCommitMaxAttempts \in Nat \ {0}
  /\ MaxLog \in Nat /\ MaxRebalances \in Nat /\ MaxMishaps \in Nat
  /\ Absent \notin Int /\ Absent \notin [partition : Partitions, offset : Nat]

VARIABLES
  log,         \* high watermark of a partition, its messages
  committed,   \* committed offset of the group
  assigned,    \* partitions this consumer is to read
  position,    \* next offset it is delivered
  cached,      \* high watermark librdkafka remembers, or None
  lag,         \* ConsumerMetrics::lag_: gauge of a partition, or None
  healthy,     \* ConsumerMetrics::healthy_
  consumer,    \* what the main thread does next
  hand,        \* message it handles: partition and offset
  attempt,     \* attempts to commit it
  asked,       \* refreshLag: partitions it has still to query
  base,        \* refreshLag: committed offsets it was told
  fresh,       \* refreshLag: the gauges it gathers
  stop,        \* gStopRequested
  server,      \* what the observability thread does next
  ending,      \* stopRequested_
  listening,   \* the listening socket: "open", "shut" or "closed"
  backlog,     \* connections not accepted yet
  client,      \* what a client does
  serving,     \* connection the thread has accepted
  rebalances,  \* changes of the assignment so far
  mishaps,     \* failures so far
  least        \* history: the smallest lag since refreshLag began

offsets == <<log, committed, assigned, position, cached, rebalances>>
gauges == <<lag, healthy>>
refresh == <<asked, base, fresh>>
watch == <<server, ending, listening, backlog, client, serving>>
watchVars ==
  <<offsets, gauges, consumer, hand, attempt, refresh, stop, watch, mishaps, least>>

WatchInit ==
  /\ log = [p \in Partitions |-> 0]
  /\ committed = [p \in Partitions |-> 0]
  /\ assigned = {}
  /\ position = [p \in Partitions |-> 0]
  /\ cached = [p \in Partitions |-> Absent]
  /\ lag = [p \in Partitions |-> Absent]
  /\ healthy = FALSE
  /\ consumer = "start"
  /\ hand = Absent
  /\ attempt = 0
  /\ asked = {}
  /\ base = [p \in Partitions |-> 0]
  /\ fresh = [p \in Partitions |-> Absent]
  /\ stop = FALSE
  /\ server = "check"
  /\ ending = FALSE
  /\ listening = "open"
  /\ backlog = <<>>
  /\ client = [k \in Clients |-> "away"]
  /\ serving = Absent
  /\ rebalances = 0
  /\ mishaps = 0
  /\ least = [p \in Partitions |-> 0]

Mishap == mishaps < MaxMishaps /\ mishaps' = mishaps + 1

TrueLag(p) == log[p] - committed[p]

Smaller(a, b) == IF a <= b THEN a ELSE b

Greater(a, b) == IF a >= b THEN a ELSE b

(* History: a lag that falls while the gauges are refreshed.               *)
Remember ==
  least' = IF consumer \in {"committed", "watermarks"}
           THEN [p \in Partitions |-> Smaller(least[p], TrueLag(p)')]
           ELSE least

(* The variables of refreshLag are gone when it returns.                   *)
Forget ==
  /\ asked' = {}
  /\ base' = [p \in Partitions |-> 0]
  /\ fresh' = [p \in Partitions |-> Absent]
  /\ least' = [p \in Partitions |-> 0]

-----------------------------------------------------------------------------
(* Kafka, and the other consumers of the group.                            *)
ProduceMessage(p) ==
  /\ log[p] < MaxLog
  /\ log' = [log EXCEPT ![p] = @ + 1]
  /\ UNCHANGED <<committed, assigned, position, cached, rebalances, gauges, consumer, hand,
                 attempt, refresh, stop, watch, mishaps>>
  /\ Remember

Consuming == consumer \notin {"start", "close", "teardown", "join", "ended"}

(* The group is dealt out anew, also while a message is handled.           *)
Rebalance ==
  /\ Consuming
  /\ rebalances < MaxRebalances
  /\ rebalances' = rebalances + 1
  /\ \E given \in SUBSET Partitions : given # assigned /\ assigned' = given
  /\ position' = committed
  /\ cached' = [p \in Partitions |-> IF p \in assigned' THEN cached[p] ELSE Absent]
  /\ UNCHANGED <<log, committed, gauges, consumer, hand, attempt, refresh, stop,
                 watch, mishaps, least>>

(* Another consumer handles what this one was not given.                   *)
OtherCommits(p) ==
  /\ p \notin assigned
  /\ committed[p] < log[p]
  /\ committed' = [committed EXCEPT ![p] = @ + 1]
  /\ UNCHANGED <<log, assigned, position, cached, rebalances, gauges, consumer, hand,
                 attempt, refresh, stop, watch, mishaps>>
  /\ Remember

(* A fetch tells the consumer where a partition ends.                      *)
LearnWatermark(p) ==
  /\ p \in assigned
  /\ cached[p] # log[p]
  /\ cached' = [cached EXCEPT ![p] = log[p]]
  /\ UNCHANGED <<log, committed, assigned, position, rebalances, gauges, consumer, hand,
                 attempt, refresh, stop, watch, mishaps, least>>

Signal ==
  /\ ~stop
  /\ stop' = TRUE
  /\ UNCHANGED <<offsets, gauges, consumer, hand, attempt, refresh, watch, mishaps, least>>

-----------------------------------------------------------------------------
(* The main thread.                                                        *)
(* The metrics and the observability thread are there before the consumer. *)
Subscribe ==
  /\ consumer = "start"
  /\ consumer' = "loop"
  /\ healthy' = TRUE
  /\ UNCHANGED <<offsets, lag, hand, attempt, refresh, stop, watch, mishaps, least>>

SubscribeFails ==
  /\ consumer = "start"
  /\ Mishap
  /\ consumer' = "teardown"
  /\ UNCHANGED <<offsets, gauges, hand, attempt, refresh, stop, watch, least>>

CheckStop ==
  /\ consumer = "loop"
  /\ IF stop THEN consumer' = "close" /\ healthy' = FALSE
             ELSE consumer' = "poll" /\ UNCHANGED healthy
  /\ UNCHANGED <<offsets, lag, hand, attempt, refresh, stop, watch, mishaps, least>>

(* An exception out of run.                                                *)
Throw ==
  /\ consumer' = "close"
  /\ healthy' = FALSE
  /\ hand' = Absent
  /\ attempt' = 0
  /\ UNCHANGED lag

PollFails ==
  /\ consumer = "poll"
  /\ Mishap
  /\ consumer' = "loop"
  /\ UNCHANGED <<offsets, gauges, hand, attempt, refresh, stop, watch, least>>

(* Nothing came; a refresh may be due.                                     *)
PollTimesOut(due) ==
  /\ consumer = "poll"
  /\ IF due /\ assigned # {}
     THEN /\ consumer' = "committed"
          /\ asked' = assigned
          /\ least' = [p \in Partitions |-> TrueLag(p)]
     ELSE consumer' = "loop" /\ UNCHANGED <<asked, least>>
  /\ UNCHANGED <<offsets, gauges, hand, attempt, base, fresh, stop, watch, mishaps>>

PollMessage(p) ==
  /\ consumer = "poll"
  /\ p \in assigned /\ position[p] < log[p]
  /\ hand' = [partition |-> p, offset |-> position[p]]
  /\ position' = [position EXCEPT ![p] = @ + 1]
  /\ consumer' = "observe"
  /\ UNCHANGED <<log, committed, assigned, cached, rebalances, gauges, attempt,
                 refresh,
                 stop, watch, mishaps, least>>

(* Slip (BUG-006): the gauge waits for a watermark.                        *)
ObserveNothing ==
  /\ consumer = "observe"
  /\ consumer' = "refine"
  /\ UNCHANGED <<offsets, gauges, hand, attempt, refresh, stop, watch, mishaps, least>>

(* observeMessageLag before the message is handled: at least this one.     *)
Observe ==
  /\ consumer = "observe"
  /\ lag' = [lag EXCEPT ![hand.partition] = 1]
  /\ consumer' = "refine"
  /\ UNCHANGED <<offsets, healthy, hand, attempt, refresh, stop, watch, mishaps, least>>

(* The gauge as far as the remembered watermark tells.                     *)
Estimate(p, next, minimum) ==
  lag' = IF cached[p] = Absent THEN lag
         ELSE [lag EXCEPT ![p] = Greater(minimum, cached[p] - next)]

Refine ==
  /\ consumer = "refine"
  /\ Estimate(hand.partition, hand.offset, 1)
  /\ consumer' = "handle"
  /\ UNCHANGED <<offsets, healthy, hand, attempt, refresh, stop, watch, mishaps, least>>

Handle ==
  /\ consumer = "handle"
  /\ consumer' = "commit"
  /\ UNCHANGED <<offsets, gauges, hand, attempt, refresh, stop, watch, mishaps, least>>

(* persistWithRetry or publishToDeadLetter gives up.                       *)
HandleFails ==
  /\ consumer = "handle"
  /\ Mishap
  /\ Throw
  /\ UNCHANGED <<offsets, refresh, stop, watch, least>>

Commit ==
  /\ consumer = "commit"
  /\ committed' = [committed EXCEPT ![hand.partition] = hand.offset + 1]
  /\ consumer' = "settle"
  /\ UNCHANGED <<log, assigned, position, cached, rebalances, gauges, hand,
                 attempt, refresh, stop, watch, mishaps>>
  /\ Remember

CommitFails ==
  /\ consumer = "commit"
  /\ Mishap
  /\ IF attempt + 1 < OffsetCommitMaxAttempts
     THEN attempt' = attempt + 1 /\ UNCHANGED <<consumer, hand, gauges>>
     ELSE Throw
  /\ UNCHANGED <<offsets, refresh, stop, watch, least>>

(* observeMessageLag after the commit.                                     *)
SettleLag ==
  /\ consumer = "settle"
  /\ Estimate(hand.partition, hand.offset + 1, 0)
  /\ hand' = Absent
  /\ attempt' = 0
  /\ consumer' = "loop"
  /\ UNCHANGED <<offsets, healthy, refresh, stop, watch, mishaps, least>>

(* refreshLag: first the committed offsets, in one question.               *)
AskCommitted ==
  /\ consumer = "committed"
  /\ base' = committed
  /\ consumer' = "watermarks"
  /\ UNCHANGED <<offsets, gauges, hand, attempt, asked, fresh, stop, watch, mishaps, least>>

AskCommittedFails ==
  /\ consumer = "committed"
  /\ Mishap
  /\ consumer' = "loop"
  /\ Forget
  /\ UNCHANGED <<offsets, gauges, hand, attempt, stop, watch>>

(* Slip: the remembered watermark is good enough.                          *)
AskWatermarkRemembered(p) ==
  /\ consumer = "watermarks" /\ p \in asked
  /\ asked' = asked \ {p}
  /\ fresh' = [fresh EXCEPT ![p] =
                 IF cached[p] = Absent THEN Absent ELSE Greater(0, cached[p] - base[p])]
  /\ UNCHANGED <<offsets, gauges, consumer, hand, attempt, base, stop, watch, mishaps, least>>

(* Then the end of every partition, each in a question of its own.         *)
AskWatermark(p) ==
  /\ consumer = "watermarks" /\ p \in asked
  /\ asked' = asked \ {p}
  /\ fresh' = [fresh EXCEPT ![p] = Greater(0, log[p] - base[p])]
  /\ UNCHANGED <<offsets, gauges, consumer, hand, attempt, base, stop, watch, mishaps, least>>

AskWatermarkFails(p) ==
  /\ consumer = "watermarks" /\ p \in asked
  /\ Mishap
  /\ asked' = asked \ {p}
  /\ UNCHANGED <<offsets, gauges, consumer, hand, attempt, base, fresh, stop, watch, least>>

(* Slip: an empty gauge is taken for an unknown one and left as it was.    *)
ReplaceLagIfAny ==
  /\ consumer = "watermarks" /\ asked = {}
  /\ lag' = [p \in Partitions |-> IF fresh[p] \in {Absent, 0} THEN lag[p] ELSE fresh[p]]
  /\ consumer' = "loop"
  /\ Forget
  /\ UNCHANGED <<offsets, healthy, hand, attempt, stop, watch, mishaps>>

ReplaceLag ==
  /\ consumer = "watermarks" /\ asked = {}
  /\ lag' = fresh
  /\ consumer' = "loop"
  /\ Forget
  /\ UNCHANGED <<offsets, healthy, hand, attempt, stop, watch, mishaps>>

(* ~KafkaAccessEventConsumer leaves the group.                             *)
Close ==
  /\ consumer = "close"
  /\ assigned' = {}
  /\ position' = [p \in Partitions |-> 0]
  /\ cached' = [p \in Partitions |-> Absent]
  /\ consumer' = "teardown"
  /\ UNCHANGED <<log, committed, rebalances, gauges, hand, attempt,
                 refresh, stop, watch, mishaps, least>>

(* ~ConsumerObservabilityServer, two steps and the join.                   *)
RequestEnd ==
  /\ consumer = "teardown" /\ ~ending
  /\ ending' = TRUE
  /\ UNCHANGED <<offsets, gauges, consumer, hand, attempt, refresh, stop, server, listening,
                 backlog, client, serving, mishaps, least>>

ShutListener ==
  /\ consumer = "teardown" /\ ending
  /\ listening' = "shut"
  /\ consumer' = "join"
  /\ UNCHANGED <<offsets, gauges, hand, attempt, refresh, stop, server, ending,
                 backlog, client, serving, mishaps, least>>

(* The thread has ended; the metrics go last.                              *)
JoinServer ==
  /\ consumer = "join" /\ server = "ended"
  /\ listening' = "closed"
  /\ consumer' = "ended"
  /\ client' = [k \in Clients |-> IF client[k] = "away" THEN "away" ELSE "closed"]
  /\ backlog' = <<>>
  /\ UNCHANGED <<offsets, gauges, hand, attempt, refresh, stop, server, ending,
                 serving, mishaps, least>>

-----------------------------------------------------------------------------
(* The clients.                                                            *)
Connect(k) ==
  /\ listening = "open"
  /\ client[k] = "away"
  /\ client' = [client EXCEPT ![k] = "silent"]
  /\ backlog' = Append(backlog, k)
  /\ UNCHANGED <<offsets, gauges, consumer, hand, attempt, refresh, stop, server, ending,
                 listening, serving, mishaps, least>>

SendRequest(k) ==
  /\ client[k] = "silent"
  /\ client' = [client EXCEPT ![k] = "asking"]
  /\ UNCHANGED <<offsets, gauges, consumer, hand, attempt, refresh, stop, server, ending,
                 listening, backlog, serving, mishaps, least>>

(* serve.                                                                  *)
ServerSteps(label) == server' = label

MainIdle == UNCHANGED <<offsets, gauges, consumer, hand, attempt, refresh, stop, ending,
                        listening, mishaps, least>>

CheckEnd ==
  /\ server = "check"
  /\ ServerSteps(IF ending THEN "ended" ELSE "wait")
  /\ UNCHANGED <<backlog, client, serving>>
  /\ MainIdle

(* poll times out, or accept fails on a socket that was shut down.         *)
WaitInVain ==
  /\ server = "wait"
  /\ backlog = <<>> \/ listening = "shut"
  /\ ServerSteps("check")
  /\ UNCHANGED <<backlog, client, serving>>
  /\ MainIdle

Accept ==
  /\ server = "wait"
  /\ backlog # <<>> /\ listening = "open"
  /\ serving' = Head(backlog)
  /\ backlog' = Tail(backlog)
  /\ ServerSteps("receive")
  /\ UNCHANGED client
  /\ MainIdle

Receive ==
  /\ server = "receive"
  /\ client[serving] = "asking"
  /\ ServerSteps("answer")
  /\ UNCHANGED <<backlog, client, serving>>
  /\ MainIdle

LetGo ==
  /\ client' = [client EXCEPT ![serving] = "closed"]
  /\ serving' = Absent
  /\ ServerSteps("check")
  /\ UNCHANGED backlog
  /\ MainIdle

(* Slip: SO_RCVTIMEO is not set.                                           *)
ReceiveWaits ==
  /\ server = "receive"
  /\ client[serving] \notin {"silent", "asking"}
  /\ LetGo

(* SO_RCVTIMEO: nothing came for a second.                                 *)
ReceiveTimesOut ==
  /\ server = "receive"
  /\ client[serving] = "silent"
  /\ LetGo

(* The answer is made from the metrics and sent, or the client is too slow *)
(* for SO_SNDTIMEO; the connection is closed.                              *)
Answer ==
  /\ server = "answer"
  /\ LetGo

-----------------------------------------------------------------------------
Environment ==
  \/ \E p \in Partitions : ProduceMessage(p) \/ OtherCommits(p) \/ LearnWatermark(p)
  \/ Rebalance \/ Signal
  \/ \E k \in Clients : Connect(k) \/ SendRequest(k)

Main ==
  \/ Subscribe \/ SubscribeFails
  \/ CheckStop \/ PollFails \/ (\E due \in BOOLEAN : PollTimesOut(due))
  \/ (\E p \in Partitions : PollMessage(p))
  \/ Observe \/ Refine \/ Handle \/ HandleFails \/ Commit \/ CommitFails \/ SettleLag
  \/ AskCommitted \/ AskCommittedFails
  \/ (\E p \in Partitions : AskWatermark(p) \/ AskWatermarkFails(p))
  \/ ReplaceLag
  \/ Close \/ RequestEnd \/ ShutListener \/ JoinServer

Server == CheckEnd \/ WaitInVain \/ Accept \/ Receive \/ ReceiveTimesOut \/ Answer

WatchNext == Environment \/ Main \/ Server

WatchSpec == WatchInit /\ [][WatchNext]_watchVars

(* The two threads run.  A refresh comes due again and again, so a loop    *)
(* that is idle for long refreshes; nothing is assumed of the clients and  *)
(* of Kafka.                                                               *)
FairWatchSpec ==
  /\ WatchSpec
  /\ WF_watchVars(Main) /\ WF_watchVars(Server)
  /\ SF_watchVars(PollTimesOut(TRUE))

-----------------------------------------------------------------------------
Handling == {"observe", "refine", "handle", "commit", "settle"}
Refreshing == {"committed", "watermarks"}

WatchTypeOK ==
  /\ log \in [Partitions -> Nat] /\ committed \in [Partitions -> Nat]
  /\ assigned \subseteq Partitions
  /\ position \in [Partitions -> Nat]
  /\ cached \in [Partitions -> Nat \cup {Absent}]
  /\ lag \in [Partitions -> Nat \cup {Absent}]
  /\ healthy \in BOOLEAN
  /\ consumer \in {"start", "loop", "poll", "close", "teardown", "join", "ended"}
            \cup Handling \cup Refreshing
  /\ hand \in [partition : Partitions, offset : Nat] \cup {Absent}
  /\ attempt \in 0..OffsetCommitMaxAttempts
  /\ asked \subseteq Partitions
  /\ base \in [Partitions -> Nat]
  /\ fresh \in [Partitions -> Nat \cup {Absent}]
  /\ stop \in BOOLEAN /\ ending \in BOOLEAN
  /\ server \in {"check", "wait", "receive", "answer", "ended"}
  /\ listening \in {"open", "shut", "closed"}
  /\ backlog \in Seq(Clients)
  /\ client \in [Clients -> {"away", "silent", "asking", "closed"}]
  /\ serving \in Clients \cup {Absent}
  /\ rebalances \in Nat /\ mishaps \in Nat
  /\ least \in [Partitions -> Int]

(* From the time it is handled until it is committed a message shows in    *)
(* the gauge of its partition, whatever librdkafka knows about the         *)
(* partition and whoever owns it by then: an operator sees the backlog of  *)
(* a consumer that cannot get on.  (docs/BUGS.md, BUG-006.)                *)
LagCoversHand ==
  consumer \in {"refine", "handle", "commit"} =>
    lag[hand.partition] # Absent /\ lag[hand.partition] >= 1

(* The committed offsets and the watermarks a refresh puts together are of *)
(* different moments, while messages come in and other consumers commit;   *)
(* yet no gauge it gathers is smaller than the lag has been at some moment *)
(* of the refresh.                                                         *)
RefreshNeverUnderstates ==
  consumer = "watermarks" =>
    \A p \in Partitions : fresh[p] # Absent => least[p] <= fresh[p]

(* When all messages of a partition of this consumer are committed for     *)
(* good, the gauge of the partition goes back to zero and stays there.     *)
(* (docs/ACCESS_STATISTICS_DESIGN.md: the lag falls back once consuming    *)
(* goes on.)                                                               *)
LagFallsBack ==
  \A p \in Partitions :
    <>[](Consuming /\ p \in assigned /\ TrueLag(p) = 0) => <>[](lag[p] \in {Absent, 0})

(* A signal ends the process, with a client that says nothing on the line, *)
(* a message in hand or a refresh under way.                               *)
ConsumerEnds == stop ~> (consumer = "ended")

-----------------------------------------------------------------------------
(* The inductive strengthening: the smallest lag of a refresh is remembered *)
(* as it is, and lies below the end of a partition less the committed      *)
(* offset the refresh was told.                                            *)
RefreshInv ==
  /\ consumer # "watermarks" => \A p \in Partitions : fresh[p] = Absent
  /\ consumer \in Refreshing => \A p \in Partitions : least[p] <= TrueLag(p)
  /\ consumer = "watermarks" => \A p \in Partitions : least[p] <= log[p] - base[p]

WatchInv ==
  /\ WatchTypeOK
  /\ consumer \in Handling => hand # Absent
  /\ LagCoversHand
  /\ RefreshInv
  /\ RefreshNeverUnderstates
=============================================================================
