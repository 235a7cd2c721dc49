--------------------------- MODULE EventPublisher ---------------------------
(***************************************************************************)
(* KafkaAccessEventPublisher: the I/O threads hand access events to the    *)
(* local queue of librdkafka, a poll thread serves the delivery reports,   *)
(* and the destructor flushes what is left when the process shuts down.    *)
(*                                                                         *)
(* Events are counted, not told apart.  A message occupies the queue from  *)
(* rd_kafka_producev until the callback for its report has run, and        *)
(* rd_kafka_outq_len and the limit of the queue count it as long.          *)
(***************************************************************************)
EXTENDS Naturals, FiniteSets

CONSTANTS
  Threads,    \* I/O threads of the server
  None,       \* no measurement
  Capacity,   \* kafka.queue_max_messages
  MaxVisits,  \* bound: redirects in a behaviour
  MaxFaults   \* bound: failures in a behaviour that are nobody's decision

ASSUME PublisherAssumption ==
  /\ IsFiniteSet(Threads)
  /\ Threads \cap {"poller", "main"} = {}
  /\ None \notin Nat
  /\ Capacity \in Nat \ {0}
  /\ MaxVisits \in Nat
  /\ MaxFaults \in Nat

VARIABLES
  pc,         \* what each I/O thread does
  poller,     \* the poll thread
  main,       \* the main thread, from the signal to the end
  queue,      \* messages whose delivery is open
  reports,    \* delivery reports to be served
  enqueued,   \* metric: enqueue results
  delivered,  \* metric: delivery results
  seen,       \* recordQueueSize: the length an actor has read
  gauge,      \* metric: queue size
  abandoned,  \* reports that were never served
  visits,     \* redirects so far
  faults      \* failures that may still happen

kafka == <<queue, reports, abandoned>>
metrics == <<enqueued, delivered>>
bounds == <<visits, faults>>
vars == <<pc, poller, main, kafka, metrics, seen, gauge, bounds>>

Outcomes == {"accepted", "queue_full", "error"}
Fates == {"success", "failure"}
Actors == Threads \cup {"poller", "main"}

Reports == reports["success"] + reports["failure"]
QueueLen == queue + Reports          \* rd_kafka_outq_len

Init ==
  /\ pc = [t \in Threads |-> "idle"]
  /\ poller = "poll" /\ main = "serving"
  /\ queue = 0 /\ reports = [f \in Fates |-> 0] /\ abandoned = 0
  /\ enqueued = [o \in Outcomes |-> 0]
  /\ delivered = [f \in Fates |-> 0]
  /\ seen = [a \in Actors |-> None] /\ gauge = 0
  /\ visits = 0 /\ faults = MaxFaults

(* recordQueueSize reads the length first and stores it later.             *)
Measure(a) == seen' = [seen EXCEPT ![a] = QueueLen]

Store(a) ==
  /\ seen[a] # None
  /\ gauge' = seen[a]
  /\ seen' = [seen EXCEPT ![a] = None]
  /\ UNCHANGED <<pc, poller, main, kafka, metrics, bounds>>

-----------------------------------------------------------------------------
(***************************************************************************)
(* The redirect: publish, then respond.  A thread whose pc is an outcome   *)
(* has got it from rd_kafka_producev and is about to count it.             *)
(***************************************************************************)
Step(t, from, to) == pc[t] = from /\ pc' = [pc EXCEPT ![t] = to]

Fault == faults > 0 /\ faults' = faults - 1 /\ UNCHANGED visits

Visit(t) ==
  /\ seen[t] = None /\ main \in {"serving", "joining"}
  /\ visits < MaxVisits
  /\ visits' = visits + 1
  /\ Step(t, "idle", "produce")
  /\ UNCHANGED <<poller, main, kafka, metrics, seen, gauge, faults>>

Enqueue(t) ==
  /\ Step(t, "produce", "accepted")
  /\ queue' = queue + 1
  /\ UNCHANGED <<poller, main, reports, abandoned, metrics, seen, gauge, bounds>>

(* Slip: a full queue makes the request wait (RD_KAFKA_MSG_F_BLOCK).       *)
ProduceBlocks(t) == QueueLen < Capacity /\ Enqueue(t)

(* The message is queued, or dropped when the queue is full.               *)
Produce(t) ==
  \/ QueueLen < Capacity /\ Enqueue(t)
  \/ /\ QueueLen >= Capacity
     /\ Step(t, "produce", "queue_full")
     /\ UNCHANGED <<poller, main, kafka, metrics, seen, gauge, bounds>>

ProduceFails(t) ==
  /\ Step(t, "produce", "error")
  /\ Fault
  /\ UNCHANGED <<poller, main, kafka, metrics, seen, gauge>>

(* An exception out of serializeAccessEvent.                               *)
SerializeThrows(t) ==
  /\ Step(t, "produce", "idle")
  /\ Fault
  /\ enqueued' = [enqueued EXCEPT !["error"] = @ + 1]
  /\ UNCHANGED <<poller, main, kafka, delivered, seen, gauge>>

(* Slip: the event is counted as accepted whatever producev has returned.  *)
CountAccepted(t) ==
  /\ \E o \in Outcomes : Step(t, o, "measure")
  /\ enqueued' = [enqueued EXCEPT !["accepted"] = @ + 1]
  /\ UNCHANGED <<poller, main, kafka, delivered, seen, gauge, bounds>>

Count(t) ==
  /\ \E o \in Outcomes : Step(t, o, "measure")
  /\ enqueued' = [enqueued EXCEPT ![pc[t]] = @ + 1]
  /\ UNCHANGED <<poller, main, kafka, delivered, seen, gauge, bounds>>

MeasureQueue(t) ==
  /\ Step(t, "measure", "idle")
  /\ Measure(t)
  /\ UNCHANGED <<poller, main, kafka, metrics, gauge, bounds>>

-----------------------------------------------------------------------------
(***************************************************************************)
(* librdkafka: the broker has the message, or message.timeout.ms is over.  *)
(***************************************************************************)
Settle(fate) ==
  /\ queue > 0
  /\ queue' = queue - 1
  /\ reports' = [reports EXCEPT ![fate] = @ + 1]
  /\ UNCHANGED <<pc, poller, main, abandoned, metrics, seen, gauge, bounds>>

(* Who is inside rd_kafka_poll or rd_kafka_flush runs the callbacks.       *)
ServesReports(a) ==
  \/ a = "poller" /\ poller \in {"poll", "last_poll"}
  \/ a = "main" /\ main \in {"flush", "flush_again"}

(* deliveryCallback: the message leaves the queue when it returns.         *)
DeliveryCallback(a, fate) ==
  /\ ServesReports(a) /\ seen[a] = None
  /\ reports[fate] > 0
  /\ reports' = [reports EXCEPT ![fate] = @ - 1]
  /\ delivered' = [delivered EXCEPT ![fate] = @ + 1]
  /\ Measure(a)
  /\ UNCHANGED <<pc, poller, main, queue, abandoned, enqueued, gauge, bounds>>

-----------------------------------------------------------------------------
(***************************************************************************)
(* pollLoop.                                                               *)
(***************************************************************************)
PollerStep(from, to) ==
  /\ poller = from /\ seen["poller"] = None
  /\ poller' = to
  /\ UNCHANGED <<pc, main, kafka, metrics, gauge, bounds>>

(* Slip: the loop leaves the queue size to the others.                     *)
PollReturnsUnmeasured == PollerStep("poll", "check") /\ UNCHANGED seen

PollReturns == PollerStep("poll", "check") /\ Measure("poller")

(* The loop reads stopping_; after it, one more poll without a wait.       *)
CheckStopping ==
  /\ PollerStep("check", IF main \in {"serving", "joining"} THEN "poll" ELSE "last_poll")
  /\ UNCHANGED seen

LastPollReturns == PollerStep("last_poll", "done") /\ UNCHANGED seen

-----------------------------------------------------------------------------
(***************************************************************************)
(* Shutdown.  Locals of main are destroyed in reverse order: the server    *)
(* with its I/O threads, then the publisher.                               *)
(***************************************************************************)
MainStep(from, to) ==
  /\ main = from /\ seen["main"] = None
  /\ main' = to
  /\ UNCHANGED <<pc, poller, metrics, gauge, visits>>

Quit == MainStep("serving", "joining") /\ UNCHANGED <<kafka, seen, faults>>

(* Slip: the publisher is destroyed before the server.                     *)
JoinThreadsLate == MainStep("joining", "stopping") /\ UNCHANGED <<kafka, seen, faults>>

(* The server is destroyed: every I/O thread ends its loop and is joined.  *)
JoinThreads ==
  /\ \A t \in Threads : pc[t] = "idle" /\ seen[t] = None
  /\ MainStep("joining", "stopping")
  /\ UNCHANGED <<kafka, seen, faults>>

(* ~KafkaAccessEventPublisher has set stopping_, and joins the poll thread. *)
JoinPoller ==
  /\ poller = "done"
  /\ MainStep("stopping", "flush")
  /\ UNCHANGED <<kafka, seen, faults>>

(* Either flush ends when nothing is left.                                 *)
Flushed ==
  /\ QueueLen = 0
  /\ MainStep("flush", "measure") \/ MainStep("flush_again", "measure")
  /\ UNCHANGED <<kafka, seen, faults>>

(* Slip: the flush has no timeout.                                         *)
FlushWaits ==
  QueueLen = 0 /\ MainStep("flush", "flush_again") /\ UNCHANGED <<kafka, seen, faults>>

(* shutdownTimeoutMs is over: rd_kafka_purge fails every open delivery.    *)
FlushTimesOut ==
  /\ QueueLen > 0
  /\ MainStep("flush", "flush_again")
  /\ queue' = 0
  /\ reports' = [reports EXCEPT !["failure"] = @ + queue]
  /\ UNCHANGED <<abandoned, seen, faults>>

(* The callbacks take longer than a second.                                *)
SecondFlushTimesOut ==
  /\ Reports > 0
  /\ MainStep("flush_again", "measure")
  /\ Fault
  /\ UNCHANGED <<kafka, seen>>

MeasureAtEnd ==
  MainStep("measure", "destroy") /\ Measure("main") /\ UNCHANGED <<kafka, faults>>

(* rd_kafka_destroy drops what nobody has served.                          *)
Destroy ==
  /\ MainStep("destroy", "closed")
  /\ abandoned' = Reports
  /\ reports' = [f \in Fates |-> 0]
  /\ UNCHANGED <<queue, seen, faults>>

-----------------------------------------------------------------------------
(* What each of the three kinds of thread does by itself.                  *)
Publish(t) == Produce(t) \/ Count(t) \/ MeasureQueue(t) \/ Store(t)

Poll == \/ PollReturns \/ CheckStopping \/ LastPollReturns \/ Store("poller")
        \/ \E fate \in Fates : DeliveryCallback("poller", fate)

Shutdown == \/ JoinThreads \/ JoinPoller \/ Flushed \/ FlushTimesOut
            \/ MeasureAtEnd \/ Destroy \/ Store("main")
            \/ \E fate \in Fates : DeliveryCallback("main", fate)

Next ==
  \/ \E t \in Threads :
       Visit(t) \/ Publish(t) \/ ProduceFails(t) \/ SerializeThrows(t)
  \/ \E fate \in Fates : Settle(fate)
  \/ Poll
  \/ Quit \/ Shutdown \/ SecondFlushTimesOut

Spec == Init /\ [][Next]_vars

(* The threads run.                                                        *)
ThreadFairness ==
  /\ \A t \in Threads : WF_vars(Publish(t))
  /\ WF_vars(Poll) /\ WF_vars(Shutdown)

(* Nothing is assumed of Kafka, of new redirects or of a signal.           *)
FairSpec == Spec /\ ThreadFairness

-----------------------------------------------------------------------------
TypeOK ==
  /\ pc \in [Threads -> {"idle", "produce", "measure"} \cup Outcomes]
  /\ poller \in {"poll", "check", "last_poll", "done"}
  /\ main \in {"serving", "joining", "stopping", "flush", "flush_again",
               "measure", "destroy", "closed"}
  /\ queue \in Nat
  /\ reports \in [Fates -> Nat]
  /\ enqueued \in [Outcomes -> Nat]
  /\ delivered \in [Fates -> Nat]
  /\ seen \in [Actors -> Nat \cup {None}]
  /\ gauge \in Nat
  /\ abandoned \in Nat
  /\ visits \in 0..MaxVisits
  /\ faults \in 0..MaxFaults

(* Threads that have put a message into the queue and not counted it yet.  *)
Uncounted == {t \in Threads : pc[t] = "accepted"}

(***************************************************************************)
(* The metrics add up: every accepted event is in the queue, reported, or  *)
(* given up by the destructor, once.  A report may be counted before the   *)
(* thread that published the event has counted that.                       *)
(***************************************************************************)
EveryEventAccounted ==
  enqueued["accepted"] + Cardinality(Uncounted)
    = QueueLen + delivered["success"] + delivered["failure"] + abandoned

(***************************************************************************)
(* The end leaves no event open: what was accepted has been reported, but  *)
(* for reports the last second was not enough to serve.                    *)
(***************************************************************************)
NothingLeftOpen ==
  main = "closed" =>
    /\ enqueued["accepted"] = delivered["success"] + delivered["failure"] + abandoned
    /\ faults = MaxFaults => abandoned = 0

(* The memory of the producer is bounded (kafka.queue_max_messages).       *)
QueueBounded == QueueLen <= Capacity

(***************************************************************************)
(* The producer outlives its users: no I/O thread is inside publish and    *)
(* the poll thread has ended when the destructor uses it up.               *)
(***************************************************************************)
ProducerOutlivesItsUsers ==
  main \in {"flush", "flush_again", "measure", "destroy", "closed"} =>
    /\ poller = "done" /\ seen["poller"] = None
    /\ \A t \in Threads : pc[t] = "idle" /\ seen[t] = None

(***************************************************************************)
(* A redirect never waits for Kafka (docs/ACCESS_EVENT_DESIGN.md:102):     *)
(* publish returns although no message is ever settled.                    *)
(***************************************************************************)
RedirectsAnswered == \A t \in Threads : (pc[t] # "idle") ~> (pc[t] = "idle")

(* Shutdown ends, with Kafka or without.                                   *)
ShutdownEnds == (main = "joining") ~> (main = "closed")

(***************************************************************************)
(* The queue gauge catches up with the queue: a stale length stored late   *)
(* by one thread is overwritten, as long as the poll thread runs.          *)
(***************************************************************************)
GaugeCatchesUp == <>[](main # "serving" \/ gauge = QueueLen)

-----------------------------------------------------------------------------
(* The inductive strengthening.                                            *)
EndInv ==
  /\ main \in {"measure", "destroy", "closed"} => queue = 0
  /\ main \in {"measure", "destroy"} /\ faults = MaxFaults => Reports = 0
  /\ main = "closed" => Reports = 0
  /\ main = "flush_again" => queue = 0
  /\ main # "closed" => abandoned = 0
  /\ main = "closed" /\ faults = MaxFaults => abandoned = 0
  /\ main = "stopping" => \A t \in Threads : pc[t] = "idle" /\ seen[t] = None
  /\ poller = "done" => seen["poller"] = None
  /\ poller \in {"last_poll", "done"} => main \notin {"serving", "joining"}

Inv ==
  /\ TypeOK
  /\ EveryEventAccounted
  /\ QueueBounded
  /\ ProducerOutlivesItsUsers
  /\ EndInv
=============================================================================
