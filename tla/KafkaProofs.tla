---------------------------- MODULE KafkaProofs ----------------------------
(***************************************************************************)
(* Proofs about the two ends of Kafka.  The producer: the event publisher  *)
(* of the server, for any number of threads, any size of the queue and any *)
(* number of redirects and failures.  The consumer: what a consumer        *)
(* process tells about itself, for any number of partitions, clients,      *)
(* messages, rebalances and failures.                                      *)
(***************************************************************************)
EXTENDS EventPublisher, ConsumerObservability, FiniteSetTheorems, TLAPS

-----------------------------------------------------------------------------
(* The producer.                                                           *)
Stages == {"idle", "produce", "measure"} \cup Outcomes

LEMMA StepFacts ==
  ASSUME TypeOK, NEW t \in Threads, NEW from, NEW to \in Stages, Step(t, from, to)
  PROVE  /\ pc[t] = from /\ pc'[t] = to
         /\ pc' \in [Threads -> Stages]
         /\ \A u \in Threads : u # t => pc'[u] = pc[u]
         /\ from # "accepted" /\ to # "accepted" => Uncounted' = Uncounted
BY DEF TypeOK, Step, Stages, Uncounted

LEMMA UncountedFinite ==
  /\ IsFiniteSet(Uncounted) /\ Cardinality(Uncounted) \in Nat
<1>1. Uncounted \in SUBSET Threads
  BY DEF Uncounted
<1> QED
  BY <1>1, PublisherAssumption, FS_Subset, FS_CardinalityType

(* Measurements are lengths.                                               *)
LEMMA MeasureFacts ==
  ASSUME TypeOK, NEW a \in Actors, Measure(a)
  PROVE  /\ seen' \in [Actors -> Nat \cup {None}]
         /\ \A b \in Actors : b # a => seen'[b] = seen[b]
<1>1. QueueLen \in Nat
  BY DEF TypeOK, QueueLen, Reports, Fates
<1> QED
  BY <1>1 DEF TypeOK, Measure

LEMMA ActorFacts ==
  /\ "poller" \in Actors /\ "main" \in Actors /\ Threads \subseteq Actors
  /\ \A t \in Threads : t # "poller" /\ t # "main"
BY PublisherAssumption DEF Actors

-----------------------------------------------------------------------------
LEMMA StoreInv ==
  ASSUME Inv, NEW a \in Actors, Store(a)
  PROVE  Inv'
<1>1. /\ UNCHANGED <<pc, poller, main, queue, reports, abandoned, enqueued,
                     delivered, visits, faults>>
      /\ gauge' \in Nat /\ seen' \in [Actors -> Nat \cup {None}]
      /\ \A b \in Actors : seen[b] = None => seen'[b] = None
  BY DEF Store, Inv, TypeOK, kafka, metrics, bounds
<1>2. TypeOK'
  BY <1>1 DEF Inv, TypeOK
<1>3. EveryEventAccounted' /\ QueueBounded'
  BY <1>1 DEF Inv, EveryEventAccounted, QueueBounded, Uncounted, QueueLen, Reports
<1>4. ProducerOutlivesItsUsers' /\ EndInv'
  BY <1>1, ActorFacts DEF Inv, ProducerOutlivesItsUsers, EndInv, Reports
<1> QED
  BY <1>2, <1>3, <1>4 DEF Inv

(* The steps of an I/O thread that leave librdkafka alone.                 *)
LEMMA ThreadInv ==
  ASSUME Inv, NEW t \in Threads, NEW from, NEW to \in Stages, Step(t, from, to),
         from # "accepted", to # "accepted",
         UNCHANGED <<poller, main, queue, reports, abandoned, delivered, gauge>>,
         enqueued' \in [Outcomes -> Nat], enqueued'["accepted"] = enqueued["accepted"],
         seen' = seen \/ Measure(t),
         visits' \in 0..MaxVisits, faults' \in 0..MaxFaults,
         faults' = MaxFaults => faults = MaxFaults,
         main \in {"serving", "joining"} \/ pc[t] # "idle"
  PROVE  Inv'
<1>1. main \in {"serving", "joining"}
  BY DEF Inv, TypeOK, ProducerOutlivesItsUsers, EndInv
<1>2. /\ pc' \in [Threads -> Stages] /\ Uncounted' = Uncounted
      /\ seen' \in [Actors -> Nat \cup {None}] /\ seen'["poller"] = seen["poller"]
  BY StepFacts, MeasureFacts, ActorFacts DEF Inv, TypeOK
<1>3. TypeOK'
  BY <1>2 DEF Inv, TypeOK, Stages
<1>4. EveryEventAccounted' /\ QueueBounded'
  BY <1>2 DEF Inv, EveryEventAccounted, QueueBounded, QueueLen, Reports
<1>5. ProducerOutlivesItsUsers' /\ EndInv'
  BY <1>1, <1>2 DEF Inv, ProducerOutlivesItsUsers, EndInv
<1> QED
  BY <1>3, <1>4, <1>5 DEF Inv

LEMMA VisitInv ==
  ASSUME Inv, NEW t \in Threads, Visit(t)
  PROVE  Inv'
<1>1. visits' \in 0..MaxVisits
  BY PublisherAssumption DEF Visit, Inv, TypeOK
<1>2. "produce" \in Stages
  BY DEF Stages
<1> QED
  BY <1>1, <1>2, ThreadInv DEF Visit, kafka, metrics, Inv, TypeOK

(* Putting a message into the queue.                                       *)
LEMMA EnqueueInv ==
  ASSUME Inv, NEW t \in Threads, Enqueue(t), QueueLen < Capacity
  PROVE  Inv'
<1>1. /\ UNCHANGED <<poller, main, reports, abandoned, enqueued, delivered, seen,
                     gauge, visits, faults>>
      /\ queue' = queue + 1 /\ Step(t, "produce", "accepted")
  BY DEF Enqueue, metrics, bounds
<1>2. /\ pc[t] = "produce" /\ pc'[t] = "accepted" /\ pc' \in [Threads -> Stages]
      /\ \A u \in Threads : u # t => pc'[u] = pc[u]
  BY <1>1, StepFacts DEF Inv, Stages, Outcomes
<1>3. main \in {"serving", "joining"}
  BY <1>2 DEF Inv, TypeOK, ProducerOutlivesItsUsers, EndInv
<1>4. TypeOK'
  BY <1>1, <1>2 DEF Inv, TypeOK, Stages
<1>5. QueueLen' = QueueLen + 1 /\ QueueLen \in Nat
  BY <1>1 DEF Inv, TypeOK, QueueLen, Reports, Fates
<1>6. EveryEventAccounted'
  <2>1. Uncounted' = Uncounted \cup {t} /\ t \notin Uncounted
    BY <1>2 DEF Uncounted
  <2>2. Cardinality(Uncounted') = Cardinality(Uncounted) + 1
    BY <2>1, UncountedFinite, FS_AddElement
  <2> HIDE DEF Uncounted, QueueLen
  <2>3. /\ enqueued["accepted"] \in Nat /\ abandoned \in Nat
        /\ delivered["success"] \in Nat /\ delivered["failure"] \in Nat
    BY DEF Inv, TypeOK, Outcomes, Fates
  <2> QED
    BY <1>1, <1>5, <2>2, <2>3, UncountedFinite DEF Inv, EveryEventAccounted
<1>7. QueueBounded'
  BY <1>5, PublisherAssumption DEF QueueBounded
<1>8. ProducerOutlivesItsUsers' /\ EndInv'
  BY <1>1, <1>3 DEF Inv, ProducerOutlivesItsUsers, EndInv
<1> QED
  BY <1>4, <1>6, <1>7, <1>8 DEF Inv

LEMMA ProduceInv ==
  ASSUME Inv, NEW t \in Threads, Produce(t)
  PROVE  Inv'
<1>1. CASE QueueLen < Capacity /\ Enqueue(t)
  BY <1>1, EnqueueInv
<1>2. CASE /\ Step(t, "produce", "queue_full")
           /\ UNCHANGED <<poller, main, kafka, metrics, seen, gauge, bounds>>
  <2>1. "queue_full" \in Stages /\ pc[t] = "produce"
    BY <1>2 DEF Stages, Outcomes, Step
  <2> QED
    BY <1>2, <2>1, ThreadInv DEF kafka, metrics, bounds, Inv, TypeOK
<1> QED
  BY <1>1, <1>2 DEF Produce

LEMMA FaultFacts ==
  ASSUME TypeOK, Fault
  PROVE  /\ faults' \in 0..MaxFaults /\ faults' # MaxFaults
         /\ visits' \in 0..MaxVisits
BY PublisherAssumption DEF Fault, TypeOK

LEMMA ProduceFailsInv ==
  ASSUME Inv, NEW t \in Threads, ProduceFails(t)
  PROVE  Inv'
<1>1. "error" \in Stages /\ pc[t] = "produce"
  BY DEF Stages, Outcomes, ProduceFails, Step
<1> QED
  BY <1>1, FaultFacts, ThreadInv DEF ProduceFails, kafka, metrics, Inv, TypeOK

LEMMA SerializeThrowsInv ==
  ASSUME Inv, NEW t \in Threads, SerializeThrows(t)
  PROVE  Inv'
<1>1. "idle" \in Stages /\ pc[t] = "produce"
  BY DEF Stages, SerializeThrows, Step
<1>2. enqueued' \in [Outcomes -> Nat] /\ enqueued'["accepted"] = enqueued["accepted"]
  BY DEF SerializeThrows, Inv, TypeOK, Outcomes
<1> QED
  BY <1>1, <1>2, FaultFacts, ThreadInv DEF SerializeThrows, kafka, Inv

(* Counting takes the thread out of Uncounted when it adds to the metric.  *)
LEMMA CountInv ==
  ASSUME Inv, NEW t \in Threads, Count(t)
  PROVE  Inv'
<1>1. PICK o \in Outcomes : Step(t, o, "measure")
  BY DEF Count
<1>2. /\ UNCHANGED <<poller, main, queue, reports, abandoned, delivered, seen,
                     gauge, visits, faults>>
      /\ enqueued' = [enqueued EXCEPT ![o] = @ + 1]
  BY <1>1 DEF Count, Step, kafka, bounds
<1>3. /\ pc[t] = o /\ pc'[t] = "measure" /\ pc' \in [Threads -> Stages]
      /\ \A u \in Threads : u # t => pc'[u] = pc[u]
      /\ "measure" \in Stages
  BY <1>1, StepFacts DEF Inv, Stages
<1>4. CASE o # "accepted"
  <2>1. enqueued' \in [Outcomes -> Nat] /\ enqueued'["accepted"] = enqueued["accepted"]
    BY <1>2, <1>4 DEF Inv, TypeOK, Outcomes
  <2> QED
    BY <1>1, <1>2, <1>3, <1>4, <2>1, ThreadInv DEF Inv, TypeOK, Outcomes
<1>5. CASE o = "accepted"
  <2>1. main \in {"serving", "joining"}
    BY <1>3, <1>5 DEF Inv, TypeOK, ProducerOutlivesItsUsers, EndInv
  <2>2. /\ enqueued' \in [Outcomes -> Nat]
        /\ enqueued'["accepted"] = enqueued["accepted"] + 1
        /\ enqueued["accepted"] \in Nat
    BY <1>2, <1>5 DEF Inv, TypeOK, Outcomes
  <2>3. TypeOK'
    BY <1>2, <1>3, <2>2 DEF Inv, TypeOK, Stages
  <2>4. EveryEventAccounted'
    <3>1. Uncounted' = Uncounted \ {t} /\ t \in Uncounted
      BY <1>3, <1>5 DEF Uncounted
    <3>2. Cardinality(Uncounted') = Cardinality(Uncounted) - 1
      BY <3>1, UncountedFinite, FS_RemoveElement
    <3>3. QueueLen' = QueueLen
      BY <1>2 DEF QueueLen, Reports
    <3> HIDE DEF Uncounted, QueueLen
    <3> QED
      BY <1>2, <2>2, <3>2, <3>3, UncountedFinite DEF Inv, EveryEventAccounted
  <2>5. QueueBounded'
    BY <1>2 DEF Inv, QueueBounded, QueueLen, Reports
  <2>6. ProducerOutlivesItsUsers' /\ EndInv'
    BY <1>2, <2>1 DEF Inv, ProducerOutlivesItsUsers, EndInv
  <2> QED
    BY <2>3, <2>4, <2>5, <2>6 DEF Inv
<1> QED
  BY <1>4, <1>5

LEMMA MeasureQueueInv ==
  ASSUME Inv, NEW t \in Threads, MeasureQueue(t)
  PROVE  Inv'
<1>1. "idle" \in Stages /\ pc[t] = "measure"
  BY DEF Stages, MeasureQueue, Step
<1> QED
  BY <1>1, ThreadInv DEF MeasureQueue, kafka, metrics, bounds, Inv, TypeOK

-----------------------------------------------------------------------------
LEMMA SettleInv ==
  ASSUME Inv, NEW fate \in Fates, Settle(fate)
  PROVE  Inv'
<1>1. /\ UNCHANGED <<pc, poller, main, abandoned, enqueued, delivered, seen,
                     gauge, visits, faults>>
      /\ queue > 0 /\ queue' = queue - 1
      /\ reports' = [reports EXCEPT ![fate] = @ + 1]
  BY DEF Settle, metrics, bounds
<1>2. TypeOK'
  BY <1>1 DEF Inv, TypeOK
<1>3. QueueLen' = QueueLen
  BY <1>1 DEF Inv, TypeOK, QueueLen, Reports, Fates
<1>4. EveryEventAccounted' /\ QueueBounded'
  BY <1>1, <1>3 DEF Inv, EveryEventAccounted, QueueBounded, Uncounted
<1>5. main \notin {"measure", "destroy", "closed", "flush_again"}
  BY <1>1 DEF Inv, EndInv
<1>6. ProducerOutlivesItsUsers' /\ EndInv'
  BY <1>1, <1>5 DEF Inv, ProducerOutlivesItsUsers, EndInv
<1> QED
  BY <1>2, <1>4, <1>6 DEF Inv

LEMMA DeliveryCallbackInv ==
  ASSUME Inv, NEW a \in {"poller", "main"}, NEW fate \in Fates,
         DeliveryCallback(a, fate)
  PROVE  Inv'
<1>1. /\ UNCHANGED <<pc, poller, main, queue, abandoned, enqueued, gauge,
                     visits, faults>>
      /\ reports[fate] > 0 /\ reports' = [reports EXCEPT ![fate] = @ - 1]
      /\ delivered' = [delivered EXCEPT ![fate] = @ + 1]
      /\ ServesReports(a) /\ Measure(a)
  BY DEF DeliveryCallback, bounds
<1>2. /\ seen' \in [Actors -> Nat \cup {None}]
      /\ \A b \in Actors : b # a => seen'[b] = seen[b]
  BY <1>1, MeasureFacts, ActorFacts DEF Inv
<1>3. TypeOK'
  BY <1>1, <1>2 DEF Inv, TypeOK
<1>4. /\ Reports' = Reports - 1 /\ Reports \in Nat
      /\ delivered'["success"] + delivered'["failure"]
           = delivered["success"] + delivered["failure"] + 1
      /\ delivered["success"] \in Nat /\ delivered["failure"] \in Nat
      /\ delivered'["success"] \in Nat /\ delivered'["failure"] \in Nat
  BY <1>1 DEF Inv, TypeOK, Reports, Fates
<1>5. EveryEventAccounted'
  <2>1. Uncounted' = Uncounted /\ queue' = queue /\ queue \in Nat
        /\ abandoned \in Nat /\ enqueued["accepted"] \in Nat
    BY <1>1 DEF Uncounted, Inv, TypeOK, Outcomes
  <2> HIDE DEF Uncounted, Reports
  <2> QED
    BY <1>1, <1>4, <2>1, UncountedFinite DEF Inv, EveryEventAccounted, QueueLen
<1>6. QueueBounded'
  BY <1>1, <1>4, PublisherAssumption DEF Inv, TypeOK, QueueBounded, QueueLen
<1>7. ProducerOutlivesItsUsers' /\ EndInv'
  <2>1. a = "poller" => poller \in {"poll", "last_poll"}
    BY <1>1 DEF ServesReports
  <2>2. a = "main" => main \in {"flush", "flush_again"}
    BY <1>1 DEF ServesReports
  <2>3. CASE a = "poller"
    <3>1. main \notin {"flush", "flush_again", "measure", "destroy", "closed"}
      BY <2>1, <2>3 DEF Inv, ProducerOutlivesItsUsers
    <3> QED
      BY <1>1, <1>2, <2>1, <2>3, <3>1, ActorFacts
         DEF Inv, ProducerOutlivesItsUsers, EndInv
  <2>4. CASE a = "main"
    BY <1>1, <1>2, <2>2, <2>4, ActorFacts
       DEF Inv, ProducerOutlivesItsUsers, EndInv
  <2> QED
    BY <2>3, <2>4
<1> QED
  BY <1>3, <1>5, <1>6, <1>7 DEF Inv

LEMMA PollerInv ==
  ASSUME Inv, PollReturns \/ CheckStopping \/ LastPollReturns
  PROVE  Inv'
<1>1. /\ UNCHANGED <<pc, main, queue, reports, abandoned, enqueued, delivered,
                     gauge, visits, faults>>
      /\ seen["poller"] = None
      /\ \/ poller = "poll" /\ poller' = "check" /\ Measure("poller")
         \/ poller = "check" /\ poller' = "poll" /\ UNCHANGED seen
         \/ /\ poller = "check" /\ poller' = "last_poll" /\ UNCHANGED seen
            /\ main \notin {"serving", "joining"}
         \/ poller = "last_poll" /\ poller' = "done" /\ UNCHANGED seen
  BY DEF PollReturns, CheckStopping, LastPollReturns, PollerStep, kafka, metrics,
         bounds
<1>2. /\ seen' \in [Actors -> Nat \cup {None}]
      /\ \A b \in Actors : b # "poller" => seen'[b] = seen[b]
  BY <1>1, MeasureFacts, ActorFacts DEF Inv, TypeOK
<1>3. TypeOK'
  BY <1>1, <1>2 DEF Inv, TypeOK
<1>4. EveryEventAccounted' /\ QueueBounded'
  BY <1>1 DEF Inv, EveryEventAccounted, QueueBounded, Uncounted, QueueLen, Reports
<1>5. main \notin {"flush", "flush_again", "measure", "destroy", "closed"}
  BY <1>1 DEF Inv, ProducerOutlivesItsUsers
<1>6. ProducerOutlivesItsUsers' /\ EndInv'
  BY <1>1, <1>2, <1>5, ActorFacts DEF Inv, ProducerOutlivesItsUsers, EndInv
<1> QED
  BY <1>3, <1>4, <1>6 DEF Inv

-----------------------------------------------------------------------------
(* The steps of the main thread that leave the messages alone.             *)
LEMMA MainInv ==
  ASSUME Inv, NEW from, NEW to, MainStep(from, to), UNCHANGED kafka,
         to \in {"joining", "stopping", "flush", "measure", "destroy"},
         seen' = seen \/ Measure("main"),
         faults' \in 0..MaxFaults, faults' = MaxFaults => faults = MaxFaults,
         from # "closed",
         to = "joining" => from = "serving",
         to # "joining" => from \notin {"serving", "joining"} \/ to = "stopping",
         to = "stopping" => \A t \in Threads : pc[t] = "idle" /\ seen[t] = None,
         to = "flush" => from = "stopping" /\ poller = "done",
         to \in {"measure", "destroy"} =>
           from \in {"flush", "flush_again", "measure"} /\ queue = 0,
         to \in {"measure", "destroy"} /\ faults' = MaxFaults => Reports = 0
  PROVE  Inv'
<1>1. /\ main = from /\ main' = to /\ seen["main"] = None
      /\ UNCHANGED <<pc, poller, queue, reports, abandoned, enqueued, delivered,
                     gauge, visits>>
  BY DEF MainStep, kafka, metrics
<1>2. /\ seen' \in [Actors -> Nat \cup {None}]
      /\ \A b \in Actors : b # "main" => seen'[b] = seen[b]
  BY MeasureFacts, ActorFacts DEF Inv, TypeOK
<1>3. TypeOK'
  BY <1>1, <1>2 DEF Inv, TypeOK
<1>4. EveryEventAccounted' /\ QueueBounded' /\ Reports' = Reports
  BY <1>1 DEF Inv, EveryEventAccounted, QueueBounded, Uncounted, QueueLen, Reports
<1>5. ProducerOutlivesItsUsers'
  BY <1>1, <1>2, ActorFacts DEF Inv, ProducerOutlivesItsUsers, EndInv
<1>6. EndInv'
  BY <1>1, <1>2, <1>4, ActorFacts DEF Inv, EndInv
<1> QED
  BY <1>3, <1>4, <1>5, <1>6 DEF Inv

LEMMA ShutdownStepsInv ==
  ASSUME Inv, Quit \/ JoinThreads \/ JoinPoller \/ Flushed
              \/ SecondFlushTimesOut \/ MeasureAtEnd
  PROVE  Inv'
<1>1. faults \in 0..MaxFaults
  BY DEF Inv, TypeOK
<1>2. CASE Quit
  BY <1>1, <1>2, MainInv DEF Quit
<1>3. CASE JoinThreads
  BY <1>1, <1>3, MainInv DEF JoinThreads
<1>4. CASE JoinPoller
  BY <1>1, <1>4, MainInv DEF JoinPoller
<1>5. CASE Flushed
  <2>1. queue = 0 /\ Reports = 0
    BY <1>5 DEF Flushed, Inv, TypeOK, QueueLen, Reports, Fates
  <2>2. CASE MainStep("flush", "measure")
    BY <1>1, <1>5, <2>1, <2>2, MainInv DEF Flushed
  <2>3. CASE MainStep("flush_again", "measure")
    BY <1>1, <1>5, <2>1, <2>3, MainInv DEF Flushed
  <2> QED
    BY <1>5, <2>2, <2>3 DEF Flushed
<1>6. CASE SecondFlushTimesOut
  <2>1. queue = 0
    BY <1>6 DEF SecondFlushTimesOut, MainStep, Inv, EndInv
  <2>2. faults' \in 0..MaxFaults /\ faults' # MaxFaults
    BY <1>6, FaultFacts DEF SecondFlushTimesOut, Inv
  <2> QED
    BY <1>6, <2>1, <2>2, MainInv DEF SecondFlushTimesOut
<1>7. CASE MeasureAtEnd
  <2>1. queue = 0 /\ (faults = MaxFaults => Reports = 0)
    BY <1>7 DEF MeasureAtEnd, MainStep, Inv, EndInv
  <2> QED
    BY <1>1, <1>7, <2>1, MainInv DEF MeasureAtEnd
<1> QED
  BY <1>2, <1>3, <1>4, <1>5, <1>6, <1>7

(* The purge turns every open delivery into a report.                      *)
LEMMA FlushTimesOutInv ==
  ASSUME Inv, FlushTimesOut
  PROVE  Inv'
<1>1. /\ main = "flush" /\ main' = "flush_again" /\ queue' = 0
      /\ reports' = [reports EXCEPT !["failure"] = @ + queue]
      /\ UNCHANGED <<pc, poller, abandoned, enqueued, delivered, seen, gauge,
                     visits, faults>>
  BY DEF FlushTimesOut, MainStep, metrics
<1>2. TypeOK'
  BY <1>1 DEF Inv, TypeOK, Fates
<1>3. QueueLen' = QueueLen
  BY <1>1 DEF Inv, TypeOK, QueueLen, Reports, Fates
<1>4. EveryEventAccounted' /\ QueueBounded'
  BY <1>1, <1>3 DEF Inv, EveryEventAccounted, QueueBounded, Uncounted
<1>5. ProducerOutlivesItsUsers' /\ EndInv'
  BY <1>1 DEF Inv, ProducerOutlivesItsUsers, EndInv
<1> QED
  BY <1>2, <1>4, <1>5 DEF Inv

LEMMA DestroyInv ==
  ASSUME Inv, Destroy
  PROVE  Inv'
<1>1. /\ main = "destroy" /\ main' = "closed" /\ abandoned' = Reports
      /\ reports' = [f \in Fates |-> 0]
      /\ UNCHANGED <<pc, poller, queue, enqueued, delivered, seen, gauge, visits,
                     faults>>
  BY DEF Destroy, MainStep, metrics
<1>2. /\ Reports \in Nat /\ Reports' = 0 /\ queue = 0 /\ abandoned = 0
      /\ delivered["success"] \in Nat /\ delivered["failure"] \in Nat
      /\ faults = MaxFaults => Reports = 0
  BY <1>1 DEF Inv, TypeOK, EndInv, Reports, Fates
<1>3. TypeOK'
  BY <1>1, <1>2 DEF Inv, TypeOK
<1>4. EveryEventAccounted'
  <2>1. Uncounted' = Uncounted
    BY <1>1 DEF Uncounted
  <2> HIDE DEF Uncounted, Reports
  <2> QED
    BY <1>1, <1>2, <2>1 DEF Inv, EveryEventAccounted, QueueLen
<1>5. QueueBounded'
  BY <1>1, <1>2, PublisherAssumption DEF QueueBounded, QueueLen
<1>6. ProducerOutlivesItsUsers' /\ EndInv'
  BY <1>1, <1>2 DEF Inv, ProducerOutlivesItsUsers, EndInv
<1> QED
  BY <1>3, <1>4, <1>5, <1>6 DEF Inv

-----------------------------------------------------------------------------
LEMMA InitInv ==
  ASSUME Init
  PROVE  Inv
<1>1. TypeOK
  BY PublisherAssumption DEF Init, TypeOK
<1>2. Uncounted = {} /\ QueueLen = 0
  BY DEF Init, Uncounted, QueueLen, Reports, Fates
<1>3. Cardinality(Uncounted) = 0
  BY <1>2, FS_EmptySet
<1>4. EveryEventAccounted
  BY <1>2, <1>3 DEF Init, EveryEventAccounted, Outcomes, Fates
<1>5. QueueBounded
  BY <1>2, PublisherAssumption DEF QueueBounded
<1>6. ProducerOutlivesItsUsers /\ EndInv
  BY DEF Init, ProducerOutlivesItsUsers, EndInv
<1> QED
  BY <1>1, <1>4, <1>5, <1>6 DEF Inv

LEMMA NextInv ==
  ASSUME Inv, [Next]_vars
  PROVE  Inv'
<1>1. CASE UNCHANGED vars
  <2>1. UNCHANGED <<pc, poller, main, queue, reports, abandoned, enqueued,
                    delivered, seen, gauge, visits, faults>>
    BY <1>1 DEF vars, kafka, metrics, bounds
  <2> QED
    BY <2>1 DEF Inv, TypeOK, EveryEventAccounted, QueueBounded, Uncounted,
         QueueLen, Reports, ProducerOutlivesItsUsers, EndInv
<1>2. ASSUME NEW t \in Threads,
             Visit(t) \/ Publish(t) \/ ProduceFails(t) \/ SerializeThrows(t)
      PROVE  Inv'
  BY <1>2, VisitInv, ProduceInv, CountInv, MeasureQueueInv, StoreInv,
     ProduceFailsInv, SerializeThrowsInv, ActorFacts DEF Publish
<1>3. CASE \E fate \in Fates : Settle(fate)
  BY <1>3, SettleInv
<1>4. CASE Poll
  BY <1>4, PollerInv, StoreInv, DeliveryCallbackInv, ActorFacts DEF Poll
<1>5. CASE Quit \/ Shutdown \/ SecondFlushTimesOut
  BY <1>5, ShutdownStepsInv, FlushTimesOutInv, DestroyInv, StoreInv,
     DeliveryCallbackInv, ActorFacts DEF Shutdown
<1> QED
  BY <1>1, <1>2, <1>3, <1>4, <1>5 DEF Next

(* The invariant holds in every reachable state of the publisher.          *)
THEOREM PublisherInvariance == Spec => []Inv
BY InitInv, NextInv, PTL DEF Spec

(* Types.                                                                  *)
THEOREM PublisherTypes == Spec => []TypeOK
<1>1. Inv => TypeOK
  BY DEF Inv
<1> QED
  BY <1>1, PublisherInvariance, PTL

(* The enqueue and delivery metrics account for every event, also between  *)
(* the calls of different threads and through the shutdown.                *)
THEOREM MetricsAddUp == Spec => []EveryEventAccounted
<1>1. Inv => EveryEventAccounted
  BY DEF Inv
<1> QED
  BY <1>1, PublisherInvariance, PTL

(* The destructor leaves no accepted event without a report, but for those *)
(* it had to give up.                                                      *)
THEOREM ShutdownLeavesNothingOpen == Spec => []NothingLeftOpen
<1>1. Inv => NothingLeftOpen
  <2>1. SUFFICES ASSUME Inv, main = "closed" PROVE NothingLeftOpen
    BY DEF NothingLeftOpen
  <2>2. Uncounted = {} /\ queue = 0 /\ Reports = 0
    BY <2>1 DEF Inv, EndInv, ProducerOutlivesItsUsers, Uncounted
  <2>3. Cardinality(Uncounted) = 0
    BY <2>2, FS_EmptySet
  <2>4. /\ enqueued["accepted"] \in Nat /\ abandoned \in Nat
        /\ delivered["success"] \in Nat /\ delivered["failure"] \in Nat
    BY <2>1 DEF Inv, TypeOK, Outcomes, Fates
  <2> HIDE DEF Uncounted, Reports
  <2> QED
    BY <2>1, <2>2, <2>3, <2>4
       DEF Inv, EveryEventAccounted, NothingLeftOpen, QueueLen, EndInv
<1> QED
  BY <1>1, PublisherInvariance, PTL

(* No thread uses the producer while the destructor destroys it.           *)
THEOREM NoUseAfterDestroy == Spec => []ProducerOutlivesItsUsers
<1>1. Inv => ProducerOutlivesItsUsers
  BY DEF Inv
<1> QED
  BY <1>1, PublisherInvariance, PTL

-----------------------------------------------------------------------------
(***************************************************************************)
(* The consumer, whose constants are what its specification assumes.       *)
(***************************************************************************)
MainStages == {"start", "loop", "poll", "close", "teardown", "join", "ended"}
                \cup Handling \cup Refreshing

(* What the variables of the observability thread and its clients are.     *)
WatchType ==
  /\ server \in {"check", "wait", "receive", "answer", "ended"}
  /\ ending \in BOOLEAN
  /\ listening \in {"open", "shut", "closed"}
  /\ backlog \in Seq(Clients)
  /\ client \in [Clients -> {"away", "silent", "asking", "closed"}]
  /\ serving \in Clients \cup {Absent}

(* The other variables, of which the invariant speaks.                     *)
Unwatched == <<offsets, gauges, consumer, hand, attempt, refresh, stop,
               mishaps, least>>

LEMMA ConsumerConstants ==
  /\ OffsetCommitMaxAttempts \in Nat \ {0} /\ Absent \notin Int /\ Absent \notin Nat
  /\ Absent \notin [partition : Partitions, offset : Nat]
BY WatchAssumption

(* The invariant does not look at the observability thread.                *)
LEMMA WatchSteps ==
  ASSUME WatchInv, UNCHANGED Unwatched, WatchType'
  PROVE  WatchInv'
<1>1. WatchTypeOK'
  BY DEF WatchInv, WatchTypeOK, WatchType, Unwatched, offsets, gauges, refresh
<1>2. LagCoversHand' /\ RefreshInv' /\ RefreshNeverUnderstates'
  BY DEF WatchInv, LagCoversHand, RefreshInv, RefreshNeverUnderstates, TrueLag,
         Unwatched, offsets, gauges, refresh
<1> QED
  BY <1>1, <1>2 DEF WatchInv, Unwatched

LEMMA ServerInv ==
  ASSUME WatchInv, Server
  PROVE  WatchInv'
<1>1. WatchType /\ UNCHANGED Unwatched
  BY DEF WatchInv, WatchTypeOK, WatchType, Server, Unwatched, MainIdle,
         CheckEnd, WaitInVain, Accept, Receive, ReceiveTimesOut, Answer, LetGo
<1>2. CASE CheckEnd \/ WaitInVain \/ Receive
  <2>1. WatchType'
    BY <1>1, <1>2 DEF WatchType, CheckEnd, WaitInVain, Receive, ServerSteps,
                      MainIdle
  <2> QED
    BY <1>1, <2>1, WatchSteps
<1>3. CASE Accept
  <2>1. WatchType'
    BY <1>1, <1>3 DEF WatchType, Accept, ServerSteps, MainIdle
  <2> QED
    BY <1>1, <2>1, WatchSteps
<1>4. CASE ReceiveTimesOut \/ Answer
  <2>1. WatchType'
    BY <1>1, <1>4 DEF WatchType, ReceiveTimesOut, Answer, LetGo, ServerSteps,
                      MainIdle
  <2> QED
    BY <1>1, <2>1, WatchSteps
<1> QED
  BY <1>2, <1>3, <1>4 DEF Server

LEMMA ClientInv ==
  ASSUME WatchInv, NEW k \in Clients, Connect(k) \/ SendRequest(k)
  PROVE  WatchInv'
<1>1. UNCHANGED Unwatched
  BY DEF Unwatched, Connect, SendRequest
<1>2. CASE Connect(k)
  <2>1. backlog' \in Seq(Clients)
    BY <1>2 DEF WatchInv, WatchTypeOK, Connect
  <2>2. WatchType'
    BY <1>2, <2>1 DEF WatchInv, WatchTypeOK, WatchType, Connect
  <2> QED
    BY <1>1, <2>2, WatchSteps
<1>3. CASE SendRequest(k)
  <2>1. WatchType'
    BY <1>3 DEF WatchInv, WatchTypeOK, WatchType, SendRequest
  <2> QED
    BY <1>1, <2>1, WatchSteps
<1> QED
  BY <1>2, <1>3

-----------------------------------------------------------------------------
(* The history that Remember keeps stays at or below the lag.              *)
LEMMA RememberFacts ==
  ASSUME WatchTypeOK, RefreshInv, Remember,
         consumer' = consumer \/ consumer \notin Refreshing,
         log' \in [Partitions -> Nat], committed' \in [Partitions -> Nat]
  PROVE  /\ least' \in [Partitions -> Int]
         /\ consumer \in Refreshing =>
              \A p \in Partitions : least'[p] <= least[p] /\ least'[p] <= TrueLag(p)'
<1>1. \A p \in Partitions : TrueLag(p)' \in Int
  BY DEF TrueLag
<1> QED
  BY <1>1 DEF WatchTypeOK, Remember, Smaller, Refreshing

LEMMA ConsumerProduceInv ==
  ASSUME WatchInv, NEW p \in Partitions, ProduceMessage(p)
  PROVE  WatchInv'
<1>1. /\ log' \in [Partitions -> Nat]
      /\ \A q \in Partitions : log[q] <= log'[q]
      /\ UNCHANGED <<committed, assigned, position, cached, rebalances, gauges,
                     consumer, hand, attempt, refresh, stop, watch, mishaps>>
      /\ Remember
  BY DEF ProduceMessage, WatchInv, WatchTypeOK
<1>2. /\ least' \in [Partitions -> Int]
      /\ consumer \in Refreshing =>
           \A q \in Partitions : least'[q] <= least[q] /\ least'[q] <= TrueLag(q)'
  BY <1>1, RememberFacts DEF WatchInv, WatchTypeOK
<1>3. WatchTypeOK'
  <2>1. UNCHANGED <<committed, assigned, position, cached, rebalances, lag, healthy,
                    consumer, hand, attempt, asked, base, fresh, stop, server, ending,
                    listening, backlog, client, serving, mishaps>>
    BY <1>1 DEF gauges, refresh, watch
  <2>2. log' \in [Partitions -> Nat] /\ least' \in [Partitions -> Int]
    BY <1>1, <1>2
  <2> QED
    BY <2>1, <2>2 DEF WatchInv, WatchTypeOK
<1>4. /\ consumer' = consumer /\ fresh' = fresh /\ base' = base
      /\ log \in [Partitions -> Nat] /\ least \in [Partitions -> Int]
      /\ base \in [Partitions -> Nat] /\ fresh \in [Partitions -> Nat \cup {Absent}]
  BY <1>1 DEF WatchInv, WatchTypeOK, refresh
<1>5. RefreshInv'
  <2>1. (consumer # "watermarks" => \A q \in Partitions : fresh[q] = Absent)'
    BY <1>4 DEF WatchInv, RefreshInv
  <2>2. (consumer \in Refreshing => \A q \in Partitions : least[q] <= TrueLag(q))'
    BY <1>2, <1>4
  <2>3. ASSUME consumer' = "watermarks", NEW q \in Partitions
        PROVE  least'[q] <= log'[q] - base'[q]
    <3>1. least[q] <= log[q] - base[q] /\ least'[q] <= least[q]
      BY <1>2, <1>4, <2>3 DEF WatchInv, RefreshInv, Refreshing
    <3> QED
      BY <1>1, <1>2, <1>4, <3>1
  <2> QED
    BY <2>1, <2>2, <2>3 DEF RefreshInv
<1>6. RefreshNeverUnderstates'
  BY <1>2, <1>4, ConsumerConstants DEF WatchInv, RefreshNeverUnderstates,
                                       Refreshing
<1> QED
  BY <1>1, <1>3, <1>5, <1>6 DEF WatchInv, LagCoversHand, gauges

(* A commit, of this consumer or another, makes a lag smaller.             *)
LEMMA CommitInv ==
  ASSUME WatchInv, NEW p \in Partitions, NEW offset \in Nat,
         committed' = [committed EXCEPT ![p] = offset],
         UNCHANGED <<log, assigned, position, cached, rebalances, gauges, hand,
                     attempt, refresh, stop, watch, mishaps>>,
         consumer' = consumer \/ (consumer = "commit" /\ consumer' = "settle"),
         Remember
  PROVE  WatchInv'
<1>1. /\ committed' \in [Partitions -> Nat]
      /\ \/ consumer' = consumer
         \/ consumer \notin Refreshing /\ consumer' \notin Refreshing
  BY DEF WatchInv, WatchTypeOK, Refreshing
<1>2. /\ least' \in [Partitions -> Int]
      /\ consumer \in Refreshing =>
           \A q \in Partitions : least'[q] <= least[q] /\ least'[q] <= TrueLag(q)'
  BY <1>1, RememberFacts DEF WatchInv, WatchTypeOK
<1>3. WatchTypeOK'
  <2>1. consumer' \in MainStages
    BY DEF WatchInv, WatchTypeOK, MainStages, Handling
  <2> QED
    BY <1>1, <1>2, <2>1 DEF WatchInv, WatchTypeOK, MainStages, gauges, refresh,
                            watch
<1>4. /\ log' = log /\ fresh' = fresh /\ base' = base
      /\ log \in [Partitions -> Nat] /\ least \in [Partitions -> Int]
      /\ base \in [Partitions -> Nat] /\ fresh \in [Partitions -> Nat \cup {Absent}]
  BY DEF WatchInv, WatchTypeOK, refresh
<1>5. RefreshInv'
  <2>1. (consumer # "watermarks" => \A q \in Partitions : fresh[q] = Absent)'
    BY <1>1, <1>4 DEF WatchInv, RefreshInv, Refreshing
  <2>2. (consumer \in Refreshing => \A q \in Partitions : least[q] <= TrueLag(q))'
    BY <1>1, <1>2, <1>4
  <2>3. ASSUME consumer' = "watermarks", NEW q \in Partitions
        PROVE  least'[q] <= log'[q] - base'[q]
    <3>1. consumer = "watermarks"
      BY <1>1, <2>3 DEF Refreshing
    <3>2. least[q] <= log[q] - base[q] /\ least'[q] <= least[q]
      BY <1>2, <3>1 DEF WatchInv, RefreshInv, Refreshing
    <3> QED
      BY <1>2, <1>4, <3>2
  <2> QED
    BY <2>1, <2>2, <2>3 DEF RefreshInv
<1>6. RefreshNeverUnderstates'
  BY <1>1, <1>2, <1>4, ConsumerConstants DEF WatchInv, RefreshNeverUnderstates,
                                             Refreshing
<1> QED
  BY <1>3, <1>5, <1>6 DEF WatchInv, LagCoversHand, gauges, Handling

LEMMA KafkaInv ==
  ASSUME WatchInv, NEW p \in Partitions,
         OtherCommits(p) \/ LearnWatermark(p)
  PROVE  WatchInv'
<1>1. CASE OtherCommits(p)
  <2>1. PICK offset \in Nat : offset = committed[p] + 1
    BY DEF WatchInv, WatchTypeOK
  <2>2. committed' = [committed EXCEPT ![p] = offset]
    BY <1>1, <2>1 DEF OtherCommits
  <2>3. /\ UNCHANGED <<log, assigned, position, cached, rebalances, gauges, hand,
                       attempt, refresh, stop, watch, mishaps>>
        /\ consumer' = consumer /\ Remember
    BY <1>1 DEF OtherCommits
  <2> QED
    BY <2>1, <2>2, <2>3, CommitInv
<1>2. CASE LearnWatermark(p)
  <2>1. WatchTypeOK'
    BY <1>2 DEF LearnWatermark, WatchInv, WatchTypeOK, gauges, refresh, watch
  <2> QED
    BY <1>2, <2>1 DEF LearnWatermark, WatchInv, LagCoversHand, RefreshInv,
                      RefreshNeverUnderstates, TrueLag, gauges, refresh
<1> QED
  BY <1>1, <1>2

LEMMA RebalanceInv ==
  ASSUME WatchInv, Rebalance
  PROVE  WatchInv'
<1>1. WatchTypeOK'
  BY DEF Rebalance, WatchInv, WatchTypeOK, gauges, refresh, watch
<1> QED
  BY <1>1 DEF Rebalance, WatchInv, LagCoversHand, RefreshInv,
              RefreshNeverUnderstates, TrueLag, gauges, refresh

-----------------------------------------------------------------------------
(* The steps of the main thread that touch neither Kafka nor the gauges of *)
(* a message in hand, and do not begin or go on with a refresh.            *)
LEMMA PlainSteps ==
  ASSUME WatchInv, WatchTypeOK',
         UNCHANGED <<log, committed>>,
         consumer' \notin Refreshing, consumer' \notin Handling,
         (fresh' = fresh /\ consumer # "watermarks") \/ Forget
  PROVE  WatchInv'
<1>1. \A p \in Partitions : fresh'[p] = Absent
  BY DEF Forget, WatchInv, RefreshInv
<1> QED
  BY <1>1 DEF WatchInv, LagCoversHand, RefreshInv, RefreshNeverUnderstates,
              Handling, Refreshing

LEMMA LoopInv ==
  ASSUME WatchInv,
         Subscribe \/ SubscribeFails \/ CheckStop \/ PollFails
           \/ Signal
           \/ Close \/ RequestEnd \/ ShutListener \/ JoinServer
  PROVE  WatchInv'
<1>1. CASE Signal
  <2>1. WatchTypeOK'
    BY <1>1 DEF Signal, WatchInv, WatchTypeOK, offsets, gauges, refresh, watch
  <2> QED
    BY <1>1, <2>1 DEF Signal, WatchInv, LagCoversHand, RefreshInv,
                      RefreshNeverUnderstates, TrueLag, offsets, gauges, refresh
<1>2. CASE Subscribe \/ SubscribeFails
  <2>0. healthy' \in BOOLEAN
    BY <1>2 DEF Subscribe, SubscribeFails, gauges, WatchInv, WatchTypeOK
  <2>1. WatchTypeOK'
    BY <1>2, <2>0 DEF Subscribe, SubscribeFails, Mishap, WatchInv, WatchTypeOK,
                      offsets, gauges, refresh, watch
  <2> QED
    BY <1>2, <2>1, PlainSteps DEF Subscribe, SubscribeFails, offsets, refresh,
                                  Refreshing, Handling
<1>3. CASE CheckStop \/ PollFails
  <2>0. healthy' \in BOOLEAN
    BY <1>3 DEF CheckStop, PollFails, gauges, WatchInv, WatchTypeOK
  <2>1. WatchTypeOK'
    BY <1>3, <2>0 DEF CheckStop, PollFails, Mishap, WatchInv, WatchTypeOK,
                      offsets, gauges, refresh, watch
  <2> QED
    BY <1>3, <2>1, PlainSteps DEF CheckStop, PollFails, offsets, refresh,
                                  Refreshing, Handling
<1>4. CASE Close
  <2>1. WatchTypeOK'
    BY <1>4 DEF Close, WatchInv, WatchTypeOK, gauges, refresh, watch
  <2> QED
    BY <1>4, <2>1, PlainSteps DEF Close, refresh, Refreshing, Handling
<1>5. CASE RequestEnd \/ ShutListener
  <2>1. WatchTypeOK'
    BY <1>5 DEF RequestEnd, ShutListener, WatchInv, WatchTypeOK, offsets,
                gauges, refresh
  <2> QED
    BY <1>5, <2>1, PlainSteps DEF RequestEnd, ShutListener, offsets, refresh,
                                  Refreshing, Handling
<1>6. CASE JoinServer
  <2>1. client' \in [Clients -> {"away", "silent", "asking", "closed"}]
    BY <1>6 DEF JoinServer
  <2>2. WatchTypeOK'
    BY <1>6, <2>1 DEF JoinServer, WatchInv, WatchTypeOK, offsets, gauges,
                      refresh
  <2> QED
    BY <1>6, <2>2, PlainSteps DEF JoinServer, offsets, refresh, Refreshing,
                                  Handling
<1> QED
  BY <1>1, <1>2, <1>3, <1>4, <1>5, <1>6

-----------------------------------------------------------------------------
(* The message in hand.                                                    *)
LEMMA PollInv ==
  ASSUME WatchInv, NEW p \in Partitions, PollMessage(p)
  PROVE  WatchInv'
<1>1. hand' \in [partition : Partitions, offset : Nat] /\ hand' # Absent
  <2>1. position[p] \in Nat
    BY DEF WatchInv, WatchTypeOK
  <2>2. hand' \in [partition : Partitions, offset : Nat]
    BY <2>1 DEF PollMessage
  <2> QED
    BY <2>2, ConsumerConstants
<1>2. WatchTypeOK'
  BY <1>1 DEF PollMessage, WatchInv, WatchTypeOK, gauges, refresh, watch,
              Handling
<1> QED
  BY <1>1, <1>2 DEF PollMessage, WatchInv, LagCoversHand, RefreshInv,
                    RefreshNeverUnderstates, Refreshing, Handling, refresh

(* The estimate is a lag, and not below the minimum.                       *)
LEMMA EstimateFacts ==
  ASSUME WatchTypeOK, NEW p \in Partitions, NEW next \in Nat, NEW minimum \in Nat,
         Estimate(p, next, minimum)
  PROVE  /\ lag' \in [Partitions -> Nat \cup {Absent}]
         /\ lag'[p] = lag[p] \/ (lag'[p] \in Nat /\ lag'[p] >= minimum)
<1>1. CASE cached[p] = Absent
  BY <1>1 DEF Estimate, WatchTypeOK
<1>2. CASE cached[p] # Absent
  <2> DEFINE estimate == Greater(minimum, cached[p] - next)
  <2>1. cached[p] \in Nat
    BY <1>2 DEF WatchTypeOK
  <2>2. estimate \in Nat /\ estimate >= minimum
    BY <2>1 DEF Greater
  <2>3. lag' = [lag EXCEPT ![p] = estimate]
    BY <1>2 DEF Estimate
  <2> HIDE DEF estimate
  <2> QED
    BY <2>2, <2>3 DEF WatchTypeOK
<1> QED
  BY <1>1, <1>2

LEMMA ObserveInv ==
  ASSUME WatchInv, Observe \/ Refine
  PROVE  WatchInv'
<1>1. /\ hand \in [partition : Partitions, offset : Nat] /\ hand # Absent
      /\ hand.partition \in Partitions /\ hand.offset \in Nat
  BY DEF Observe, Refine, WatchInv, WatchTypeOK, Handling
<1>2. /\ lag' \in [Partitions -> Nat \cup {Absent}]
      /\ lag'[hand.partition] # Absent /\ lag'[hand.partition] >= 1
  <2>1. CASE Observe
    BY <1>1, <2>1, ConsumerConstants DEF Observe, WatchInv, WatchTypeOK
  <2>2. CASE Refine
    <3>1. /\ lag' \in [Partitions -> Nat \cup {Absent}]
          /\ \/ lag'[hand.partition] = lag[hand.partition]
             \/ lag'[hand.partition] \in Nat /\ lag'[hand.partition] >= 1
      BY <1>1, <2>2, EstimateFacts DEF Refine, WatchInv
    <3>2. lag[hand.partition] # Absent /\ lag[hand.partition] >= 1
      BY <2>2 DEF Refine, WatchInv, LagCoversHand
    <3> QED
      BY <3>1, <3>2, ConsumerConstants
  <2> QED
    BY <2>1, <2>2
<1>3. /\ consumer # "watermarks" /\ consumer' \in {"refine", "handle"}
      /\ UNCHANGED <<offsets, healthy, hand, attempt, refresh, stop,
                     watch, mishaps, least>>
  BY DEF Observe, Refine
<1>4. WatchTypeOK'
  BY <1>2, <1>3 DEF WatchInv, WatchTypeOK, offsets, refresh, watch, Handling
<1> QED
  BY <1>1, <1>2, <1>3, <1>4 DEF WatchInv, LagCoversHand, RefreshInv,
                                RefreshNeverUnderstates, Refreshing, refresh

LEMMA HandleInv ==
  ASSUME WatchInv,
         Handle \/ HandleFails \/ CommitFails
  PROVE  WatchInv'
<1>1. CASE Handle
  <2>1. WatchTypeOK'
    BY <1>1 DEF Handle, WatchInv, WatchTypeOK, offsets, gauges, refresh, watch,
                Handling
  <2> QED
    BY <1>1, <2>1 DEF Handle, WatchInv, LagCoversHand, RefreshInv,
                      RefreshNeverUnderstates, Handling, Refreshing, gauges,
                      refresh
<1>2. CASE HandleFails
  <2>0. healthy' \in BOOLEAN
    BY <1>2 DEF HandleFails, Throw
  <2>1. WatchTypeOK'
    BY <1>2, <2>0, ConsumerConstants DEF HandleFails, Throw, Mishap, WatchInv,
                                         WatchTypeOK, offsets, refresh, watch
  <2> QED
    BY <1>2, <2>1, PlainSteps DEF HandleFails, Throw, offsets, refresh,
                                  Refreshing, Handling
<1>3. CASE CommitFails /\ attempt + 1 < OffsetCommitMaxAttempts
  <2>1. /\ attempt' = attempt + 1 /\ mishaps' = mishaps + 1
        /\ UNCHANGED <<offsets, gauges, consumer, hand, refresh, stop,
                       watch, least>>
    BY <1>3 DEF CommitFails, Mishap
  <2>2. WatchTypeOK'
    BY <1>3, <2>1, ConsumerConstants DEF WatchInv, WatchTypeOK, offsets, gauges,
                                         refresh, watch
  <2> QED
    BY <2>1, <2>2 DEF WatchInv, LagCoversHand, RefreshInv,
                      RefreshNeverUnderstates, TrueLag, offsets, gauges, refresh
<1>4. CASE CommitFails /\ ~(attempt + 1 < OffsetCommitMaxAttempts)
  <2>1. /\ consumer = "commit" /\ Throw /\ mishaps' = mishaps + 1
        /\ UNCHANGED <<offsets, refresh, stop, watch, least>>
    BY <1>4 DEF CommitFails, Mishap
  <2>0. healthy' \in BOOLEAN
    BY <2>1 DEF Throw
  <2>2. WatchTypeOK'
    BY <2>0, <2>1, ConsumerConstants DEF Throw, WatchInv, WatchTypeOK, offsets,
                                         refresh, watch
  <2> QED
    BY <2>1, <2>2, PlainSteps DEF Throw, offsets, refresh, Refreshing, Handling
<1> QED
  BY <1>1, <1>2, <1>3, <1>4

LEMMA CommitAndSettleInv ==
  ASSUME WatchInv, Commit \/ SettleLag
  PROVE  WatchInv'
<1>1. /\ hand \in [partition : Partitions, offset : Nat] /\ hand # Absent
      /\ hand.partition \in Partitions /\ hand.offset + 1 \in Nat
  BY DEF Commit, SettleLag, WatchInv, WatchTypeOK, Handling
<1>2. CASE Commit
  <2>1. PICK p \in Partitions, offset \in Nat :
          p = hand.partition /\ offset = hand.offset + 1
    BY <1>1
  <2>2. /\ committed' = [committed EXCEPT ![p] = offset]
        /\ UNCHANGED <<log, assigned, position, cached, rebalances, gauges, hand,
                       attempt, refresh, stop, watch, mishaps>>
        /\ consumer = "commit" /\ consumer' = "settle" /\ Remember
    BY <1>2, <2>1 DEF Commit
  <2> QED
    BY <2>2, CommitInv
<1>3. CASE SettleLag
  <2>1. lag' \in [Partitions -> Nat \cup {Absent}]
    BY <1>1, <1>3, EstimateFacts DEF SettleLag, WatchInv
  <2>2. WatchTypeOK'
    BY <1>3, <2>1, ConsumerConstants DEF SettleLag, WatchInv, WatchTypeOK,
                                         offsets, refresh, watch
  <2> QED
    BY <1>3, <2>2, PlainSteps DEF SettleLag, offsets, refresh, Refreshing,
                                  Handling
<1> QED
  BY <1>2, <1>3

-----------------------------------------------------------------------------
(* refreshLag.                                                             *)
LEMMA ForgetFacts ==
  ASSUME Forget
  PROVE  /\ asked' \subseteq Partitions
         /\ base' \in [Partitions -> Nat]
         /\ fresh' \in [Partitions -> Nat \cup {Absent}]
         /\ least' \in [Partitions -> Int]
BY DEF Forget

LEMMA BeginRefreshInv ==
  ASSUME WatchInv, NEW due \in BOOLEAN, PollTimesOut(due)
  PROVE  WatchInv'
<1>1. CASE due /\ assigned # {}
  <2>1. /\ consumer = "poll" /\ consumer' = "committed" /\ asked' = assigned
        /\ least' = [p \in Partitions |-> TrueLag(p)]
        /\ UNCHANGED <<offsets, gauges, hand, attempt, base, fresh, stop,
                       watch, mishaps>>
    BY <1>1 DEF PollTimesOut
  <2>2. /\ \A p \in Partitions :
             TrueLag(p) \in Int /\ TrueLag(p)' = TrueLag(p)
        /\ least' \in [Partitions -> Int]
    BY <2>1 DEF TrueLag, WatchInv, WatchTypeOK, offsets
  <2>3. WatchTypeOK'
    BY <2>1, <2>2 DEF WatchInv, WatchTypeOK, offsets, gauges, watch, Refreshing
  <2> QED
    BY <2>1, <2>2, <2>3 DEF WatchInv, LagCoversHand, RefreshInv,
                            RefreshNeverUnderstates, Handling, Refreshing
<1>2. CASE ~(due /\ assigned # {})
  <2>1. /\ consumer = "poll" /\ consumer' = "loop"
        /\ UNCHANGED <<offsets, gauges, hand, attempt, refresh, stop,
                       watch, mishaps, least>>
    BY <1>2 DEF PollTimesOut, refresh
  <2>2. WatchTypeOK'
    BY <2>1 DEF WatchInv, WatchTypeOK, offsets, gauges, refresh, watch
  <2> QED
    BY <2>1, <2>2, PlainSteps DEF offsets, refresh, Refreshing, Handling
<1> QED
  BY <1>1, <1>2

LEMMA AskCommittedInv ==
  ASSUME WatchInv, AskCommitted
  PROVE  WatchInv'
<1>1. WatchTypeOK'
  BY DEF AskCommitted, WatchInv, WatchTypeOK, offsets, gauges, watch, Refreshing
<1>2. RefreshInv'
  BY DEF AskCommitted, WatchInv, RefreshInv, TrueLag, offsets, Refreshing
<1>3. RefreshNeverUnderstates'
  BY DEF AskCommitted, WatchInv, RefreshInv, RefreshNeverUnderstates
<1> QED
  BY <1>1, <1>2, <1>3 DEF AskCommitted, WatchInv, LagCoversHand, Handling

(* A lag that is told is not below the smallest the refresh has seen.      *)
LEMMA AskWatermarkInv ==
  ASSUME WatchInv, NEW p \in Partitions,
         AskWatermark(p) \/ AskWatermarkFails(p)
  PROVE  WatchInv'
<1>1. /\ consumer = "watermarks" /\ asked' \subseteq Partitions /\ mishaps' \in Nat
      /\ UNCHANGED <<offsets, gauges, consumer, hand, attempt, base, stop,
                     watch, least>>
  BY DEF AskWatermark, AskWatermarkFails, Mishap, WatchInv, WatchTypeOK
<1>2. CASE AskWatermark(p)
  <2> DEFINE told == Greater(0, log[p] - base[p])
  <2>1. told \in Nat /\ least[p] <= told
    <3>1. least[p] <= log[p] - base[p] /\ least[p] \in Int /\ log[p] - base[p] \in Int
      BY <1>1 DEF WatchInv, WatchTypeOK, RefreshInv
    <3> QED
      BY <3>1 DEF Greater
  <2>2. fresh' = [fresh EXCEPT ![p] = told]
    BY <1>2 DEF AskWatermark
  <2> HIDE DEF told
  <2>3. WatchTypeOK'
    BY <1>1, <2>1, <2>2 DEF WatchInv, WatchTypeOK, offsets, gauges, watch
  <2>4. RefreshNeverUnderstates'
    BY <1>1, <2>1, <2>2 DEF WatchInv, WatchTypeOK, RefreshNeverUnderstates
  <2> QED
    BY <1>1, <2>3, <2>4 DEF WatchInv, LagCoversHand, RefreshInv, TrueLag,
                            offsets, gauges, Handling
<1>3. CASE AskWatermarkFails(p)
  <2>1. fresh' = fresh
    BY <1>3 DEF AskWatermarkFails
  <2>2. WatchTypeOK'
    BY <1>1, <2>1 DEF WatchInv, WatchTypeOK, offsets, gauges, watch
  <2> QED
    BY <1>1, <2>1, <2>2 DEF WatchInv, LagCoversHand, RefreshInv,
                            RefreshNeverUnderstates, TrueLag, offsets, gauges,
                            Handling
<1> QED
  BY <1>2, <1>3

LEMMA EndRefreshInv ==
  ASSUME WatchInv, AskCommittedFails \/ ReplaceLag
  PROVE  WatchInv'
<1>1. Forget /\ consumer' = "loop"
  BY DEF AskCommittedFails, ReplaceLag
<1>2. /\ UNCHANGED <<offsets, healthy, hand, attempt, stop, watch>>
      /\ lag' \in {lag, fresh} /\ mishaps' \in Nat
  BY DEF AskCommittedFails, ReplaceLag, Mishap, gauges, WatchInv, WatchTypeOK
<1>3. WatchTypeOK'
  <2>1. WatchTypeOK
    BY DEF WatchInv
  <2>4. /\ UNCHANGED <<log, committed, assigned, position, cached, rebalances, healthy>>
         /\ UNCHANGED <<hand, attempt, stop>>
         /\ UNCHANGED <<server, ending, listening, backlog, client, serving>>
    BY <1>2 DEF offsets, watch
  <2>2. lag' \in [Partitions -> Nat \cup {Absent}] /\ mishaps' \in Nat
    BY <1>2, <2>1 DEF WatchTypeOK
  <2>3. /\ asked' \subseteq Partitions /\ base' \in [Partitions -> Nat]
        /\ fresh' \in [Partitions -> Nat \cup {Absent}] /\ least' \in [Partitions -> Int]
    BY <1>1, ForgetFacts
  <2> QED
    BY <1>1, <2>1, <2>4, <2>2, <2>3 DEF WatchTypeOK
<1>4. UNCHANGED <<log, committed>>
      /\ consumer' \notin Refreshing /\ consumer' \notin Handling
  BY <1>1, <1>2 DEF offsets, Refreshing, Handling
<1> QED
  BY <1>1, <1>3, <1>4, PlainSteps

-----------------------------------------------------------------------------
LEMMA ConsumerInitInv == WatchInit => WatchInv
<1> SUFFICES ASSUME WatchInit PROVE WatchInv
  OBVIOUS
<1>0. healthy \in BOOLEAN /\ stop \in BOOLEAN /\ ending \in BOOLEAN
  BY DEF WatchInit
<1>1. WatchTypeOK
  BY <1>0, ConsumerConstants DEF WatchInit, WatchTypeOK, Handling, Refreshing
<1> QED
  BY <1>1 DEF WatchInit, WatchInv, LagCoversHand, RefreshInv,
              RefreshNeverUnderstates, Handling, Refreshing

LEMMA StutterInv ==
  ASSUME WatchInv, UNCHANGED watchVars
  PROVE  WatchInv'
<1>1. WatchTypeOK'
  BY DEF watchVars, WatchInv, WatchTypeOK, offsets, gauges, refresh, watch
<1> QED
  BY <1>1 DEF watchVars, WatchInv, LagCoversHand, RefreshInv,
              RefreshNeverUnderstates, TrueLag, offsets, gauges, refresh

LEMMA ConsumerNextInv ==
  ASSUME WatchInv, [WatchNext]_watchVars
  PROVE  WatchInv'
<1>1. CASE Environment
  BY <1>1, ConsumerProduceInv, KafkaInv, RebalanceInv, LoopInv, ClientInv
     DEF Environment
<1>2. CASE Main
  BY <1>2, LoopInv, PollInv, ObserveInv, HandleInv, CommitAndSettleInv, BeginRefreshInv,
     AskCommittedInv, AskWatermarkInv, EndRefreshInv DEF Main
<1>3. CASE Server
  BY <1>3, ServerInv
<1> QED
  BY <1>1, <1>2, <1>3, StutterInv DEF WatchNext

(***************************************************************************)
(* The strengthened invariant holds in every reachable state.              *)
(***************************************************************************)
THEOREM WatchInvariance == WatchSpec => []WatchInv
BY ConsumerInitInv, ConsumerNextInv, PTL DEF WatchSpec

(***************************************************************************)
(* A message in hand shows in the gauge of its partition, from before it   *)
(* is handled until it is committed (observeMessageLag, BUG-006).          *)
(***************************************************************************)
THEOREM BacklogAlwaysShows == WatchSpec => []LagCoversHand
<1>1. WatchInv => LagCoversHand
  BY DEF WatchInv
<1> QED
  BY <1>1, WatchInvariance, PTL

(***************************************************************************)
(* A refresh, put together from answers of different moments, never tells  *)
(* a lag below the smallest there was while it lasted (refreshLag).        *)
(***************************************************************************)
THEOREM RefreshIsHonest == WatchSpec => []RefreshNeverUnderstates
<1>1. WatchInv => RefreshNeverUnderstates
  BY DEF WatchInv
<1> QED
  BY <1>1, WatchInvariance, PTL
=============================================================================
