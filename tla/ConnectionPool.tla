--------------------------- MODULE ConnectionPool ---------------------------
(***************************************************************************)
(* DbConnectionPool: the I/O threads of the server take connections from a *)
(* queue under one mutex and wait for one on a condition variable, on      *)
(* which a readiness request waits too.  A critical section is one action; *)
(* cv_.wait puts the thread into the wait set and releases the mutex.      *)
(*                                                                         *)
(* Each thread is an event loop: it serves one request after the other.    *)
(* A request that uses the database several times, one connection after    *)
(* the other, counts as several requests.                                  *)
(***************************************************************************)
EXTENDS Naturals, Sequences, FiniteSets

CONSTANTS
  Threads,      \* server.thread_num event loops
  Connections,  \* mysql.pool_size connections
  None,         \* no connection
  Kinds,        \* requests the clients send: "query", "ready"
  MaxRequests,  \* bound: requests in a behaviour
  MaxFaults     \* bound: connections that cannot be reopened in a behaviour

ASSUME PoolAssumption ==
  /\ IsFiniteSet(Threads)
  /\ IsFiniteSet(Connections)
  /\ None \notin Connections
  /\ Kinds \subseteq {"query", "ready"}
  /\ MaxRequests \in Nat
  /\ MaxFaults \in Nat

VARIABLES
  idle,      \* connections_, a queue
  pc,        \* what each thread does
  held,      \* the connection a thread has taken, or None
  inbox,     \* requests a thread has still to serve, the first one now
  requests,  \* requests that have arrived
  faults     \* failures that may still happen

vars == <<idle, pc, held, inbox, requests, faults>>

WaitStages == {"waiting", "probe_waiting"}
WokenStages == {"woken", "probe_woken"}
HoldStages == {"ping", "use"}
Stages == WaitStages \cup WokenStages \cup HoldStages \cup {"idle", "probe"}

(* The threads on the condition variable.                                  *)
Waiting == {t \in Threads : pc[t] \in WaitStages}
Woken == {t \in Threads : pc[t] \in WokenStages}
WokenStage(t) == IF pc[t] = "waiting" THEN "woken" ELSE "probe_woken"

Serves(t, kind) == pc[t] = "idle" /\ inbox[t] # <<>> /\ Head(inbox[t]) = kind

(* init fills the queue before the server starts.                          *)
Init ==
  /\ idle \in [1..Cardinality(Connections) -> Connections]
  /\ \A i, j \in DOMAIN idle : idle[i] = idle[j] => i = j
  /\ pc = [t \in Threads |-> "idle"]
  /\ held = [t \in Threads |-> None]
  /\ inbox = [t \in Threads |-> <<>>]
  /\ requests = 0
  /\ faults = MaxFaults

Arrive(t, kind) ==
  /\ requests < MaxRequests
  /\ requests' = requests + 1
  /\ inbox' = [inbox EXCEPT ![t] = Append(@, kind)]
  /\ UNCHANGED <<idle, pc, held, faults>>

Answered(t) == inbox' = [inbox EXCEPT ![t] = Tail(@)]

-----------------------------------------------------------------------------
(***************************************************************************)
(* getConnection.                                                          *)
(***************************************************************************)
(* The loop around cv_.wait: take the first connection, or wait (again).   *)
Acquire(t) ==
  /\ Serves(t, "query") \/ pc[t] = "woken"
  /\ IF idle = <<>>
     THEN /\ pc' = [pc EXCEPT ![t] = "waiting"]
          /\ UNCHANGED <<idle, held>>
     ELSE /\ pc' = [pc EXCEPT ![t] = "ping"]
          /\ held' = [held EXCEPT ![t] = Head(idle)]
          /\ idle' = Tail(idle)
  /\ UNCHANGED <<inbox, requests, faults>>

(* The deleter: push, notify_one.                                          *)
Return(t) ==
  /\ idle' = Append(idle, held[t])
  /\ held' = [held EXCEPT ![t] = None]
  /\ \/ /\ Waiting = {}
        /\ pc' = [pc EXCEPT ![t] = "idle"]
     \/ \E w \in Waiting :
          pc' = [pc EXCEPT ![t] = "idle", ![w] = WokenStage(w)]

(* The connection answers, or was reopened.                                *)
Ping(t) ==
  /\ pc[t] = "ping"
  /\ pc' = [pc EXCEPT ![t] = "use"]
  /\ UNCHANGED <<idle, held, inbox, requests, faults>>

(* Slip: the connection that could not be reopened is dropped.             *)
ReconnectFailsLeaking(t) ==
  /\ pc[t] = "ping"
  /\ faults > 0
  /\ faults' = faults - 1
  /\ pc' = [pc EXCEPT ![t] = "idle"]
  /\ held' = [held EXCEPT ![t] = None]
  /\ Answered(t)
  /\ UNCHANGED <<idle, requests>>

(* Slip: the error path does not notify.                                   *)
ReconnectFailsSilently(t) ==
  /\ pc[t] = "ping"
  /\ faults > 0
  /\ faults' = faults - 1
  /\ pc' = [pc EXCEPT ![t] = "idle"]
  /\ idle' = Append(idle, held[t])
  /\ held' = [held EXCEPT ![t] = None]
  /\ Answered(t)
  /\ UNCHANGED requests

(* reconnect throws: the connection goes back, the request fails.          *)
ReconnectFails(t) ==
  /\ pc[t] = "ping"
  /\ faults > 0
  /\ faults' = faults - 1
  /\ Return(t)
  /\ Answered(t)
  /\ UNCHANGED requests

(* The request is done with the connection, normally or by an exception.   *)
Release(t) ==
  /\ pc[t] = "use"
  /\ Return(t)
  /\ Answered(t)
  /\ UNCHANGED <<requests, faults>>

(* The standard lets a wait end without a notification.                    *)
SpuriousWakeup(t) ==
  /\ t \in Waiting
  /\ pc' = [pc EXCEPT ![t] = WokenStage(t)]
  /\ UNCHANGED <<idle, held, inbox, requests, faults>>

-----------------------------------------------------------------------------
(***************************************************************************)
(* isHealthy: waits until some connection is idle, takes none, and probes  *)
(* MySQL through a connection of its own.                                  *)
(***************************************************************************)
AwaitIdle(t) ==
  /\ Serves(t, "ready") \/ pc[t] = "probe_woken"
  /\ pc' = [pc EXCEPT ![t] = IF idle = <<>> THEN "probe_waiting" ELSE "probe"]
  /\ UNCHANGED <<idle, held, inbox, requests, faults>>

(* Slip: the wait has no timeout, only a notification ends it.             *)
AwaitTimesOutNever(t) ==
  /\ pc[t] = "probe_woken"
  /\ idle # <<>>
  /\ pc' = [pc EXCEPT ![t] = "probe"]
  /\ UNCHANGED <<idle, held, inbox, requests, faults>>

(* wait_for is over: the predicate is evaluated once more.                 *)
AwaitTimesOut(t) ==
  /\ pc[t] \in {"probe_waiting", "probe_woken"}
  /\ IF idle = <<>>
     THEN /\ pc' = [pc EXCEPT ![t] = "idle"]
          /\ Answered(t)
     ELSE /\ pc' = [pc EXCEPT ![t] = "probe"]
          /\ UNCHANGED inbox
  /\ UNCHANGED <<idle, held, requests, faults>>

(* probe opens a connection with timeouts, and answers ready or not ready. *)
Probe(t) ==
  /\ pc[t] = "probe"
  /\ pc' = [pc EXCEPT ![t] = "idle"]
  /\ Answered(t)
  /\ UNCHANGED <<idle, held, requests, faults>>

-----------------------------------------------------------------------------
(* What a thread does by itself.                                           *)
Work(t) == \/ Acquire(t) \/ Ping(t) \/ Release(t)
           \/ AwaitIdle(t) \/ Probe(t)

Next ==
  \E t \in Threads :
    \/ \E kind \in Kinds : Arrive(t, kind)
    \/ Work(t) \/ AwaitTimesOut(t) \/ ReconnectFails(t) \/ SpuriousWakeup(t)

Spec == Init /\ [][Next]_vars

(* Threads run, statements of MySQL end, and timeouts happen.  Nothing is  *)
(* assumed of requests to come or of spurious wake-ups.                    *)
Fairness == \A t \in Threads : WF_vars(Work(t)) /\ WF_vars(AwaitTimesOut(t))

FairSpec == Spec /\ Fairness

-----------------------------------------------------------------------------
TypeOK ==
  /\ idle \in Seq(Connections)
  /\ pc \in [Threads -> Stages]
  /\ held \in [Threads -> Connections \cup {None}]
  /\ inbox \in [Threads -> Seq({"query", "ready"})]
  /\ requests \in 0..MaxRequests
  /\ faults \in 0..MaxFaults

IdleConnections == {idle[i] : i \in 1..Len(idle)}

(***************************************************************************)
(* No connection is lost or handed out twice: each one is in the queue, at *)
(* one place, or in the hands of one thread, through failed pings and      *)
(* exceptions too.                                                         *)
(***************************************************************************)
ConnectionsConserved ==
  /\ \A i, j \in 1..Len(idle) : idle[i] = idle[j] => i = j
  /\ \A t \in Threads : held[t] \notin IdleConnections
  /\ \A s, t \in Threads : held[s] = held[t] /\ held[s] # None => s = t
  /\ \A c \in Connections : c \in IdleConnections \/ \E t \in Threads : held[t] = c

(***************************************************************************)
(* Nobody waits who need not: those who wait are never more than the       *)
(* threads the connections do not suffice for.  With no more threads than  *)
(* connections, as configured by default (both four), nobody ever does.    *)
(***************************************************************************)
WaitersAreFew ==
  Waiting # {} =>
    Cardinality(Waiting) + Cardinality(Connections) <= Cardinality(Threads)

(***************************************************************************)
(* No lost wake-up: as long as somebody waits, there is a thread on its    *)
(* way for every idle connection.  It holds while no readiness request     *)
(* waits on the same condition variable.                                   *)
(***************************************************************************)
NoLostWakeup ==
  "ready" \notin Kinds /\ Waiting # {} => Len(idle) <= Cardinality(Woken)

NobodyProbes ==
  \A t \in Threads : pc[t] \notin {"probe_waiting", "probe_woken", "probe"}

(***************************************************************************)
(* Every request is answered once no more of them arrive, as long as       *)
(* nobody probes: then a notify_one always reaches a thread that takes the *)
(* connection, however many of them wait and whatever wakes them up.       *)
(***************************************************************************)
QueriesAnswered ==
  []NobodyProbes => <>[](\A t \in Threads : inbox[t] = <<>>)

(***************************************************************************)
(* isHealthy returns in bounded time (DbConnectionPool.h:35), whatever the *)
(* other threads do with the connections.                                  *)
(***************************************************************************)
ProbeEnds ==
  \A t \in Threads :
    (pc[t] \in {"probe_waiting", "probe_woken", "probe"}) ~> (pc[t] = "idle")

(***************************************************************************)
(* docs/RELIABILITY_DESIGN.md:119: a readiness request must not be blocked *)
(* for ever by a wait for the connection pool.                             *)
(***************************************************************************)
ReadinessAnswered ==
  \A t \in Threads :
    (\E i \in 1..Len(inbox[t]) : inbox[t][i] = "ready") ~> (inbox[t] = <<>>)

-----------------------------------------------------------------------------
(***************************************************************************)
(* The inductive strengthening: a thread holds a connection exactly while  *)
(* it pings or uses it, and only a readiness request awaits for a probe.   *)
(***************************************************************************)
ThreadInv(t) ==
  /\ held[t] # None <=> pc[t] \in HoldStages
  /\ pc[t] # "idle" => inbox[t] # <<>>
  /\ pc[t] \in {"probe_waiting", "probe_woken", "probe"} => "ready" \in Kinds
  /\ \A i \in 1..Len(inbox[t]) : inbox[t][i] \in Kinds

Inv ==
  /\ TypeOK
  /\ \A t \in Threads : ThreadInv(t)
  /\ ConnectionsConserved
  /\ WaitersAreFew
  /\ NoLostWakeup
=============================================================================
