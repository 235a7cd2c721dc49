------------------------ MODULE ConnectionPoolProofs ------------------------
(***************************************************************************)
(* Proofs about the connection pool, for any number of threads and         *)
(* connections.                                                            *)
(***************************************************************************)
EXTENDS ConnectionPool, FiniteSetTheorems, SequenceTheorems, TLAPS

(* Facts about the constants.                                              *)
LEMMA Finite ==
  /\ IsFiniteSet(Threads) /\ Cardinality(Threads) \in Nat
  /\ IsFiniteSet(Connections) /\ Cardinality(Connections) \in Nat
BY PoolAssumption, FS_CardinalityType

LEMMA WokenFinite ==
  /\ IsFiniteSet(Woken) /\ Cardinality(Woken) \in Nat
  /\ IsFiniteSet(Woken') /\ Cardinality(Woken') \in Nat
<1>1. Woken \in SUBSET Threads /\ Woken' \in SUBSET Threads
  BY DEF Woken
<1>2. IsFiniteSet(Woken) /\ IsFiniteSet(Woken')
  BY <1>1, Finite, FS_Subset
<1> QED
  BY <1>2, FS_CardinalityType

(* A full set of hands: with an empty queue every connection is held by    *)
(* one of the threads other than those that hold none.                     *)
LEMMA EmptyHands ==
  ASSUME Inv, idle = <<>>, NEW W \in SUBSET Threads, \A t \in W : held[t] = None
  PROVE  Cardinality(W) + Cardinality(Connections) <= Cardinality(Threads)
<1> DEFINE others == Threads \ W
           Holder(c) == CHOOSE s \in Threads : held[s] = c
           f == [c \in Connections |-> Holder(c)]
<1>1. ASSUME NEW c \in Connections
      PROVE  Holder(c) \in others /\ held[Holder(c)] = c
  <2>1. IdleConnections = {}
    BY DEF IdleConnections
  <2>2. \E s \in Threads : held[s] = c
    BY <2>1 DEF Inv, ConnectionsConserved
  <2>3. Holder(c) \in Threads /\ held[Holder(c)] = c
    BY <2>2
  <2> QED
    BY <2>3, PoolAssumption
<1>2. f \in Injection(Connections, others)
  BY <1>1 DEF Injection, IsInjective
<1>3. /\ IsFiniteSet(others) /\ Cardinality(others) \in Nat
      /\ Cardinality(others) = Cardinality(Threads) - Cardinality(Threads \cap W)
  BY Finite, FS_Difference, FS_CardinalityType
<1>4. Cardinality(Connections) <= Cardinality(others)
  BY <1>2, <1>3, FS_Injection
<1>5. IsFiniteSet(W) /\ Cardinality(W) \in Nat
  BY Finite, FS_Subset, FS_CardinalityType
<1>6. Threads \cap W = W
  OBVIOUS
<1>7. Cardinality(others) = Cardinality(Threads) - Cardinality(W)
  BY <1>3, <1>6
<1> HIDE DEF others
<1> QED
  BY <1>3, <1>4, <1>5, <1>7, Finite

(* Who goes to wait finds the queue empty and holds nothing itself.        *)
LEMMA OneMoreWaits ==
  ASSUME Inv, idle = <<>>, NEW t \in Threads, held[t] = None,
         Waiting' \subseteq Waiting \cup {t}
  PROVE  WaitersAreFew'
<1>1. \A s \in Waiting : held[s] = None
  BY DEF Inv, ThreadInv, Waiting, WaitStages, HoldStages
<1>2. Waiting' \in SUBSET Threads /\ \A s \in Waiting' : held[s] = None
  BY <1>1 DEF Waiting
<1>3. Cardinality(Waiting') + Cardinality(Connections) <= Cardinality(Threads)
  BY <1>2, EmptyHands
<1> QED
  BY <1>3 DEF WaitersAreFew

(* A waiter that is woken leaves no more than before.                      *)
LEMMA FewerWait ==
  ASSUME Inv, Waiting' \subseteq Waiting
  PROVE  WaitersAreFew'
<1>1. IsFiniteSet(Waiting) /\ Cardinality(Waiting) \in Nat
  <2>1. Waiting \in SUBSET Threads
    BY DEF Waiting
  <2>2. IsFiniteSet(Waiting)
    BY <2>1, Finite, FS_Subset
  <2> QED
    BY <2>2, FS_CardinalityType
<1>2. IsFiniteSet(Waiting') /\ Cardinality(Waiting') <= Cardinality(Waiting)
  BY <1>1, FS_Subset
<1>3. Cardinality(Waiting') \in Nat
  BY <1>2, FS_CardinalityType
<1>4. Waiting # {} =>
        Cardinality(Waiting) + Cardinality(Connections) <= Cardinality(Threads)
  BY DEF Inv, WaitersAreFew
<1>5. Waiting' # {} => Waiting # {}
  OBVIOUS
<1> HIDE DEF Inv
<1>6. Waiting' # {} =>
        Cardinality(Waiting') + Cardinality(Connections) <= Cardinality(Threads)
  BY <1>1, <1>2, <1>3, <1>4, <1>5, Finite
<1> QED
  BY <1>6 DEF WaitersAreFew

(* Taking the first connection of the queue.                               *)
LEMMA TakeFirst ==
  ASSUME Inv, idle # <<>>, idle' = Tail(idle)
  PROVE  /\ idle' \in Seq(Connections) /\ Len(idle') = Len(idle) - 1
         /\ Head(idle) \in Connections /\ Head(idle) \in IdleConnections
         /\ IdleConnections' = IdleConnections \ {Head(idle)}
         /\ \A i, j \in 1..Len(idle') : idle'[i] = idle'[j] => i = j
<1>1. idle \in Seq(Connections)
      /\ \A i, j \in 1..Len(idle) : idle[i] = idle[j] => i = j
  BY DEF Inv, TypeOK, ConnectionsConserved
<1>2. /\ idle' \in Seq(Connections) /\ Len(idle') = Len(idle) - 1
      /\ Head(idle) = idle[1] /\ 1 \in 1..Len(idle)
      /\ \A i \in 1..Len(idle') : idle'[i] = idle[i + 1] /\ i + 1 \in 1..Len(idle)
  BY <1>1
<1>3. Head(idle) \in Connections /\ Head(idle) \in IdleConnections
  BY <1>1, <1>2 DEF IdleConnections
<1>4. \A i, j \in 1..Len(idle') : idle'[i] = idle'[j] => i = j
  BY <1>1, <1>2
<1>5. IdleConnections' = IdleConnections \ {Head(idle)}
  <2>1. ASSUME NEW c \in IdleConnections' PROVE c \in IdleConnections \ {Head(idle)}
    <3>1. PICK i \in 1..Len(idle') : c = idle'[i]
      BY <2>1 DEF IdleConnections
    <3>2. c = idle[i + 1] /\ i + 1 \in 1..Len(idle) /\ i + 1 # 1
      BY <1>2, <3>1
    <3> QED
      BY <1>1, <1>2, <3>2 DEF IdleConnections
  <2>2. ASSUME NEW c \in IdleConnections, c # Head(idle) PROVE c \in IdleConnections'
    <3>1. PICK i \in 1..Len(idle) : c = idle[i]
      BY <2>2 DEF IdleConnections
    <3>2. i - 1 \in 1..Len(idle')
      BY <1>1, <1>2, <2>2, <3>1
    <3>3. idle'[i - 1] = c
      BY <1>2, <3>1, <3>2
    <3> QED
      BY <3>2, <3>3 DEF IdleConnections
  <2> QED
    BY <2>1, <2>2
<1> QED
  BY <1>2, <1>3, <1>4, <1>5

(* Putting a connection back.                                              *)
LEMMA PutBack ==
  ASSUME Inv, NEW c \in Connections, c \notin IdleConnections,
         idle' = Append(idle, c)
  PROVE  /\ idle' \in Seq(Connections) /\ Len(idle') = Len(idle) + 1
         /\ IdleConnections' = IdleConnections \cup {c}
         /\ \A i, j \in 1..Len(idle') : idle'[i] = idle'[j] => i = j
<1>1. idle \in Seq(Connections)
      /\ \A i, j \in 1..Len(idle) : idle[i] = idle[j] => i = j
  BY DEF Inv, TypeOK, ConnectionsConserved
<1>2. /\ idle' \in Seq(Connections) /\ Len(idle') = Len(idle) + 1
      /\ Len(idle) \in Nat /\ idle'[Len(idle')] = c
      /\ \A i \in 1..Len(idle) : idle'[i] = idle[i]
  BY <1>1
<1>3. \A i \in 1..Len(idle') : i = Len(idle') \/ i \in 1..Len(idle)
  BY <1>2
<1>4. \A i \in 1..Len(idle) : idle[i] # c
  BY DEF IdleConnections
<1>5. \A i, j \in 1..Len(idle') : idle'[i] = idle'[j] => i = j
  BY <1>1, <1>2, <1>3, <1>4
<1>6. IdleConnections' = IdleConnections \cup {c}
  BY <1>2, <1>3 DEF IdleConnections
<1> QED
  BY <1>2, <1>5, <1>6

-----------------------------------------------------------------------------
(***************************************************************************)
(* The steps that move a connection.                                       *)
(***************************************************************************)
LEMMA AcquireInv ==
  ASSUME Inv, NEW t \in Threads, Acquire(t)
  PROVE  Inv'
<1>1. /\ pc[t] \notin HoldStages /\ held[t] = None /\ t \notin Waiting
      /\ inbox[t] # <<>>
  BY DEF Inv, Acquire, Serves, ThreadInv, HoldStages, Waiting, WaitStages
<1>2. CASE idle = <<>>
  <2>1. UNCHANGED <<idle, held, inbox, requests, faults>>
        /\ pc' = [pc EXCEPT ![t] = "waiting"]
    BY <1>2 DEF Acquire
  <2>2. TypeOK'
    BY <2>1 DEF Inv, TypeOK, Stages, WaitStages
  <2>3. ASSUME NEW s \in Threads PROVE ThreadInv(s)'
    <3>1. CASE s = t
      BY <1>1, <2>1, <3>1 DEF Inv, TypeOK, ThreadInv, HoldStages
    <3>2. CASE s # t
      BY <2>1, <3>2 DEF Inv, TypeOK, ThreadInv
    <3> QED
      BY <3>1, <3>2
  <2>4. ConnectionsConserved'
    BY <2>1 DEF Inv, ConnectionsConserved, IdleConnections
  <2>5. WaitersAreFew'
    <3>1. Waiting' \subseteq Waiting \cup {t}
      BY <2>1 DEF Inv, TypeOK, Waiting
    <3> QED
      BY <1>1, <1>2, <3>1, OneMoreWaits
  <2>6. NoLostWakeup'
    <3>1. Len(idle') = 0
      BY <1>2, <2>1
    <3> QED
      BY <3>1, WokenFinite DEF NoLostWakeup
  <2> QED
    BY <2>2, <2>3, <2>4, <2>5, <2>6 DEF Inv
<1>3. CASE idle # <<>>
  <2>1. /\ UNCHANGED <<inbox, requests, faults>> /\ idle' = Tail(idle)
        /\ pc' = [pc EXCEPT ![t] = "ping"]
        /\ held' = [held EXCEPT ![t] = Head(idle)]
    BY <1>3 DEF Acquire
  <2>2. /\ idle' \in Seq(Connections) /\ Len(idle') = Len(idle) - 1
        /\ Head(idle) \in Connections /\ Head(idle) \in IdleConnections
        /\ IdleConnections' = IdleConnections \ {Head(idle)}
        /\ \A i, j \in 1..Len(idle') : idle'[i] = idle'[j] => i = j
    BY <1>3, <2>1, TakeFirst
  <2>3. /\ pc'[t] = "ping" /\ held'[t] = Head(idle)
        /\ \A s \in Threads : s # t => pc'[s] = pc[s] /\ held'[s] = held[s]
    BY <2>1 DEF Inv, TypeOK
  <2>4. TypeOK'
    BY <2>1, <2>2 DEF Inv, TypeOK, Stages, HoldStages
  <2>5. ASSUME NEW s \in Threads PROVE ThreadInv(s)'
    <3>1. CASE s = t
      BY <1>1, <2>1, <2>2, <2>3, <3>1, PoolAssumption
         DEF Inv, ThreadInv, HoldStages
    <3>2. CASE s # t
      BY <2>1, <2>3, <3>2 DEF Inv, ThreadInv
    <3> QED
      BY <3>1, <3>2
  <2>6. ConnectionsConserved'
    <3>1. \A s \in Threads : held'[s] \notin IdleConnections'
      BY <2>2, <2>3 DEF Inv, ConnectionsConserved
    <3>2. \A s, u \in Threads : held'[s] = held'[u] /\ held'[s] # None => s = u
      BY <2>2, <2>3 DEF Inv, ConnectionsConserved
    <3>3. ASSUME NEW c \in Connections
          PROVE  c \in IdleConnections' \/ \E s \in Threads : held'[s] = c
      <4>1. CASE \E s \in Threads : held[s] = c
        BY <1>1, <2>3, <4>1, PoolAssumption
      <4>2. CASE c \in IdleConnections
        BY <2>2, <2>3, <4>2
      <4> QED
        BY <4>1, <4>2 DEF Inv, ConnectionsConserved
    <3> QED
      BY <2>2, <3>1, <3>2, <3>3 DEF ConnectionsConserved
  <2>7. Waiting' \subseteq Waiting
    BY <2>3 DEF Waiting, WaitStages
  <2>8. Woken' = Woken \ {t}
    BY <2>3 DEF Woken, WokenStages
  <2>9. NoLostWakeup'
    <3>1. SUFFICES ASSUME "ready" \notin Kinds, Waiting' # {}
                   PROVE  Len(idle') <= Cardinality(Woken')
      BY DEF NoLostWakeup
    <3>2. Len(idle) <= Cardinality(Woken) /\ Len(idle) \in Nat
      BY <2>7, <3>1 DEF Inv, TypeOK, NoLostWakeup
    <3>3. Cardinality(Woken') >= Cardinality(Woken) - 1
      BY <2>8, WokenFinite, FS_RemoveElement
    <3> QED
      BY <2>2, <3>2, <3>3, WokenFinite
  <2>10. WaitersAreFew'
    BY <2>7, FewerWait
  <2> QED
    BY <2>4, <2>5, <2>6, <2>9, <2>10 DEF Inv
<1> QED
  BY <1>2, <1>3

(* The connection goes back and at most one waiter is woken.               *)
LEMMA ReturnInv ==
  ASSUME Inv, NEW t \in Threads, pc[t] \in HoldStages, Return(t), Answered(t),
         UNCHANGED requests, faults' \in 0..MaxFaults
  PROVE  Inv'
<1> DEFINE c == held[t]
<1>1. c \in Connections /\ c # None /\ c \notin IdleConnections
  BY DEF Inv, TypeOK, ThreadInv, ConnectionsConserved
<1>2. /\ idle' \in Seq(Connections) /\ Len(idle') = Len(idle) + 1
      /\ IdleConnections' = IdleConnections \cup {c}
      /\ \A i, j \in 1..Len(idle') : idle'[i] = idle'[j] => i = j
  BY <1>1, PutBack DEF Return
<1>3. /\ held'[t] = None /\ \A s \in Threads : s # t => held'[s] = held[s]
      /\ held' \in [Threads -> Connections \cup {None}]
  BY DEF Return, Inv, TypeOK
<1>4. /\ pc' \in [Threads -> Stages] /\ pc'[t] = "idle"
      /\ \A s \in Threads : s # t =>
           pc'[s] = pc[s] \/ (s \in Waiting /\ pc'[s] = WokenStage(s))
      /\ Waiting # {} => \E w \in Waiting : pc'[w] = WokenStage(w)
  <2>1. t \notin Waiting /\ \A w \in Threads : WokenStage(w) \in Stages
    BY DEF Waiting, WaitStages, HoldStages, WokenStage, Stages, WokenStages
  <2>2. CASE Waiting = {} /\ pc' = [pc EXCEPT ![t] = "idle"]
    BY <2>2 DEF Inv, TypeOK, Stages
  <2>3. CASE \E w \in Waiting :
               pc' = [pc EXCEPT ![t] = "idle", ![w] = WokenStage(w)]
    <3>1. PICK w \in Waiting :
            pc' = [pc EXCEPT ![t] = "idle", ![w] = WokenStage(w)]
      BY <2>3
    <3>2. w \in Threads /\ w # t
      BY <2>1 DEF Waiting
    <3> QED
      BY <2>1, <3>1, <3>2 DEF Inv, TypeOK, Stages
  <2> QED
    BY <2>2, <2>3 DEF Return
<1>5. /\ inbox' \in [Threads -> Seq({"query", "ready"})]
      /\ \A s \in Threads : s # t => inbox'[s] = inbox[s]
      /\ \A i \in 1..Len(inbox'[t]) : inbox'[t][i] \in Kinds
  <2>1. inbox[t] \in Seq({"query", "ready"}) /\ inbox[t] # <<>>
        /\ \A i \in 1..Len(inbox[t]) : inbox[t][i] \in Kinds
    BY DEF Inv, TypeOK, ThreadInv, HoldStages
  <2>2. /\ Tail(inbox[t]) \in Seq({"query", "ready"})
        /\ \A i \in 1..Len(Tail(inbox[t])) : Tail(inbox[t])[i] \in Kinds
    BY <2>1
  <2> QED
    BY <2>2 DEF Inv, TypeOK, Answered
<1>6. TypeOK'
  BY <1>2, <1>3, <1>4, <1>5 DEF Inv, TypeOK
<1>7. ASSUME NEW s \in Threads PROVE ThreadInv(s)'
  <2>1. CASE s = t
    BY <1>3, <1>4, <1>5, <2>1 DEF ThreadInv, HoldStages
  <2>2. CASE s # t /\ pc'[s] = pc[s]
    BY <1>3, <1>5, <2>2 DEF Inv, ThreadInv
  <2>3. CASE s # t /\ s \in Waiting /\ pc'[s] = WokenStage(s)
    BY <1>3, <1>5, <2>3
       DEF Inv, ThreadInv, HoldStages, Waiting, WaitStages, WokenStage
  <2> QED
    BY <1>4, <2>1, <2>2, <2>3
<1>8. ConnectionsConserved'
  <2>1. \A s \in Threads : s # t => held[s] # c
    BY <1>1 DEF Inv, ConnectionsConserved
  <2>2. \A s \in Threads : held'[s] \notin IdleConnections'
    <3>1. IdleConnections \subseteq Connections
      BY DEF IdleConnections, Inv, TypeOK
    <3> QED
      BY <1>1, <1>2, <1>3, <2>1, <3>1, PoolAssumption DEF Inv, ConnectionsConserved
  <2>3. \A s, u \in Threads : held'[s] = held'[u] /\ held'[s] # None => s = u
    BY <1>3 DEF Inv, ConnectionsConserved
  <2>4. \A d \in Connections :
          d \in IdleConnections' \/ \E s \in Threads : held'[s] = d
    BY <1>2, <1>3 DEF Inv, ConnectionsConserved
  <2> QED
    BY <1>2, <2>2, <2>3, <2>4 DEF ConnectionsConserved
<1>9. Waiting' \subseteq Waiting
  BY <1>4 DEF Waiting, WaitStages, WokenStage
<1>10. NoLostWakeup'
  <2>1. SUFFICES ASSUME "ready" \notin Kinds, Waiting' # {}
                 PROVE  Len(idle') <= Cardinality(Woken')
    BY DEF NoLostWakeup
  <2>2. Len(idle) <= Cardinality(Woken) /\ Len(idle) \in Nat
    BY <1>9, <2>1 DEF Inv, TypeOK, NoLostWakeup
  <2>3. PICK w \in Waiting : pc'[w] = WokenStage(w)
    BY <1>4, <1>9, <2>1
  <2>4. w \notin Woken
    BY DEF Waiting, Woken, WaitStages, WokenStages
  <2>5. Woken \cup {w} \in SUBSET Woken'
    BY <1>4, <2>3
       DEF Waiting, Woken, WaitStages, WokenStages, WokenStage, HoldStages
  <2>6. Cardinality(Woken \cup {w}) = Cardinality(Woken) + 1
    BY <2>4, WokenFinite, FS_AddElement
  <2>7. Cardinality(Woken \cup {w}) <= Cardinality(Woken')
    BY <2>5, WokenFinite, FS_Subset
  <2> QED
    BY <1>2, <2>2, <2>6, <2>7, WokenFinite
<1>11. WaitersAreFew'
  BY <1>9, FewerWait
<1> QED
  BY <1>6, <1>7, <1>8, <1>10, <1>11 DEF Inv

-----------------------------------------------------------------------------
(***************************************************************************)
(* The steps that move no connection.                                      *)
(***************************************************************************)
(* Removing the request that was served.                                   *)
LEMMA Served ==
  ASSUME Inv, NEW t \in Threads, inbox[t] # <<>>, Answered(t)
  PROVE  /\ inbox' \in [Threads -> Seq({"query", "ready"})]
         /\ \A s \in Threads : s # t => inbox'[s] = inbox[s]
         /\ \A i \in 1..Len(inbox'[t]) : inbox'[t][i] \in Kinds
<1>1. inbox[t] \in Seq({"query", "ready"})
      /\ \A i \in 1..Len(inbox[t]) : inbox[t][i] \in Kinds
  BY DEF Inv, TypeOK, ThreadInv
<1>2. /\ Tail(inbox[t]) \in Seq({"query", "ready"})
      /\ \A i \in 1..Len(Tail(inbox[t])) : Tail(inbox[t])[i] \in Kinds
  BY <1>1
<1> QED
  BY <1>2 DEF Inv, TypeOK, Answered

(* One thread goes on to another stage.                                    *)
LEMMA MoveInv ==
  ASSUME Inv, NEW t \in Threads, NEW stage \in Stages,
         pc' = [pc EXCEPT ![t] = stage],
         UNCHANGED <<idle, held, requests, faults>>,
         (UNCHANGED inbox /\ inbox[t] # <<>>)
           \/ (Answered(t) /\ inbox[t] # <<>> /\ stage = "idle"),
         stage \in HoldStages <=> pc[t] \in HoldStages,
         stage \in {"probe_waiting", "probe_woken", "probe"} => "ready" \in Kinds,
         stage \in WaitStages => idle = <<>>,
         "ready" \in Kinds \/ (Waiting' \subseteq Waiting /\ Woken \subseteq Woken')
  PROVE  Inv'
<1>1. /\ pc' \in [Threads -> Stages] /\ pc'[t] = stage
      /\ \A s \in Threads : s # t => pc'[s] = pc[s]
  BY DEF Inv, TypeOK
<1>2. /\ inbox' \in [Threads -> Seq({"query", "ready"})]
      /\ \A s \in Threads : s # t => inbox'[s] = inbox[s]
      /\ \A i \in 1..Len(inbox'[t]) : inbox'[t][i] \in Kinds
  <2>1. CASE UNCHANGED inbox
    BY <2>1 DEF Inv, TypeOK, ThreadInv
  <2>2. CASE Answered(t) /\ inbox[t] # <<>>
    BY <2>2, Served
  <2> QED
    BY <2>1, <2>2
<1>3. TypeOK'
  BY <1>1, <1>2 DEF Inv, TypeOK
<1>4. ASSUME NEW s \in Threads PROVE ThreadInv(s)'
  <2>1. CASE s = t
    BY <1>1, <1>2, <2>1 DEF Inv, ThreadInv
  <2>2. CASE s # t
    BY <1>1, <1>2, <2>2 DEF Inv, ThreadInv
  <2> QED
    BY <2>1, <2>2
<1>5. ConnectionsConserved'
  BY DEF Inv, ConnectionsConserved, IdleConnections
<1>6. WaitersAreFew'
  <2>1. CASE stage \in WaitStages
    <3>1. held[t] = None
      BY <2>1 DEF Inv, ThreadInv, WaitStages, HoldStages
    <3>2. Waiting' \subseteq Waiting \cup {t}
      BY <1>1 DEF Waiting
    <3> QED
      BY <2>1, <3>1, <3>2, OneMoreWaits
  <2>2. CASE stage \notin WaitStages
    <3>1. Waiting' \subseteq Waiting
      BY <1>1, <2>2 DEF Waiting
    <3> QED
      BY <3>1, FewerWait
  <2> QED
    BY <2>1, <2>2
<1>7. NoLostWakeup'
  <2>1. SUFFICES ASSUME "ready" \notin Kinds, Waiting' # {}
                 PROVE  Len(idle) <= Cardinality(Woken')
    BY DEF NoLostWakeup
  <2>2. Len(idle) <= Cardinality(Woken) /\ Len(idle) \in Nat
    BY <2>1 DEF Inv, TypeOK, NoLostWakeup
  <2>3. Cardinality(Woken) <= Cardinality(Woken')
    BY <2>1, WokenFinite, FS_Subset
  <2> QED
    BY <2>2, <2>3, WokenFinite
<1> QED
  BY <1>3, <1>4, <1>5, <1>6, <1>7 DEF Inv

LEMMA PingInv ==
  ASSUME Inv, NEW t \in Threads, Ping(t)
  PROVE  Inv'
<1>1. /\ "use" \in Stages /\ "use" \in HoldStages /\ pc[t] \in HoldStages
      /\ inbox[t] # <<>>
  BY DEF Ping, Stages, HoldStages, Inv, ThreadInv
<1>2. Waiting' \subseteq Waiting /\ Woken \subseteq Woken'
  BY DEF Ping, Inv, TypeOK, Waiting, Woken, WaitStages, WokenStages
<1> QED
  BY <1>1, <1>2, MoveInv DEF Ping, WaitStages

(* A failed ping ends like a request that succeeded: the deleter runs.     *)
LEMMA ReconnectFailsInv ==
  ASSUME Inv, NEW t \in Threads, ReconnectFails(t)
  PROVE  Inv'
<1>1. pc[t] \in HoldStages /\ faults' \in 0..MaxFaults
  BY PoolAssumption DEF ReconnectFails, HoldStages, Inv, TypeOK
<1> QED
  BY <1>1, ReturnInv DEF ReconnectFails

LEMMA ReleaseInv ==
  ASSUME Inv, NEW t \in Threads, Release(t)
  PROVE  Inv'
<1>1. pc[t] \in HoldStages /\ faults' \in 0..MaxFaults
  BY DEF Release, HoldStages, Inv, TypeOK
<1> QED
  BY <1>1, ReturnInv DEF Release

LEMMA SpuriousWakeupInv ==
  ASSUME Inv, NEW t \in Threads, SpuriousWakeup(t)
  PROVE  Inv'
<1>1. /\ WokenStage(t) \in Stages /\ WokenStage(t) \in WokenStages
      /\ pc[t] \in WaitStages /\ inbox[t] # <<>>
      /\ WokenStage(t) = "probe_woken" => "ready" \in Kinds
  BY DEF SpuriousWakeup, Waiting, WaitStages, WokenStage, Stages, WokenStages,
         Inv, ThreadInv
<1>2. Waiting' \subseteq Waiting /\ Woken \subseteq Woken'
  BY <1>1 DEF SpuriousWakeup, Inv, TypeOK, Waiting, Woken, WaitStages, WokenStages
<1> QED
  BY <1>1, <1>2, MoveInv
     DEF SpuriousWakeup, WaitStages, WokenStages, HoldStages

LEMMA AwaitIdleInv ==
  ASSUME Inv, NEW t \in Threads, AwaitIdle(t)
  PROVE  Inv'
<1> DEFINE stage == IF idle = <<>> THEN "probe_waiting" ELSE "probe"
<1>1. /\ inbox[t] # <<>> /\ pc[t] \notin HoldStages
      /\ "ready" \in Kinds
  <2>1. CASE Serves(t, "ready")
    <3>1. inbox[t] \in Seq({"query", "ready"}) /\ inbox[t] # <<>>
          /\ Head(inbox[t]) = "ready"
      BY <2>1 DEF Serves, Inv, TypeOK
    <3>2. 1 \in 1..Len(inbox[t]) /\ inbox[t][1] = "ready"
      BY <3>1
    <3> QED
      BY <2>1, <3>1, <3>2 DEF Serves, Inv, ThreadInv, HoldStages
  <2>2. CASE pc[t] = "probe_woken"
    BY <2>2 DEF Inv, ThreadInv, HoldStages
  <2> QED
    BY <2>1, <2>2 DEF AwaitIdle
<1>2. /\ stage \in Stages /\ stage \notin HoldStages
      /\ stage \in WaitStages => idle = <<>>
  BY DEF Stages, WaitStages, HoldStages
<1> QED
  BY <1>1, <1>2, MoveInv DEF AwaitIdle

LEMMA AwaitTimesOutInv ==
  ASSUME Inv, NEW t \in Threads, AwaitTimesOut(t)
  PROVE  Inv'
<1>1. inbox[t] # <<>> /\ pc[t] \notin HoldStages /\ "ready" \in Kinds
  BY DEF AwaitTimesOut, Inv, ThreadInv, HoldStages
<1>2. {"idle", "probe"} \subseteq Stages /\ {"idle", "probe"} \cap HoldStages = {}
      /\ {"idle", "probe"} \cap WaitStages = {}
  BY DEF Stages, HoldStages, WaitStages
<1> QED
  BY <1>1, <1>2, MoveInv DEF AwaitTimesOut

LEMMA ProbeInv ==
  ASSUME Inv, NEW t \in Threads, Probe(t)
  PROVE  Inv'
<1>1. inbox[t] # <<>> /\ pc[t] \notin HoldStages /\ "ready" \in Kinds
  BY DEF Probe, Inv, ThreadInv, HoldStages
<1>2. "idle" \in Stages /\ "idle" \notin HoldStages /\ "idle" \notin WaitStages
  BY DEF Stages, HoldStages, WaitStages
<1> QED
  BY <1>1, <1>2, MoveInv DEF Probe

LEMMA ArriveInv ==
  ASSUME Inv, NEW t \in Threads, NEW kind \in Kinds, Arrive(t, kind)
  PROVE  Inv'
<1>1. /\ inbox'[t] \in Seq({"query", "ready"}) /\ inbox'[t] # <<>>
      /\ \A i \in 1..Len(inbox'[t]) : inbox'[t][i] \in Kinds
      /\ inbox' \in [Threads -> Seq({"query", "ready"})]
      /\ \A s \in Threads : s # t => inbox'[s] = inbox[s]
  <2>1. /\ inbox[t] \in Seq({"query", "ready"}) /\ kind \in {"query", "ready"}
        /\ \A i \in 1..Len(inbox[t]) : inbox[t][i] \in Kinds
    BY PoolAssumption DEF Inv, TypeOK, ThreadInv
  <2>2. /\ Append(inbox[t], kind) \in Seq({"query", "ready"})
        /\ Append(inbox[t], kind) # <<>>
        /\ \A i \in 1..Len(Append(inbox[t], kind)) : Append(inbox[t], kind)[i] \in Kinds
    <3> DEFINE q == inbox[t]
    <3>1. q \in Seq({"query", "ready"}) /\ \A i \in 1..Len(q) : q[i] \in Kinds
      BY <2>1
    <3> HIDE DEF q
    <3>2. /\ Append(q, kind) \in Seq({"query", "ready"})
          /\ Len(Append(q, kind)) = Len(q) + 1 /\ Append(q, kind) # <<>>
      BY <2>1, <3>1, AppendProperties
    <3>3. ASSUME NEW i \in 1..Len(Append(q, kind)) PROVE Append(q, kind)[i] \in Kinds
      <4>1. /\ Len(q) \in Nat /\ i \in 1..(Len(q) + 1)
            /\ Append(q, kind)[Len(q) + 1] = kind
            /\ \A j \in 1..Len(q) : Append(q, kind)[j] = q[j]
        BY <3>1
      <4>2. i \in 1..Len(q) \/ i = Len(q) + 1
        BY <4>1
      <4> QED
        BY <3>1, <4>1, <4>2
    <3> QED
      BY <3>2, <3>3 DEF q
  <2>3. /\ inbox'[t] = Append(inbox[t], kind) /\ DOMAIN inbox' = Threads
        /\ inbox' = [inbox EXCEPT ![t] = Append(inbox[t], kind)]
    BY DEF Arrive, Inv, TypeOK
  <2> QED
    BY <2>2, <2>3 DEF Inv, TypeOK
<1>2. requests' \in 0..MaxRequests
  BY PoolAssumption DEF Arrive, Inv, TypeOK
<1>3. TypeOK'
  BY <1>1, <1>2 DEF Arrive, Inv, TypeOK
<1>4. \A s \in Threads : ThreadInv(s)'
  BY <1>1 DEF Arrive, Inv, ThreadInv
<1> QED
  BY <1>3, <1>4
     DEF Arrive, Inv, ConnectionsConserved, IdleConnections, WaitersAreFew,
         NoLostWakeup, Waiting, Woken

-----------------------------------------------------------------------------
(* The queue starts with every connection in it: as many places as there   *)
(* are connections, and no connection at two of them.                      *)
LEMMA InitInv ==
  ASSUME Init
  PROVE  Inv
<1> DEFINE n == Cardinality(Connections)
<1>1. n \in Nat /\ idle \in Seq(Connections) /\ Len(idle) = n
      /\ idle \in [1..n -> Connections]
  BY Finite DEF Init
<1>2. \A i, j \in 1..n : idle[i] = idle[j] => i = j
  BY <1>1 DEF Init
<1>3. IdleConnections = Connections
  <2>1. IsFiniteSet(1..n) /\ Cardinality(1..n) = n
    BY <1>1, FS_Interval
  <2>2. idle \in Surjection(1..n, IdleConnections)
    BY <1>1 DEF IdleConnections, Surjection
  <2>3. idle \in Bijection(1..n, IdleConnections)
    BY <1>2, <2>2 DEF Bijection, Injection, IsInjective, Surjection
  <2>4. IsFiniteSet(IdleConnections) /\ Cardinality(IdleConnections) = n
    BY <2>1, <2>3, FS_Bijection DEF ExistsBijection
  <2>5. IdleConnections \subseteq Connections
    BY <1>1 DEF IdleConnections
  <2> QED
    BY <2>4, <2>5, Finite, FS_Subset
<1>4. TypeOK
  BY <1>1, PoolAssumption DEF Init, TypeOK, Stages
<1>5. \A t \in Threads : ThreadInv(t)
  BY DEF Init, ThreadInv, HoldStages
<1>6. ConnectionsConserved
  BY <1>1, <1>2, <1>3, PoolAssumption DEF Init, ConnectionsConserved
<1>7. Waiting = {}
  BY DEF Init, Waiting, WaitStages
<1> QED
  BY <1>4, <1>5, <1>6, <1>7 DEF Inv, WaitersAreFew, NoLostWakeup

LEMMA NextInv ==
  ASSUME Inv, [Next]_vars
  PROVE  Inv'
<1>1. CASE UNCHANGED vars
  <2>1. UNCHANGED <<idle, pc, held, inbox, requests, faults>>
    BY <1>1 DEF vars
  <2>2. TypeOK' /\ (\A t \in Threads : ThreadInv(t)') /\ ConnectionsConserved'
    BY <2>1 DEF Inv, TypeOK, ThreadInv, ConnectionsConserved, IdleConnections
  <2>3. Waiting' = Waiting /\ Woken' = Woken /\ Len(idle') = Len(idle)
    BY <2>1 DEF Waiting, Woken
  <2>4. WaitersAreFew' /\ NoLostWakeup'
    BY <2>3 DEF Inv, WaitersAreFew, NoLostWakeup
  <2> QED
    BY <2>2, <2>4 DEF Inv
<1>2. CASE Next
  BY <1>2, AcquireInv, PingInv, ReleaseInv, AwaitIdleInv, ProbeInv, ArriveInv,
     AwaitTimesOutInv, ReconnectFailsInv, SpuriousWakeupInv DEF Next, Work
<1> QED
  BY <1>1, <1>2

(* The invariant holds in every reachable state of the pool.               *)
THEOREM PoolInvariance == Spec => []Inv
BY InitInv, NextInv, PTL DEF Spec

(* Types.                                                                  *)
THEOREM PoolTypes == Spec => []TypeOK
<1>1. Inv => TypeOK
  BY DEF Inv
<1> QED
  BY <1>1, PoolInvariance, PTL

(* The pool neither loses a connection nor hands it out twice: every path  *)
(* out of getConnection and its deleter gives it back once.                *)
THEOREM NoConnectionLost == Spec => []ConnectionsConserved
<1>1. Inv => ConnectionsConserved
  BY DEF Inv
<1> QED
  BY <1>1, PoolInvariance, PTL

(* cv_.wait holds no more threads than the connections do not suffice for. *)
THEOREM FewEverWait == Spec => []WaitersAreFew
<1>1. Inv => WaitersAreFew
  BY DEF Inv
<1> QED
  BY <1>1, PoolInvariance, PTL

(* cv_.wait is never entered with as many connections as threads.          *)
THEOREM NobodyEverWaits ==
  Spec => [](Cardinality(Threads) <= Cardinality(Connections) => Waiting = {})
<1>1. WaitersAreFew =>
        (Cardinality(Threads) <= Cardinality(Connections) => Waiting = {})
  <2> SUFFICES ASSUME WaitersAreFew, Cardinality(Threads) <= Cardinality(Connections)
               PROVE  Waiting = {}
    OBVIOUS
  <2>1. Waiting \in SUBSET Threads
    BY DEF Waiting
  <2>2. IsFiniteSet(Waiting) /\ Cardinality(Waiting) \in Nat
    BY <2>1, Finite, FS_Subset, FS_CardinalityType
  <2>3. Waiting # {} => Cardinality(Waiting) # 0
    BY <2>2, FS_EmptySet
  <2> HIDE DEF Waiting
  <2> QED
    BY <2>2, <2>3, Finite DEF WaitersAreFew
<1> QED
  BY <1>1, FewEverWait, PTL

(* One notify_one for every push is enough while only getConnection waits. *)
THEOREM WakeupsNotLost == Spec => []NoLostWakeup
<1>1. Inv => NoLostWakeup
  BY DEF Inv
<1> QED
  BY <1>1, PoolInvariance, PTL
=============================================================================
