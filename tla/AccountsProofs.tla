--------------------------- MODULE AccountsProofs ---------------------------
(***************************************************************************)
(* Proofs about accounts, sessions and the create limit, for any number of *)
(* threads, clients, names and requests, any limit and window, any number  *)
(* of failures and any time.                                               *)
(***************************************************************************)
EXTENDS Accounts, SequenceTheorems, TLAPS

-----------------------------------------------------------------------------
LEMMA LimiterFacts == Limit \in Nat \ {0} /\ WindowMs \in Nat \ {0}
BY LimiterAssumption DEF WindowMs, Second

(* The clock of Redis in milliseconds, and that of the sessions in seconds.*)
LEMMA SecondsOf ==
  ASSUME NEW now \in Nat
  PROVE  now \div Second \in Nat
BY DEF Second

LEMMA SecondsPass ==
  ASSUME NEW now \in Nat, NEW later \in Nat, now <= later
  PROVE  now \div Second <= later \div Second
BY DEF Second

(* What the script makes of the counter.                                   *)
Counters == [count : Nat, deadline : Nat]

LEMMA CountedOpens ==
  ASSUME NEW k \in Counters, NEW now \in Nat, ~Alive(k, now)
  PROVE  Counted(k, now) = [count |-> 1, deadline |-> now + WindowMs]
BY LimiterFacts DEF Counters, Counted, Incremented, Expiring, NoTtl

LEMMA CountedAgain ==
  ASSUME NEW k \in Counters, NEW now \in Nat, Alive(k, now), k.deadline # NoTtl
  PROVE  Counted(k, now) = [count |-> k.count + 1, deadline |-> k.deadline]
BY LimiterFacts DEF Counters, Counted, Incremented, Expiring, NoTtl, Alive

LEMMA CountedRepairs ==
  ASSUME NEW k \in Counters, NEW now \in Nat, Alive(k, now), k.deadline = NoTtl
  PROVE  Counted(k, now) = [count |-> k.count + 1, deadline |-> now + WindowMs]
BY LimiterFacts DEF Counters, Counted, Incremented, Expiring, NoTtl, Alive

LEMMA CountedType ==
  ASSUME NEW k \in Counters, NEW now \in Nat
  PROVE  /\ Counted(k, now) \in Counters
         /\ Counted(k, now).deadline # NoTtl
         /\ Counted(k, now).count > 0
         /\ Counted(k, now).deadline <= now + WindowMs \/ Counted(k, now).deadline = k.deadline
         /\ Alive(k, now) /\ k.deadline # NoTtl => Counted(k, now).deadline = k.deadline
<1>1. CASE ~Alive(k, now)
  BY <1>1, CountedOpens, LimiterFacts DEF Counters, NoTtl
<1>2. CASE Alive(k, now) /\ k.deadline # NoTtl
  BY <1>2, CountedAgain, LimiterFacts DEF Counters, NoTtl
<1>3. CASE Alive(k, now) /\ k.deadline = NoTtl
  BY <1>3, CountedRepairs, LimiterFacts DEF Counters, NoTtl
<1> QED
  BY <1>1, <1>2, <1>3

LEMMA RetryAfterType ==
  ASSUME NEW k \in Counters, NEW now \in Nat
  PROVE  /\ RetryAfter(k, now) \in Nat
         /\ k.deadline < now + RetryAfter(k, now) * Second + Second \div 2
<1>1. k.deadline \in Nat
  BY DEF Counters
<1>2. /\ Ttl(k, now) \in Int
      /\ k.deadline < now + Ttl(k, now) * Second + Second \div 2
  BY <1>1 DEF Ttl, Second
<1>3. RetryAfter(k, now) \in Nat /\ Ttl(k, now) <= RetryAfter(k, now)
  BY <1>2 DEF RetryAfter
<1>4. Ttl(k, now) * Second <= RetryAfter(k, now) * Second
  BY <1>2, <1>3 DEF Second
<1> QED
  BY <1>1, <1>2, <1>3, <1>4 DEF Second

-----------------------------------------------------------------------------
(* The limiter.  What an admission adds to the history.                    *)
LEMMA AdmittedFacts ==
  ASSUME TypeOK
  PROVE  /\ Len(admitted) \in Nat /\ clock \in Nat
         /\ \A i \in 1..Len(admitted) : admitted[i] \in Nat
BY AccountsAssumption DEF TypeOK

LEMMA AppendFacts ==
  ASSUME TypeOK, admitted' = Append(admitted, clock)
  PROVE  /\ Len(admitted') = Len(admitted) + 1
         /\ admitted'[Len(admitted) + 1] = clock
         /\ \A i \in 1..Len(admitted) : admitted'[i] = admitted[i]
         /\ admitted' \in Seq(0..MaxTime)
BY DEF TypeOK

(* The counter, as the invariant speaks of it.                             *)
LEMMA KeyFacts ==
  ASSUME TypeOK
  PROVE  key \in Counters /\ key.count \in Nat /\ key.deadline \in Nat
BY DEF TypeOK, Counters

(* WindowInv of the next state, put together: before the window's, there   *)
(* were so many admissions.                                                *)
LEMMA WindowNext ==
  ASSUME NEW w \in Nat, NEW before \in Nat, NEW opened \in Int,
         Len(admitted') = before + w, key'.deadline - WindowMs = opened,
         w <= key'.count /\ w <= Limit,
         \A i \in 1..Len(admitted') : i > before => opened <= admitted'[i],
         w > 0 /\ (w = key'.count \/ w = Limit) => admitted'[before + 1] = opened,
         \A i \in 1..Len(admitted') : i <= before => admitted'[i] <= opened,
         \A i \in 1..Len(admitted') :
           i <= before - (Limit - 1) => admitted'[i] <= opened - WindowMs
  PROVE  WindowInv(w)'
<1>1. Len(admitted') - w = before /\ w <= Len(admitted')
  OBVIOUS
<1> QED
  BY <1>1 DEF WindowInv

(* One more request in the window that is open.                            *)
LEMMA AgainInv ==
  ASSUME TypeOK, LimiterInv, Alive(key, clock), key.deadline # NoTtl,
         key' = Counted(key, clock), clock' = clock,
         \/ admitted' = admitted
         \/ Allowed(key') /\ admitted' = Append(admitted, clock)
  PROVE  LimiterInv'
<1>1. /\ key'.count = key.count + 1 /\ key'.deadline = key.deadline
      /\ key.count \in Nat /\ key.deadline \in Nat /\ key.count > 0
  BY AdmittedFacts, KeyFacts, CountedAgain DEF Alive, Counters
<1>2. /\ Len(admitted) \in Nat /\ clock \in Nat /\ Limit \in Nat /\ WindowMs \in Nat
      /\ \A i \in 1..Len(admitted) : admitted[i] \in Nat /\ admitted[i] <= clock
  BY AdmittedFacts, LimiterFacts DEF LimiterInv
<1>3. PICK within \in 0..Limit : WindowInv(within)
  BY DEF LimiterInv
<1>4. CASE admitted' = admitted
  <2>1. WindowInv(within)'
    BY <1>1, <1>2, <1>3, <1>4 DEF WindowInv
  <2> QED
    BY <1>1, <1>2, <1>4, <2>1 DEF LimiterInv
<1>5. CASE Allowed(key') /\ admitted' = Append(admitted, clock)
  <2>1. key.count + 1 <= Limit
    BY <1>1, <1>5 DEF Allowed
  <2>2. /\ Len(admitted') = Len(admitted) + 1
        /\ admitted'[Len(admitted) + 1] = clock
        /\ \A i \in 1..Len(admitted) : admitted'[i] = admitted[i]
    BY <1>5, AppendFacts
  <2>3. within <= key.count /\ within <= Len(admitted)
    BY <1>3 DEF WindowInv
  <2>4. key.deadline - WindowMs <= clock
    BY <1>1, <1>2 DEF LimiterInv
  <2> DEFINE n == Len(admitted)
             before == n - within
             opened == key.deadline - WindowMs
  <2>5. /\ n \in Nat /\ opened \in Int /\ within \in Nat /\ Len(admitted') = n + 1
        /\ before \in Nat /\ n = before + within /\ n + 1 = before + (within + 1)
    BY <1>1, <1>2, <2>2, <2>3
  <2>6. \A i \in 1..n + 1 : i > before => opened <= admitted'[i]
    <3>1. \A i \in 1..n : i > before => opened <= admitted[i]
      BY <1>3 DEF WindowInv
    <3> QED
      BY <2>2, <2>4, <2>5, <3>1
  <2>7. within + 1 = key.count + 1 \/ within + 1 = Limit => admitted'[before + 1] = opened
    <3> SUFFICES ASSUME within + 1 = key.count + 1 \/ within + 1 = Limit
                 PROVE  admitted'[before + 1] = opened
      OBVIOUS
    <3>1. within = key.count /\ within > 0
      BY <1>1, <1>2, <2>1, <2>3, <2>5
    <3>2. admitted[before + 1] = opened
      BY <1>3, <3>1 DEF WindowInv
    <3>3. before + 1 \in 1..n
      <4> HIDE DEF n, before
      <4>1. within \in Nat /\ within > 0
        BY <2>5, <3>1
      <4> QED
        BY <2>5, <4>1
    <3> QED
      BY <2>2, <3>2, <3>3
  <2>8. \A i \in 1..n + 1 : i <= before => admitted'[i] <= opened
    <3>1. \A i \in 1..n : i <= before => admitted[i] <= opened
      BY <1>3 DEF WindowInv
    <3> QED
      BY <2>2, <2>5, <3>1
  <2>9. \A i \in 1..n + 1 : i <= before - (Limit - 1) => admitted'[i] <= opened - WindowMs
    <3>1. \A i \in 1..n : i <= before - (Limit - 1) => admitted[i] <= opened - WindowMs
      BY <1>3 DEF WindowInv
    <3>2. \A i \in 1..n + 1 : i <= before - (Limit - 1) => i \in 1..n
      BY <1>2, <2>5, LimiterFacts
    <3> QED
      BY <2>2, <2>5, <3>1, <3>2
  <2>10. key'.deadline - WindowMs = opened
    BY <1>1
  <2> HIDE DEF n, before, opened
  <2>11. WindowInv(within + 1)'
    <3>1. within + 1 \in Nat /\ within + 1 <= key'.count /\ within + 1 <= Limit
      BY <1>1, <1>2, <2>1, <2>3, <2>5
    <3>2. within + 1 = key'.count \/ within + 1 = Limit => admitted'[before + 1] = opened
      BY <1>1, <2>7
    <3>3. Len(admitted') = before + (within + 1)
      BY <2>5
    <3> QED
      BY <2>5, <2>6, <2>8, <2>9, <2>10, <3>1, <3>2, <3>3, WindowNext
  <2>12. within + 1 \in 0..Limit
    BY <1>1, <1>2, <2>1, <2>3
  <2> QED
    <3>1. \A i \in 1..Len(admitted') : admitted'[i] <= clock
      BY <1>2, <2>2
    <3> QED
      BY <1>1, <1>2, <2>4, <2>11, <2>12, <3>1 DEF LimiterInv
<1> QED
  BY <1>4, <1>5

(* The first request that gives the counter its TTL: of a counter that     *)
(* never had one, or of a window that is over.                             *)
LEMMA OpensInv ==
  ASSUME TypeOK, LimiterInv, ~(Alive(key, clock) /\ key.deadline # NoTtl),
         key' = Counted(key, clock), clock' = clock,
         \/ admitted' = admitted
         \/ Allowed(key') /\ admitted' = Append(admitted, clock)
  PROVE  LimiterInv'
<1>1. /\ key'.deadline = clock + WindowMs /\ key'.count \in Nat /\ key'.count > 0
      /\ key'.count = 1 \/ (key'.count = key.count + 1 /\ key.count > 0)
      /\ key.count \in Nat /\ key.deadline \in Nat
      /\ key.deadline # NoTtl => key.deadline <= clock
  <2>1. CASE ~Alive(key, clock)
    <3>1. key' = [count |-> 1, deadline |-> clock + WindowMs]
      BY <2>1, AdmittedFacts, KeyFacts, CountedOpens
    <3>2. key.deadline # NoTtl => key.deadline <= clock
      BY <2>1, AdmittedFacts, KeyFacts DEF Alive, LimiterInv
    <3> QED
      BY <3>1, <3>2, KeyFacts
  <2>2. CASE Alive(key, clock)
    <3>1. key' = [count |-> key.count + 1, deadline |-> clock + WindowMs]
      BY <2>2, AdmittedFacts, KeyFacts, CountedRepairs
    <3>2. key.count > 0 /\ key.deadline = NoTtl
      BY <2>2 DEF Alive
    <3> QED
      BY <3>1, <3>2, KeyFacts
  <2> QED
    BY <2>1, <2>2
<1>2. /\ Len(admitted) \in Nat /\ clock \in Nat /\ Limit \in Nat \ {0}
      /\ WindowMs \in Nat \ {0}
      /\ \A i \in 1..Len(admitted) : admitted[i] \in Nat /\ admitted[i] <= clock
  BY AdmittedFacts, LimiterFacts DEF LimiterInv
<1>3. \A i \in 1..Len(admitted) :
        i <= Len(admitted) - (Limit - 1) => admitted[i] <= clock - WindowMs
  <2>1. CASE key.deadline = NoTtl
    BY <2>1 DEF LimiterInv
  <2>2. CASE key.deadline # NoTtl
    <3>1. PICK within \in 0..Limit : WindowInv(within)
      BY <2>2 DEF LimiterInv
    <3>2. key.deadline - WindowMs <= clock - WindowMs
      BY <1>1, <1>2, <2>2
    <3>3. \A i \in 1..Len(admitted) :
            i <= Len(admitted) - within => admitted[i] <= key.deadline - WindowMs
      BY <3>1 DEF WindowInv
    <3>4. within = Limit =>
            admitted[Len(admitted) - within + 1] = key.deadline - WindowMs
      BY <1>2, <3>1 DEF WindowInv
    <3>5. within \in Nat /\ within <= Limit
      BY <1>2
    <3>6. ASSUME NEW i \in 1..Len(admitted), i <= Len(admitted) - (Limit - 1)
          PROVE  admitted[i] <= clock - WindowMs
      <4>1. CASE i <= Len(admitted) - within
        BY <1>1, <1>2, <3>2, <3>3, <4>1
      <4>2. CASE i > Len(admitted) - within
        <5>1. within = Limit /\ i = Len(admitted) - within + 1
          BY <1>2, <3>5, <3>6, <4>2
        <5> QED
          BY <3>2, <3>4, <5>1
      <4> QED
        BY <1>2, <3>5, <4>1, <4>2
    <3> QED
      BY <3>6
  <2> QED
    BY <2>1, <2>2
<1>4. key'.deadline # NoTtl /\ key'.deadline <= clock + WindowMs
  BY <1>1, <1>2 DEF NoTtl
<1>5. CASE admitted' = admitted
  <2>1. WindowInv(0)'
    BY <1>1, <1>2, <1>3, <1>5 DEF WindowInv
  <2> QED
    BY <1>1, <1>2, <1>4, <1>5, <2>1 DEF LimiterInv
<1>6. CASE Allowed(key') /\ admitted' = Append(admitted, clock)
  <2>1. /\ Len(admitted') = Len(admitted) + 1
        /\ admitted'[Len(admitted) + 1] = clock
        /\ \A i \in 1..Len(admitted) : admitted'[i] = admitted[i]
    BY <1>6, AppendFacts
  <2>2. WindowInv(1)'
    <3> DEFINE n == Len(admitted)
    <3>1. n \in Nat /\ clock \in Int /\ 1 \in Nat /\ 1 <= key'.count /\ 1 <= Limit
      BY <1>1, <1>2
    <3>2. key'.deadline - WindowMs = clock
      BY <1>1, <1>2
    <3>3. /\ Len(admitted') = n + 1 /\ admitted'[n + 1] = clock
          /\ \A i \in 1..n : admitted'[i] = admitted[i] /\ admitted[i] <= clock
      BY <1>2, <2>1
    <3>4. \A i \in 1..n : i <= n - (Limit - 1) => admitted'[i] <= clock - WindowMs
      BY <1>3, <2>1
    <3> HIDE DEF n
    <3>5. \A i \in 1..n + 1 : i > n => clock <= admitted'[i]
      BY <3>1, <3>3
    <3>6. \A i \in 1..n + 1 : i <= n => admitted'[i] <= clock
      BY <3>1, <3>3
    <3>7. \A i \in 1..n + 1 : i <= n - (Limit - 1) => admitted'[i] <= clock - WindowMs
      <4>1. \A i \in 1..n + 1 : i <= n - (Limit - 1) => i \in 1..n
        BY <1>2, <3>1
      <4> QED
        BY <3>4, <4>1
    <3> QED
      BY <3>1, <3>2, <3>3, <3>5, <3>6, <3>7, WindowNext
  <2>3. 1 \in 0..Limit
    BY <1>2
  <2> QED
    BY <1>1, <1>2, <1>4, <2>1, <2>2, <2>3 DEF LimiterInv
<1> QED
  BY <1>5, <1>6

(* Counting, whether the request is admitted or not.                       *)
LEMMA CountingInv ==
  ASSUME TypeOK, LimiterInv, key' = Counted(key, clock), clock' = clock,
         \/ admitted' = admitted
         \/ Allowed(key') /\ admitted' = Append(admitted, clock)
  PROVE  LimiterInv'
BY AgainInv, OpensInv

(* Of 2 * Limit creates in a row, the first was admitted in a window that  *)
(* is over for a whole window when the last one's opens.                   *)
LEMMA BurstKept ==
  ASSUME TypeOK, NoBurst, LimiterInv', clock' = clock,
         admitted' = Append(admitted, clock), key' \in Counters
  PROVE  NoBurst'
<1> DEFINE n == Len(admitted)
           opened == key'.deadline - WindowMs
<1>1. /\ Len(admitted') = n + 1 /\ admitted'[n + 1] = clock
      /\ \A i \in 1..n : admitted'[i] = admitted[i]
      /\ n \in Nat /\ clock \in Nat /\ \A i \in 1..n : admitted[i] \in Nat
      /\ Limit \in Nat \ {0} /\ WindowMs \in Nat \ {0} /\ opened \in Int
  BY AppendFacts, AdmittedFacts, LimiterFacts DEF Counters
<1>2. key'.deadline # NoTtl
  <2> SUFFICES ASSUME key'.deadline = NoTtl PROVE FALSE
    OBVIOUS
  <2>1. admitted' = <<>>
    BY DEF LimiterInv
  <2> QED
    BY <1>1, <2>1
<1>3. PICK within \in 0..Limit : WindowInv(within)'
  BY <1>2 DEF LimiterInv
<1>4. opened <= clock
  BY <1>1, <1>2 DEF LimiterInv, Counters
<1>5. \A i \in 1..n + 1 :
        i <= n + 1 - within - (Limit - 1) => admitted'[i] <= opened - WindowMs
  BY <1>1, <1>3 DEF WindowInv
<1> HIDE DEF n, opened
<1>6. \A i \in 1..n - (2 * Limit - 1) :
        admitted'[i + 2 * Limit - 1] - admitted'[i] >= WindowMs
  BY <1>1 DEF NoBurst, n
<1>7. ASSUME NEW i \in 1..n + 1 - (2 * Limit - 1), i = n + 1 - (2 * Limit - 1)
      PROVE  admitted'[i + 2 * Limit - 1] - admitted'[i] >= WindowMs
  <2>1. /\ i \in 1..n /\ i + 2 * Limit - 1 = n + 1 /\ i <= n + 1 - within - (Limit - 1)
    BY <1>1, <1>7
  <2>2. /\ admitted'[i] <= opened - WindowMs /\ admitted'[i] \in Nat
        /\ admitted'[i + 2 * Limit - 1] = clock
    BY <1>1, <1>5, <2>1
  <2> QED
    BY <1>1, <1>4, <2>2
<1>8. \A i \in 1..n + 1 - (2 * Limit - 1) :
        i \in 1..n - (2 * Limit - 1) \/ i = n + 1 - (2 * Limit - 1)
  BY <1>1
<1>9. \A i \in 1..n + 1 - (2 * Limit - 1) :
        admitted'[i + 2 * Limit - 1] - admitted'[i] >= WindowMs
  BY <1>6, <1>7, <1>8
<1>10. Len(admitted') - (2 * Limit - 1) = n + 1 - (2 * Limit - 1)
  BY <1>1
<1> QED
  BY <1>9, <1>10 DEF NoBurst

(* Counting never puts off the end of a window that somebody waits for.    *)
LEMMA PromisesKept ==
  ASSUME TypeOK, WindowEndsAsTold, key' = Counted(key, clock),
         promises' \subseteq (IF Alive(key, clock) THEN promises ELSE {})
                             \cup {clock + RetryAfter(key', clock) * Second}
  PROVE  WindowEndsAsTold'
<1>1. key \in Counters /\ clock \in Nat /\ key' \in Counters /\ key'.deadline # NoTtl
  BY KeyFacts, AdmittedFacts, CountedType
<1>2. ASSUME NEW time \in promises, Alive(key, clock)
      PROVE  key'.deadline < time + Second \div 2
  <2>1. key.deadline # NoTtl /\ key.deadline < time + Second \div 2
    BY DEF WindowEndsAsTold
  <2>2. key'.deadline = key.deadline
    BY <1>1, <1>2, <2>1, CountedType
  <2> QED
    BY <2>1, <2>2
<1>3. key'.deadline < clock + RetryAfter(key', clock) * Second + Second \div 2
  BY <1>1, RetryAfterType
<1> QED
  BY <1>1, <1>2, <1>3 DEF WindowEndsAsTold

Limiting == LimiterInv /\ NoBurst /\ WindowEndsAsTold

LEMMA CheckRateLimiting ==
  ASSUME TypeOK, Limiting, NEW t \in Threads, CheckRate(t)
  PROVE  Limiting'
<1>1. /\ key' = Counted(key, clock) /\ clock' = clock
      /\ \/ admitted' = admitted
         \/ Allowed(key') /\ admitted' = Append(admitted, clock)
  BY DEF CheckRate, Count
<1>2. key' \in Counters
  BY <1>1, KeyFacts, AdmittedFacts, CountedType
<1>3. LimiterInv'
  BY <1>1, CountingInv DEF Limiting
<1>4. NoBurst'
  BY <1>1, <1>2, <1>3, BurstKept DEF Limiting, NoBurst
<1>5. WindowEndsAsTold'
  BY PromisesKept DEF CheckRate, Count, Limiting
<1> QED
  BY <1>3, <1>4, <1>5 DEF Limiting

LEMMA CheckRateFailsLimiting ==
  ASSUME TypeOK, Limiting, NEW t \in Threads, CheckRateFails(t)
  PROVE  Limiting'
<1>1. clock' = clock /\ admitted' = admitted
  BY DEF CheckRateFails
<1>2. CASE UNCHANGED <<key, promises>>
  BY <1>1, <1>2 DEF Limiting, LimiterInv, WindowInv, NoBurst, WindowEndsAsTold
<1>3. CASE /\ key' = Counted(key, clock)
           /\ promises' = IF Alive(key, clock) THEN promises ELSE {}
  <2>1. LimiterInv'
    BY <1>1, <1>3, CountingInv DEF Limiting
  <2>2. WindowEndsAsTold'
    BY <1>3, PromisesKept DEF Limiting
  <2> QED
    BY <1>1, <2>1, <2>2 DEF Limiting, NoBurst
<1> QED
  BY <1>2, <1>3 DEF CheckRateFails

(* Time passes: nothing that was admitted is in the future.                *)
LEMMA TimeLimiting ==
  ASSUME TypeOK, Limiting, UNCHANGED limiter, clock' \in Nat /\ clock <= clock'
  PROVE  Limiting'
<1>1. /\ key' = key /\ admitted' = admitted /\ promises' = promises
  BY DEF limiter
<1>2. /\ \A i \in 1..Len(admitted) : admitted[i] \in Nat /\ admitted[i] <= clock
      /\ clock \in Nat /\ key.deadline \in Nat /\ WindowMs \in Nat
  BY AdmittedFacts, KeyFacts, LimiterFacts DEF Limiting, LimiterInv
<1>3. \A i \in 1..Len(admitted') : admitted'[i] <= clock'
  BY <1>1, <1>2
<1>4. key.deadline # NoTtl => key.deadline <= clock' + WindowMs
  BY <1>2 DEF Limiting, LimiterInv
<1>5. LimiterInv'
  BY <1>1, <1>3, <1>4 DEF Limiting, LimiterInv, WindowInv
<1> QED
  BY <1>1, <1>5 DEF Limiting, NoBurst, WindowEndsAsTold

LEMMA InitLimiting == Init => Limiting
<1> SUFFICES ASSUME Init PROVE Limiting
  OBVIOUS
<1>1. Len(admitted) = 0 /\ key.deadline = NoTtl /\ admitted = <<>> /\ promises = {}
  BY DEF Init, NoCounter
<1> QED
  BY <1>1, LimiterFacts DEF Limiting, LimiterInv, NoBurst, WindowEndsAsTold

LEMMA StepLimiting ==
  ASSUME TypeOK, Limiting, [Next]_vars
  PROVE  Limiting'
<1>1. CASE \E t \in Threads : CheckRate(t)
  BY <1>1, CheckRateLimiting
<1>2. CASE \E t \in Threads : CheckRateFails(t)
  BY <1>2, CheckRateFailsLimiting
<1>3. CASE UNCHANGED limiter /\ clock' \in Nat /\ clock <= clock'
  BY <1>3, TimeLimiting
<1>4. ASSUME NEW t \in Threads, NEW wanted \in Requests, NEW tok \in 0..Len(sessions),
             Arrive(t, wanted, tok)
      PROVE  UNCHANGED limiter /\ clock' = clock
  BY <1>4 DEF Arrive
<1>5. ASSUME NEW t \in Threads, InsertUser(t) \/ SelectUser(t) \/ FindUser(t)
      PROVE  UNCHANGED limiter /\ clock' = clock
  BY <1>5 DEF InsertUser, SelectUser, FindUser
<1>6. ASSUME NEW t \in Threads, InsertSession(t) \/ Revoke(t) \/ Authenticate(t)
      PROVE  UNCHANGED limiter /\ clock' = clock
  BY <1>6 DEF InsertSession, Revoke, Authenticate
<1>7. ASSUME NEW t \in Threads,
             CreateLink(t) \/ StatementFails(t) \/ Reconnect(t) \/ Respond(t)
      PROVE  UNCHANGED limiter /\ clock' = clock
  BY <1>7 DEF CreateLink, StatementFails, Reconnect, Respond
<1>8. ASSUME NEW u \in Users, Disable(u)
      PROVE  UNCHANGED limiter /\ clock' = clock
  BY <1>8 DEF Disable
<1>9. CASE Tick
  <2>1. UNCHANGED limiter /\ clock' \in Nat /\ clock <= clock'
    BY <1>9, AdmittedFacts, AccountsAssumption DEF Tick
  <2> QED
    BY <1>3, <2>1
<1>10. CASE UNCHANGED limiter /\ clock' = clock
  BY <1>3, <1>10, AdmittedFacts
<1>11. CASE UNCHANGED vars
  BY <1>10, <1>11 DEF vars
<1> QED
  BY <1>1, <1>2, <1>4, <1>5, <1>6, <1>7, <1>8, <1>9, <1>10, <1>11 DEF Next

-----------------------------------------------------------------------------
(* Accounts and sessions.  The tables only grow: of a row that is there    *)
(* the password, the user and the end stay, and what was disabled or       *)
(* revoked stays so.                                                       *)
RowsOfUsers == [name : Names, password : Clients, active : BOOLEAN]

UsersGrow ==
  /\ users' \in Seq(RowsOfUsers)
  /\ Users \subseteq Users'
  /\ \A u \in Users : /\ users'[u].password = users[u].password
                      /\ users'[u].active => users[u].active

SessionsGrow ==
  /\ sessions' \in Seq([user : Users', revoked : BOOLEAN, expiresAt : Nat])
  /\ DOMAIN sessions \subseteq DOMAIN sessions'
  /\ \A tok \in DOMAIN sessions :
       /\ sessions'[tok].user = sessions[tok].user
       /\ sessions'[tok].expiresAt = sessions[tok].expiresAt
       /\ sessions[tok].revoked => sessions'[tok].revoked

Grows == UsersGrow /\ SessionsGrow /\ closed \subseteq closed' /\ clock <= clock'

RevokedInv == \A tok \in closed : sessions[tok].revoked

(* The thread s takes no step; its connection may be opened again.         *)
Same(s) ==
  /\ pc'[s] = pc[s] /\ request'[s] = request[s] /\ late'[s] = late[s]
  /\ token'[s] = token[s] /\ user'[s] = user[s] /\ answer'[s] = answer[s]
  /\ lastInsertId'[s] \in {lastInsertId[s], 0}

LEMMA RowFacts ==
  ASSUME TypeOK
  PROVE  /\ users \in Seq(RowsOfUsers) /\ Len(users) \in Nat /\ Users = 1..Len(users)
         /\ 0 \notin Users
         /\ \A u \in Users : /\ users[u] \in RowsOfUsers
                             /\ PasswordOf(u) \in Clients
         /\ Len(sessions) \in Nat /\ DOMAIN sessions = 1..Len(sessions)
         /\ 0 \notin DOMAIN sessions
         /\ \A tok \in DOMAIN sessions :
              /\ sessions[tok].user \in Users /\ sessions[tok].revoked \in BOOLEAN
              /\ sessions[tok].expiresAt \in Nat
<1>1. /\ users \in Seq(RowsOfUsers) /\ Len(users) \in Nat
      /\ \A u \in 1..Len(users) : users[u] \in RowsOfUsers
  <2>1. users \in Seq(RowsOfUsers)
    BY DEF TypeOK, RowsOfUsers
  <2> QED
    BY <2>1, LenProperties, ElementOfSeq
<1>2. Users = 1..Len(users) /\ 0 \notin Users
  BY <1>1 DEF Users
<1>3. \A u \in Users : users[u] \in RowsOfUsers /\ PasswordOf(u) \in Clients
  BY <1>1, <1>2 DEF RowsOfUsers, PasswordOf
<1> DEFINE Rows == [user : Users, revoked : BOOLEAN, expiresAt : Nat]
<1>4. sessions \in Seq(Rows)
  BY DEF TypeOK
<1>5. /\ Len(sessions) \in Nat /\ DOMAIN sessions = 1..Len(sessions)
      /\ \A tok \in 1..Len(sessions) : sessions[tok] \in Rows
  <2> HIDE DEF Rows
  <2> QED
    BY <1>4, LenProperties, ElementOfSeq
<1> QED
  BY <1>1, <1>2, <1>3, <1>5

LEMMA UsersSame ==
  ASSUME TypeOK, users' = users
  PROVE  UsersGrow /\ Users' = Users
BY RowFacts DEF UsersGrow, Users

LEMMA SessionsSame ==
  ASSUME TypeOK, UsersGrow, sessions' = sessions
  PROVE  SessionsGrow
<1> DEFINE Rows(U) == [user : U, revoked : BOOLEAN, expiresAt : Nat]
<1>1. sessions \in Seq(Rows(Users)) /\ Rows(Users) \subseteq Rows(Users')
  BY DEF TypeOK, UsersGrow
<1>2. sessions \in Seq(Rows(Users'))
  <2> HIDE DEF Rows
  <2> QED
    BY <1>1, SeqMonotonic
<1> QED
  BY <1>2 DEF SessionsGrow

(* INSERT INTO users.                                                      *)
LEMMA UserAppended ==
  ASSUME TypeOK, NEW t \in Threads, request[t] \in Requests,
         users' = Append(users, NewUser(t))
  PROVE  /\ UsersGrow
         /\ Len(users) + 1 \in Users'
         /\ users'[Len(users) + 1].password = request[t].client
<1> DEFINE new == NewUser(t)
<1>1. new \in RowsOfUsers /\ new.password = request[t].client
  BY AccountsAssumption DEF NewUser, RowsOfUsers
<1> HIDE DEF new
<1>2. users' = Append(users, new)
  BY DEF new
<1>3. /\ users' \in Seq(RowsOfUsers) /\ Len(users') = Len(users) + 1
      /\ \A u \in 1..Len(users) : users'[u] = users[u]
      /\ users'[Len(users) + 1] = new
  BY <1>1, <1>2, RowFacts, AppendProperties
<1>4. Users' = 1..Len(users) + 1
  BY <1>3 DEF Users
<1>5. UsersGrow
  BY <1>3, <1>4, RowFacts DEF UsersGrow
<1> QED
  BY <1>1, <1>3, <1>4, <1>5, RowFacts

(* What is over stays over, and whose it is.                               *)
LEMMA OverForGood ==
  ASSUME TypeOK, Grows, clock' \in Nat, NEW tok \in DOMAIN sessions
  PROVE  /\ Ended(tok) => Ended(tok)'
         /\ PasswordOf(sessions[tok].user)' = PasswordOf(sessions[tok].user)
         /\ \A u \in Users : PasswordOf(u)' = PasswordOf(u)
<1>1. /\ sessions[tok].user \in Users /\ sessions'[tok].user = sessions[tok].user
      /\ sessions'[tok].expiresAt = sessions[tok].expiresAt
      /\ sessions[tok].expiresAt \in Nat /\ clock \in Nat /\ clock <= clock'
  BY RowFacts, AdmittedFacts DEF Grows, SessionsGrow
<1>4. /\ nowEpochSeconds \in Nat /\ nowEpochSeconds' \in Nat
      /\ nowEpochSeconds <= nowEpochSeconds'
  BY <1>1, SecondsOf, SecondsPass DEF nowEpochSeconds
<1>2. \A u \in Users : /\ users'[u].password = users[u].password
                       /\ users'[u].active => users[u].active
  BY DEF Grows, UsersGrow
<1>3. closed \subseteq closed'
  BY DEF Grows
<1> QED
  BY <1>1, <1>2, <1>3, <1>4 DEF Ended, PasswordOf

LEMMA SameInv ==
  ASSUME Inv, Grows, clock' \in Nat, NEW s \in Threads, Same(s)
  PROVE  StageInv(s)' /\ OwnInv(s)'
<1>1. /\ token[s] \in DOMAIN sessions \cup {0} /\ user[s] \in Users \cup {0}
      /\ lastInsertId[s] \in Users \cup {0}
  BY DEF Inv, TypeOK
<1>2. PICK tok \in DOMAIN sessions \cup {0} : tok = token[s]
  BY <1>1
<1>3. PICK mine \in Users \cup {0} : mine = user[s]
  BY <1>1
<1>4. PICK made \in Users \cup {0} : made = lastInsertId[s]
  BY <1>1
<1>5. /\ pc'[s] = pc[s] /\ request'[s] = request[s] /\ late'[s] = late[s]
      /\ token'[s] = tok /\ user'[s] = mine /\ answer'[s] = answer[s]
      /\ lastInsertId'[s] \in {made, 0}
  BY <1>2, <1>3, <1>4 DEF Same
<1>6. tok # 0 => /\ Ended(tok) => Ended(tok)'
                 /\ PasswordOf(sessions[tok].user)' = PasswordOf(sessions[tok].user)
                 /\ sessions[tok].revoked => sessions'[tok].revoked
  BY <1>2, OverForGood DEF Inv, Grows, SessionsGrow
<1>7. \A u \in Users : PasswordOf(u)' = PasswordOf(u)
  BY DEF Grows, UsersGrow, PasswordOf
<1>8. StageInv(s)'
  BY <1>2, <1>3, <1>5, <1>6 DEF Inv, StageInv
<1>9. OwnInv(s)'
  BY <1>2, <1>3, <1>4, <1>5, <1>6, <1>7 DEF Inv, OwnInv
<1> QED
  BY <1>8, <1>9

LEMMA SharedKept ==
  ASSUME Inv, Grows, clock' \in Nat, UNCHANGED <<issued, links, closed>>
  PROVE  AccountsAreSeparate' /\ RevokedInv'
<1>1. RevokedInv'
  BY DEF Inv, TypeOK, Grows, SessionsGrow, RevokedInv
<1>2. ASSUME NEW c \in Clients, NEW tok \in issued[c]
      PROVE  PasswordOf(sessions[tok].user)' = c
  <2>1. tok \in DOMAIN sessions /\ PasswordOf(sessions[tok].user) = c
    BY DEF Inv, TypeOK, AccountsAreSeparate, PasswordOf
  <2> QED
    BY <2>1, OverForGood DEF Inv
<1>3. ASSUME NEW link \in links PROVE PasswordOf(link.owner)' = link.by
  <2>1. link.owner \in Users /\ PasswordOf(link.owner) = link.by
    BY DEF Inv, TypeOK, AccountsAreSeparate, PasswordOf
  <2> QED
    BY <2>1 DEF Grows, UsersGrow, PasswordOf
<1> QED
  BY <1>1, <1>2, <1>3 DEF AccountsAreSeparate, PasswordOf

(* A step of the thread t, on its own request.                             *)
LEMMA ThreadInv ==
  ASSUME Inv, TypeOK', Grows, UNCHANGED <<issued, links, closed>>, NEW t \in Threads,
         \A s \in Threads : s # t => Same(s),
         StageInv(t)', OwnInv(t)'
  PROVE  Inv'
<1>1. clock' \in Nat
  BY AccountsAssumption DEF TypeOK
<1>2. \A s \in Threads : StageInv(s)' /\ OwnInv(s)'
  BY <1>1, SameInv
<1>3. AccountsAreSeparate' /\ RevokedInv'
  BY <1>1, SharedKept
<1> QED
  BY <1>2, <1>3 DEF Inv, RevokedInv

(* A step that writes nothing to the tables.                               *)
LEMMA Reads ==
  ASSUME TypeOK, UNCHANGED <<users, sessions, closed, clock>>
  PROVE  Grows /\ Users' = Users
BY UsersSame, SessionsSame, AdmittedFacts DEF Grows

LEMMA ArriveInv ==
  ASSUME Inv, NEW t \in Threads, NEW wanted \in Requests, NEW tok \in 0..Len(sessions),
         Arrive(t, wanted, tok)
  PROVE  Inv'
<1>1. /\ tok \in {0} \cup issued[wanted.client]
      /\ wanted.kind \in {"register", "login"} => tok = 0
      /\ pc[t] = "idle" /\ requests \in 1..MaxRequests /\ requests' = requests - 1
      /\ UNCHANGED <<database, lastInsertId, limiter, clock, issued, user, answer,
                     closed, faults>>
  BY AccountsAssumption DEF Arrive, Inv, TypeOK
<1>2. /\ wanted.kind \in Kinds /\ wanted.client \in Clients /\ wanted # None
      /\ tok \in DOMAIN sessions \cup {0}
  BY <1>1, AccountsAssumption DEF Inv, TypeOK
<1>3. /\ pc' = [pc EXCEPT ![t] = FirstStage(wanted.kind)]
      /\ request' = [request EXCEPT ![t] = wanted]
      /\ token' = [token EXCEPT ![t] = tok]
      /\ late' = [late EXCEPT ![t] = tok # 0 /\ Ended(tok)]
  BY DEF Arrive, Goto
<1>4. /\ FirstStage(wanted.kind) \in Stages \ {"idle", "respond"}
      /\ wanted.kind \in StageKind[FirstStage(wanted.kind)]
      /\ FirstStage(wanted.kind) \notin {"select_user", "insert_session", "limit", "create"}
      /\ FirstStage(wanted.kind) \in {"insert_user", "find_user"} => tok = 0
  BY <1>1, <1>2 DEF FirstStage, Kinds, Stages, StageKind
<1>5. Grows /\ Users' = Users
  BY <1>1, Reads DEF Inv, database
<1>6. TypeOK'
  <2>1. /\ pc' \in [Threads -> Stages] /\ request' \in [Threads -> Requests \cup {None}]
        /\ token' \in [Threads -> DOMAIN sessions \cup {0}]
        /\ requests' \in 0..MaxRequests
    BY <1>1, <1>2, <1>3, <1>4, AccountsAssumption DEF Inv, TypeOK
  <2>2. late' \in [Threads -> BOOLEAN]
    <3>1. (tok # 0 /\ Ended(tok)) \in BOOLEAN
      OBVIOUS
    <3> QED
      BY <1>3, <3>1 DEF Inv, TypeOK
  <2> QED
    BY <1>1, <1>5, <2>1, <2>2 DEF Inv, TypeOK, database, limiter
<1>7. user'[t] = 0
  BY <1>1 DEF Inv, StageInv
<1>8. tok # 0 => PasswordOf(sessions[tok].user) = wanted.client
  BY <1>1, <1>2 DEF Inv, AccountsAreSeparate, PasswordOf
<1>9. /\ pc'[t] = FirstStage(wanted.kind) /\ request'[t] = wanted /\ token'[t] = tok
      /\ late'[t] = (tok # 0 /\ Ended(tok))
  BY <1>3 DEF Inv, TypeOK
<1>10. Ended(tok)' <=> Ended(tok)
  BY <1>1 DEF Ended, nowEpochSeconds, database
<1>11. StageInv(t)'
  BY <1>4, <1>7, <1>9, <1>10 DEF StageInv
<1>12. OwnInv(t)'
  BY <1>1, <1>4, <1>7, <1>8, <1>9 DEF OwnInv, PasswordOf, database
<1>13. \A s \in Threads : s # t => Same(s)
  BY <1>1, <1>3 DEF Inv, TypeOK, Same
<1> QED
  BY <1>1, <1>5, <1>6, <1>11, <1>12, <1>13, ThreadInv DEF database

LEMMA GotoFacts ==
  ASSUME TypeOK, NEW t \in Threads, NEW stage \in Stages, Goto(t, stage)
  PROVE  /\ pc' \in [Threads -> Stages] /\ pc'[t] = stage
         /\ \A s \in Threads : s # t => pc'[s] = pc[s]
BY DEF TypeOK, Goto

LEMMA AnswerFacts ==
  ASSUME TypeOK, NEW t \in Threads, NEW result \in Answers, Answer(t, result)
  PROVE  /\ pc' \in [Threads -> Stages] /\ pc'[t] = "respond"
         /\ answer' \in [Threads -> Answers] /\ answer'[t] = result
         /\ \A s \in Threads : s # t => pc'[s] = pc[s] /\ answer'[s] = answer[s]
BY DEF TypeOK, Goto, Answer, Stages

LEMMA FaultType ==
  ASSUME TypeOK, Fault \/ UNCHANGED faults
  PROVE  faults' \in 0..MaxFaults
BY AccountsAssumption DEF TypeOK, Fault

(* What a thread or a table refers to is still there.                      *)
LEMMA KeptType ==
  ASSUME TypeOK, Grows
  PROVE  /\ links \subseteq [owner : Users', by : Clients]
         /\ lastInsertId \in [Threads -> Users' \cup {0}]
         /\ user \in [Threads -> Users' \cup {0}]
         /\ issued \in [Clients -> SUBSET DOMAIN sessions']
         /\ token \in [Threads -> DOMAIN sessions' \cup {0}]
         /\ closed \subseteq DOMAIN sessions'
<1>1. Users \subseteq Users' /\ DOMAIN sessions \subseteq DOMAIN sessions'
  BY DEF Grows, UsersGrow, SessionsGrow
<1>2. links \subseteq [owner : Users', by : Clients]
  BY <1>1 DEF TypeOK
<1>3. /\ lastInsertId \in [Threads -> Users' \cup {0}]
      /\ user \in [Threads -> Users' \cup {0}]
  BY <1>1 DEF TypeOK
<1>4. /\ issued \in [Clients -> SUBSET DOMAIN sessions']
      /\ token \in [Threads -> DOMAIN sessions' \cup {0}]
      /\ closed \subseteq DOMAIN sessions'
  BY <1>1 DEF TypeOK
<1> QED
  BY <1>2, <1>3, <1>4

(* An answer but that of a new session.                                    *)
LEMMA AnswerLocal ==
  ASSUME Inv, NEW t \in Threads, NEW result \in Answers \ {"signed_in"},
         pc[t] # "idle", Answer(t, result),
         result = "done" /\ request[t].kind = "logout" /\ token[t] # 0 =>
           sessions'[token[t]].revoked,
         Grows, TypeOK',
         UNCHANGED <<work, token, user, lastInsertId>>
  PROVE  \A s \in Threads : StageInv(s)' /\ OwnInv(s)'
<1>1. /\ pc'[t] = "respond" /\ answer'[t] = result
      /\ \A s \in Threads : s # t => pc'[s] = pc[s] /\ answer'[s] = answer[s]
  BY AnswerFacts DEF Inv
<1>2. \A s \in Threads : s # t => Same(s)
  BY <1>1 DEF Same, work
<1>3. request[t] \in Requests /\ request[t].kind \in Kinds
  BY AccountsAssumption DEF Inv, StageInv
<1>4. /\ token[t] \in DOMAIN sessions \cup {0} /\ user[t] \in Users \cup {0}
      /\ clock' \in Nat
  BY AccountsAssumption DEF Inv, TypeOK
<1>5. PICK tok \in DOMAIN sessions \cup {0} : tok = token[t]
  BY <1>4
<1>6. PICK mine \in Users \cup {0} : mine = user[t]
  BY <1>4
<1>7. tok # 0 => /\ Ended(tok) => Ended(tok)'
                 /\ PasswordOf(sessions[tok].user)' = PasswordOf(sessions[tok].user)
  BY <1>4, OverForGood DEF Inv
<1>8. mine # 0 => PasswordOf(mine)' = PasswordOf(mine)
  BY DEF Grows, UsersGrow, PasswordOf
<1>9. StageInv(t)'
  BY <1>1, <1>3, <1>5, <1>6, <1>7 DEF Inv, StageInv, StageKind, work
<1>10. OwnInv(t)'
  BY <1>1, <1>5, <1>6, <1>7, <1>8 DEF Inv, OwnInv, work
<1> QED
  BY <1>2, <1>4, <1>9, <1>10, SameInv

LEMMA AnswerInv ==
  ASSUME Inv, NEW t \in Threads, NEW result \in Answers \ {"signed_in"},
         pc[t] # "idle", Answer(t, result),
         result = "done" /\ request[t].kind = "logout" /\ token[t] # 0 =>
           sessions'[token[t]].revoked,
         Grows, TypeOK',
         UNCHANGED <<work, token, user, lastInsertId, issued, links, closed>>
  PROVE  Inv'
<1>1. \A s \in Threads : StageInv(s)' /\ OwnInv(s)'
  BY AnswerLocal
<1>2. clock' \in Nat
  BY AccountsAssumption DEF TypeOK
<1> QED
  BY <1>1, <1>2, SharedKept DEF Inv, RevokedInv

(* An answer without a statement, or of one that did nothing.              *)
LEMMA RefuseInv ==
  ASSUME Inv, NEW t \in Threads, NEW result \in Answers \ {"signed_in", "done"},
         pc[t] # "idle", Answer(t, result), Fault \/ UNCHANGED faults,
         key' \in Counters, promises' \subseteq Nat,
         UNCHANGED <<database, lastInsertId, clock, issued, work, token, user, admitted,
                     closed, requests>>
  PROVE  Inv'
<1>1. Grows /\ Users' = Users
  BY Reads DEF Inv, database
<1>2. TypeOK'
  BY <1>1, AnswerFacts, FaultType DEF Inv, TypeOK, database, work, Counters
<1> QED
  BY <1>1, <1>2, AnswerInv DEF database

LEMMA StatementFailsInv ==
  ASSUME Inv, NEW t \in Threads, StatementFails(t)
  PROVE  Inv'
<1>1. key' \in Counters /\ promises' \subseteq Nat
  BY KeyFacts DEF StatementFails, Inv, TypeOK, limiter
<1> QED
  BY <1>1, RefuseInv DEF StatementFails, limiter, Answers

LEMMA InsertUserInv ==
  ASSUME Inv, NEW t \in Threads, InsertUser(t)
  PROVE  Inv'
<1>1. /\ pc[t] = "insert_user" /\ "conflict" \in Answers \ {"signed_in", "done"}
      /\ "failed" \in Answers /\ "select_user" \in Stages
      /\ request[t] \in Requests /\ request[t].kind = "register"
      /\ token[t] = 0 /\ ~late[t] /\ user[t] \in Users \cup {0}
      /\ UNCHANGED <<sessions, links, limiter, clock, issued, work, token, user,
                     closed, requests>>
  BY DEF InsertUser, Inv, TypeOK, StageInv, StageKind, Answers, Stages
<1>2. CASE NameTaken(NewUser(t).name)
  <2>1. key' \in Counters /\ promises' \subseteq Nat
    BY <1>1, KeyFacts DEF Inv, TypeOK, limiter
  <2> QED
    BY <1>1, <1>2, <2>1, RefuseInv DEF InsertUser, database, limiter
<1>3. CASE ~NameTaken(NewUser(t).name)
  <2>1. /\ users' = Append(users, NewUser(t))
        /\ lastInsertId' = [lastInsertId EXCEPT ![t] = Len(users) + 1]
    BY <1>3 DEF InsertUser
  <2>2. /\ UsersGrow /\ Len(users) + 1 \in Users'
        /\ users'[Len(users) + 1].password = request[t].client
    BY <1>1, <2>1, UserAppended DEF Inv
  <2>3. Grows
    BY <1>1, <2>2, SessionsSame, AdmittedFacts DEF Inv, Grows
  <2>4. PICK new \in Users' : new = Len(users) + 1
    BY <2>2
  <2>5. lastInsertId' \in [Threads -> Users' \cup {0}] /\ lastInsertId'[t] = new
    BY <2>1, <2>2, <2>3, <2>4, KeptType DEF Inv, TypeOK
  <2>6. /\ Fault \/ UNCHANGED faults
        /\ answer' \in [Threads -> Answers]
        /\ pc' \in [Threads -> Stages] /\ pc'[t] \in {"select_user", "respond"}
        /\ pc'[t] = "respond" => answer'[t] = "failed"
        /\ \A s \in Threads : s # t => pc'[s] = pc[s] /\ answer'[s] = answer[s]
    <3>1. CASE Goto(t, "select_user") /\ UNCHANGED <<answer, faults>>
      BY <1>1, <3>1, GotoFacts DEF Inv, TypeOK
    <3>2. CASE Answer(t, "failed") /\ Fault
      BY <1>1, <3>2, AnswerFacts DEF Inv
    <3> QED
      BY <1>3, <3>1, <3>2 DEF InsertUser
  <2>7. TypeOK'
    <3>1. users' \in Seq(RowsOfUsers) /\ sessions' \in
            Seq([user : Users', revoked : BOOLEAN, expiresAt : Nat])
      BY <2>3 DEF Grows, UsersGrow, SessionsGrow
    <3> QED
      BY <1>1, <2>3, <2>5, <2>6, <3>1, KeptType, FaultType
         DEF Inv, TypeOK, limiter, work, RowsOfUsers
  <2>8. \A s \in Threads : s # t => Same(s)
    BY <1>1, <2>1, <2>6 DEF Inv, TypeOK, Same, work
  <2>9. StageInv(t)'
    BY <1>1, <2>6 DEF StageInv, StageKind, Kinds, work
  <2>10. OwnInv(t)'
    <3>1. PICK mine \in Users \cup {0} : mine = user[t]
      BY <1>1
    <3>2. mine # 0 => /\ PasswordOf(mine)' = PasswordOf(mine)
                      /\ PasswordOf(mine) = request[t].client
      BY <2>2, <3>1 DEF UsersGrow, PasswordOf, Inv, OwnInv
    <3> QED
      BY <1>1, <2>2, <2>4, <2>5, <3>1, <3>2 DEF OwnInv, PasswordOf, work
  <2> QED
    BY <1>1, <2>3, <2>7, <2>8, <2>9, <2>10, ThreadInv
<1> QED
  BY <1>2, <1>3

LEMMA SelectUserInv ==
  ASSUME Inv, NEW t \in Threads, SelectUser(t)
  PROVE  Inv'
<1>1. /\ pc[t] = "select_user" /\ "failed" \in Answers \ {"signed_in", "done"}
      /\ "insert_session" \in Stages
      /\ request[t] \in Requests /\ request[t].kind = "register"
      /\ token[t] = 0 /\ ~late[t] /\ lastInsertId[t] \in Users \cup {0}
      /\ UNCHANGED <<database, lastInsertId, limiter, clock, issued, work, token,
                     closed, requests, faults>>
  BY DEF SelectUser, Inv, TypeOK, StageInv, StageKind, Answers, Stages
<1>2. CASE lastInsertId[t] = 0
  <2>1. key' \in Counters /\ promises' \subseteq Nat
    BY <1>1, KeyFacts DEF Inv, TypeOK, limiter
  <2> QED
    BY <1>1, <1>2, <2>1, RefuseInv DEF SelectUser, limiter
<1>3. CASE lastInsertId[t] # 0
  <2>1. PICK made \in Users : made = lastInsertId[t]
    BY <1>1, <1>3
  <2>2. /\ user' = [user EXCEPT ![t] = made]
        /\ Goto(t, "insert_session") /\ UNCHANGED answer
    BY <1>3, <2>1 DEF SelectUser
  <2>3. Grows /\ Users' = Users
    BY <1>1, Reads DEF Inv, database
  <2>4. /\ pc' \in [Threads -> Stages] /\ pc'[t] = "insert_session"
        /\ \A s \in Threads : s # t => pc'[s] = pc[s]
    BY <1>1, <2>2, GotoFacts DEF Inv
  <2>5. /\ user' \in [Threads -> Users \cup {0}] /\ user'[t] = made
        /\ \A s \in Threads : s # t => user'[s] = user[s]
    BY <2>2 DEF Inv, TypeOK
  <2>6. TypeOK'
    BY <1>1, <2>2, <2>3, <2>4, <2>5 DEF Inv, TypeOK, database, limiter, work
  <2>7. \A s \in Threads : s # t => Same(s)
    BY <1>1, <2>2, <2>4, <2>5 DEF Same, work
  <2>8. made # 0
    BY RowFacts DEF Inv
  <2>9. StageInv(t)'
    BY <1>1, <2>4, <2>5, <2>8 DEF StageInv, StageKind, work
  <2>10. OwnInv(t)'
    <3>1. PasswordOf(made) = request[t].client
      BY <1>1, <1>3, <2>1 DEF Inv, OwnInv
    <3>2. PasswordOf(made)' = PasswordOf(made)
      BY <1>1 DEF PasswordOf, database
    <3> QED
      BY <1>1, <2>4, <2>5, <3>1, <3>2 DEF OwnInv, work
  <2> QED
    BY <1>1, <2>3, <2>6, <2>7, <2>9, <2>10, ThreadInv DEF database
<1> QED
  BY <1>2, <1>3

LEMMA FindUserInv ==
  ASSUME Inv, NEW t \in Threads, FindUser(t)
  PROVE  Inv'
<1> DEFINE fits == {u \in Credentials(normalize[request[t].name]) :
                      users[u].active /\ users[u].password = request[t].client}
<1>1. /\ pc[t] = "find_user" /\ "denied" \in Answers \ {"signed_in", "done"}
      /\ "insert_session" \in Stages
      /\ request[t] \in Requests /\ request[t].kind = "login"
      /\ token[t] = 0 /\ ~late[t]
      /\ UNCHANGED <<database, lastInsertId, limiter, clock, issued, work, token,
                     closed, requests, faults>>
  BY DEF FindUser, Inv, TypeOK, StageInv, StageKind, Answers, Stages
<1>2. CASE fits = {}
  <2>1. key' \in Counters /\ promises' \subseteq Nat
    BY <1>1, KeyFacts DEF Inv, TypeOK, limiter
  <2> QED
    BY <1>1, <1>2, <2>1, RefuseInv DEF FindUser, limiter
<1>3. CASE fits # {}
  <2>1. PICK mine \in fits : user' = [user EXCEPT ![t] = mine]
    BY <1>3 DEF FindUser
  <2>2. mine \in Users /\ mine # 0 /\ PasswordOf(mine) = request[t].client
    BY RowFacts DEF Credentials, PasswordOf, Inv
  <2>3. Goto(t, "insert_session") /\ UNCHANGED answer
    BY <1>3 DEF FindUser
  <2>4. Grows /\ Users' = Users
    BY <1>1, Reads DEF Inv, database
  <2>5. /\ pc' \in [Threads -> Stages] /\ pc'[t] = "insert_session"
        /\ \A s \in Threads : s # t => pc'[s] = pc[s]
    BY <1>1, <2>3, GotoFacts DEF Inv
  <2>6. /\ user' \in [Threads -> Users \cup {0}] /\ user'[t] = mine
        /\ \A s \in Threads : s # t => user'[s] = user[s]
    BY <2>1, <2>2 DEF Inv, TypeOK
  <2>7. TypeOK'
    BY <1>1, <2>3, <2>4, <2>5, <2>6 DEF Inv, TypeOK, database, limiter, work
  <2>8. \A s \in Threads : s # t => Same(s)
    BY <1>1, <2>3, <2>5, <2>6 DEF Same, work
  <2> HIDE DEF fits
  <2>9. StageInv(t)'
    BY <1>1, <2>2, <2>5, <2>6 DEF StageInv, StageKind, work
  <2>10. OwnInv(t)'
    <3>1. PasswordOf(mine)' = PasswordOf(mine)
      BY <1>1 DEF PasswordOf, database
    <3> QED
      BY <1>1, <2>2, <2>5, <2>6, <3>1 DEF OwnInv, work
  <2> QED
    BY <1>1, <2>4, <2>7, <2>8, <2>9, <2>10, ThreadInv DEF database
<1> QED
  BY <1>2, <1>3

(* createSession's INSERT.                                                 *)
LEMMA SessionAppended ==
  ASSUME Inv, NEW t \in Threads, user[t] \in Users, users' = users,
         sessions' = Append(sessions, NewSession(t))
  PROVE  /\ SessionsGrow /\ Len(sessions) + 1 \in DOMAIN sessions'
         /\ sessions'[Len(sessions) + 1].user = user[t]
<1> DEFINE new == NewSession(t)
           Rows == [user : Users', revoked : BOOLEAN, expiresAt : Nat]
<1>1. new \in Rows /\ new.user = user[t]
  <2>1. nowEpochSeconds \in Nat
    BY AdmittedFacts, SecondsOf DEF nowEpochSeconds, Inv
  <2>2. nowEpochSeconds + SessionTtl \in Nat
    BY <2>1, AccountsAssumption
  <2> QED
    BY <2>2, UsersSame DEF NewSession, Inv
<1>2. sessions \in Seq(Rows) /\ sessions' = Append(sessions, new)
  BY UsersSame, SessionsSame DEF Inv, TypeOK
<1> HIDE DEF new, Rows
<1>3. /\ sessions' \in Seq(Rows) /\ Len(sessions') = Len(sessions) + 1
      /\ \A i \in 1..Len(sessions) : sessions'[i] = sessions[i]
      /\ sessions'[Len(sessions) + 1] = new
  BY <1>1, <1>2, AppendProperties
<1>4. DOMAIN sessions' = 1..Len(sessions) + 1 /\ Len(sessions) \in Nat
  BY <1>2, <1>3, LenProperties
<1>5. DOMAIN sessions = 1..Len(sessions)
  BY RowFacts DEF Inv
<1> QED
  BY <1>1, <1>3, <1>4, <1>5 DEF SessionsGrow, Rows

LEMMA InsertSessionInv ==
  ASSUME Inv, NEW t \in Threads, InsertSession(t)
  PROVE  Inv'
<1>1. /\ pc[t] = "insert_session" /\ {"signed_in", "failed"} \subseteq Answers
      /\ request[t] \in Requests /\ request[t].kind \in {"register", "login"}
      /\ ~late[t] /\ user[t] \in Users
      /\ sessions' = Append(sessions, NewSession(t))
      /\ token' = [token EXCEPT ![t] = Len(sessions) + 1]
      /\ UNCHANGED <<users, links, lastInsertId, limiter, clock, issued, work, user,
                     closed, requests>>
  BY DEF InsertSession, Inv, TypeOK, StageInv, StageKind, Answers
<1>2. /\ SessionsGrow /\ Len(sessions) + 1 \in DOMAIN sessions'
      /\ sessions'[Len(sessions) + 1].user = user[t]
      /\ Len(sessions) + 1 # 0
  BY <1>1, SessionAppended, RowFacts DEF Inv
<1>3. Grows /\ Users' = Users
  BY <1>1, <1>2, UsersSame, AdmittedFacts DEF Grows, Inv
<1>4. PICK new \in DOMAIN sessions' : new = Len(sessions) + 1
  BY <1>2
<1>5. /\ token' \in [Threads -> DOMAIN sessions' \cup {0}] /\ token'[t] = new
      /\ \A s \in Threads : s # t => token'[s] = token[s]
  BY <1>1, <1>2, <1>3, <1>4, KeptType DEF Inv, TypeOK
<1>6. /\ Fault \/ UNCHANGED faults
      /\ answer' \in [Threads -> Answers]
      /\ pc' \in [Threads -> Stages] /\ pc'[t] = "respond"
      /\ \A s \in Threads : s # t => pc'[s] = pc[s] /\ answer'[s] = answer[s]
  BY <1>1, AnswerFacts DEF InsertSession, AnswerOrFail, Inv
<1>7. TypeOK'
  <2>1. sessions' \in Seq([user : Users', revoked : BOOLEAN, expiresAt : Nat])
    BY <1>2 DEF SessionsGrow
  <2> QED
    BY <1>1, <1>3, <1>5, <1>6, <2>1, KeptType, FaultType DEF Inv, TypeOK, limiter, work
<1>8. \A s \in Threads : s # t => Same(s)
  BY <1>1, <1>5, <1>6 DEF Same, work
<1>9. StageInv(t)'
  BY <1>1, <1>2, <1>4, <1>5, <1>6 DEF StageInv, StageKind, Kinds, work
<1>10. OwnInv(t)'
  <2>1. PICK mine \in Users : mine = user[t]
    BY <1>1
  <2>2. mine # 0 /\ PasswordOf(mine) = request[t].client /\ PasswordOf(mine)' = PasswordOf(mine)
    BY <1>1, <2>1, RowFacts DEF Inv, OwnInv, PasswordOf
  <2> QED
    BY <1>1, <1>2, <1>4, <1>5, <1>6, <2>1, <2>2 DEF OwnInv, PasswordOf, work
<1> QED
  BY <1>1, <1>3, <1>7, <1>8, <1>9, <1>10, ThreadInv

LEMMA RevokeInv ==
  ASSUME Inv, NEW t \in Threads, Revoke(t)
  PROVE  Inv'
<1>1. /\ pc[t] = "revoke" /\ {"done", "failed"} \subseteq Answers \ {"signed_in"}
      /\ token[t] \in DOMAIN sessions \cup {0}
      /\ UNCHANGED <<users, links, lastInsertId, limiter, clock, issued, work, token,
                     user, closed, requests>>
  BY DEF Revoke, Inv, TypeOK, Answers
<1>2. PICK result \in {"done", "failed"} : Answer(t, result)
  BY DEF Revoke, AnswerOrFail
<1>3. Fault \/ UNCHANGED faults
  BY DEF Revoke, AnswerOrFail
<1>4. UsersGrow /\ Users' = Users
  BY <1>1, UsersSame DEF Inv
<1>5. SessionsGrow /\ (token[t] # 0 => sessions'[token[t]].revoked)
  <2>1. CASE token[t] = 0
    BY <1>4, <2>1, SessionsSame DEF Revoke, Inv
  <2>2. CASE token[t] # 0
    <3> DEFINE Rows == [user : Users, revoked : BOOLEAN, expiresAt : Nat]
               tok == token[t]
               ended == [sessions[tok] EXCEPT !.revoked = TRUE]
    <3>1. tok \in DOMAIN sessions /\ sessions \in Seq(Rows)
      BY <1>1, <2>2 DEF Inv, TypeOK
    <3>2. sessions[tok] \in Rows
      <4> HIDE DEF Rows
      <4> QED
        BY <3>1, RowFacts, ElementOfSeq DEF Inv
    <3>3. /\ ended \in Rows /\ ended.revoked
          /\ ended.user = sessions[tok].user /\ ended.expiresAt = sessions[tok].expiresAt
      BY <3>2
    <3>4. sessions' = [sessions EXCEPT ![tok] = ended]
      BY <2>2 DEF Revoke
    <3> HIDE DEF Rows, tok, ended
    <3>5. /\ sessions' \in Seq(Rows) /\ DOMAIN sessions' = DOMAIN sessions
          /\ sessions'[tok] = ended
          /\ \A i \in DOMAIN sessions : i # tok => sessions'[i] = sessions[i]
      BY <3>1, <3>3, <3>4, ExceptSeq, LenProperties
    <3> QED
      BY <1>4, <3>3, <3>5 DEF SessionsGrow, Rows, tok
  <2> QED
    BY <2>1, <2>2
<1>6. Grows
  BY <1>1, <1>4, <1>5, AdmittedFacts DEF Grows, Inv
<1>7. TypeOK'
  <2>1. sessions' \in Seq([user : Users', revoked : BOOLEAN, expiresAt : Nat])
    BY <1>5 DEF SessionsGrow
  <2>2. pc' \in [Threads -> Stages] /\ answer' \in [Threads -> Answers]
    BY <1>1, <1>2, AnswerFacts DEF Inv
  <2> QED
    BY <1>1, <1>3, <1>4, <1>6, <2>1, <2>2, KeptType, FaultType DEF Inv, TypeOK, limiter, work
<1> QED
  BY <1>1, <1>2, <1>5, <1>6, <1>7, AnswerInv

LEMMA AuthenticateInv ==
  ASSUME Inv, NEW t \in Threads, Authenticate(t)
  PROVE  Inv'
<1>1. /\ pc[t] = "authenticate" /\ "denied" \in Answers \ {"signed_in", "done"}
      /\ "limit" \in Stages
      /\ request[t] \in Requests /\ request[t].kind = "create"
      /\ token[t] \in DOMAIN sessions \cup {0}
      /\ UNCHANGED <<database, lastInsertId, limiter, clock, issued, work, token,
                     closed, requests, faults>>
  BY DEF Authenticate, Inv, TypeOK, StageInv, StageKind, Answers, Stages
<1>2. CASE ~Lives(token[t])
  <2>1. key' \in Counters /\ promises' \subseteq Nat
    BY <1>1, KeyFacts DEF Inv, TypeOK, limiter
  <2> QED
    BY <1>1, <1>2, <2>1, RefuseInv DEF Authenticate, limiter
<1>3. CASE Lives(token[t])
  <2>1. PICK tok \in DOMAIN sessions : tok = token[t]
    BY <1>1, <1>3 DEF Lives
  <2>2. PICK mine \in Users : mine = sessions[tok].user
    BY RowFacts DEF Inv
  <2>3. /\ user' = [user EXCEPT ![t] = mine] /\ Goto(t, "limit") /\ UNCHANGED answer
    BY <1>3, <2>1, <2>2 DEF Authenticate
  <2>4. mine # 0 /\ tok # 0
    BY RowFacts DEF Inv
  <2>5. ~late[t]
    <3>1. ~Ended(tok)
      <4>1. /\ ~sessions[tok].revoked /\ nowEpochSeconds < sessions[tok].expiresAt
            /\ users[sessions[tok].user].active
        BY <1>3, <2>1 DEF Lives
      <4>2. nowEpochSeconds \in Nat /\ sessions[tok].expiresAt \in Nat
        BY RowFacts, AdmittedFacts, SecondsOf DEF nowEpochSeconds, Inv
      <4> QED
        BY <4>1, <4>2 DEF Ended, Inv
    <3> QED
      BY <2>1, <3>1 DEF Inv, StageInv
  <2>6. Grows /\ Users' = Users
    BY <1>1, Reads DEF Inv, database
  <2>7. /\ pc' \in [Threads -> Stages] /\ pc'[t] = "limit"
        /\ \A s \in Threads : s # t => pc'[s] = pc[s]
    BY <1>1, <2>3, GotoFacts DEF Inv
  <2>8. /\ user' \in [Threads -> Users \cup {0}] /\ user'[t] = mine
        /\ \A s \in Threads : s # t => user'[s] = user[s]
    BY <2>3 DEF Inv, TypeOK
  <2>9. TypeOK'
    BY <1>1, <2>3, <2>6, <2>7, <2>8 DEF Inv, TypeOK, database, limiter, work
  <2>10. \A s \in Threads : s # t => Same(s)
    BY <1>1, <2>3, <2>7, <2>8 DEF Same, work
  <2>11. StageInv(t)'
    BY <1>1, <2>4, <2>5, <2>7, <2>8 DEF StageInv, StageKind, work
  <2>12. OwnInv(t)'
    <3>1. PasswordOf(mine) = request[t].client
      BY <2>1, <2>2, <2>4 DEF Inv, OwnInv
    <3> QED
      BY <1>1, <2>1, <2>2, <2>7, <2>8, <3>1 DEF OwnInv, PasswordOf, work, database
  <2> QED
    BY <1>1, <2>6, <2>9, <2>10, <2>11, <2>12, ThreadInv DEF database
<1> QED
  BY <1>2, <1>3

(* A create that is let through to the repository.                         *)
LEMMA LetThroughInv ==
  ASSUME Inv, NEW t \in Threads, pc[t] = "limit", Goto(t, "create"),
         Fault \/ UNCHANGED faults,
         key' \in Counters, promises' \subseteq Nat, admitted' \in Seq(0..MaxTime),
         UNCHANGED <<database, lastInsertId, clock, issued, work, token, user, answer,
                     closed, requests>>
  PROVE  Inv'
<1>1. /\ "create" \in Stages /\ request[t] \in Requests /\ request[t].kind = "create"
      /\ user[t] # 0 /\ user[t] \in Users \cup {0} /\ token[t] \in DOMAIN sessions \cup {0}
  BY DEF Inv, TypeOK, StageInv, StageKind, Stages
<1>2. Grows /\ Users' = Users
  BY Reads DEF Inv, database
<1>3. /\ pc' \in [Threads -> Stages] /\ pc'[t] = "create"
      /\ \A s \in Threads : s # t => pc'[s] = pc[s]
  BY <1>1, GotoFacts DEF Inv
<1>4. TypeOK'
  BY <1>2, <1>3, FaultType DEF Inv, TypeOK, database, work, Counters
<1>5. \A s \in Threads : s # t => Same(s)
  BY <1>3 DEF Same, work
<1>6. StageInv(t)'
  BY <1>1, <1>3 DEF Inv, StageInv, StageKind, work
<1>7. OwnInv(t)'
  BY <1>1, <1>3 DEF Inv, OwnInv, PasswordOf, work, database
<1> QED
  BY <1>2, <1>4, <1>5, <1>6, <1>7, ThreadInv DEF database

LEMMA CheckRateInv ==
  ASSUME Inv, NEW t \in Threads, CheckRate(t)
  PROVE  Inv'
<1>1. /\ pc[t] = "limit" /\ "limited" \in Answers \ {"signed_in", "done"}
      /\ key' = Counted(key, clock)
      /\ UNCHANGED <<database, lastInsertId, clock, issued, work, token, user, closed,
                     requests, faults>>
  BY DEF CheckRate, Count, Answers
<1>2. key' \in Counters
  BY <1>1, KeyFacts, AdmittedFacts, CountedType DEF Inv
<1>3. promises' \subseteq Nat
  <2>1. clock \in Nat /\ promises \subseteq Nat
    BY AdmittedFacts DEF Inv, TypeOK
  <2>2. RetryAfter(key', clock) \in Nat
    BY <1>2, <2>1, RetryAfterType
  <2>3. promises' \subseteq promises \cup {clock + RetryAfter(key', clock) * Second}
    BY DEF CheckRate, Count
  <2>4. clock + RetryAfter(key', clock) * Second \in Nat
    BY <2>1, <2>2 DEF Second
  <2> QED
    BY <2>1, <2>3, <2>4
<1>4. CASE Allowed(key')
  <2>1. admitted' \in Seq(0..MaxTime)
    BY <1>4, AppendFacts DEF CheckRate, Inv
  <2> QED
    BY <1>1, <1>2, <1>3, <1>4, <2>1, LetThroughInv DEF CheckRate
<1>5. CASE ~Allowed(key')
  BY <1>1, <1>2, <1>3, <1>5, RefuseInv DEF CheckRate
<1> QED
  BY <1>4, <1>5

LEMMA CheckRateFailsInv ==
  ASSUME Inv, NEW t \in Threads, CheckRateFails(t)
  PROVE  Inv'
<1>1. key' \in Counters /\ promises' \subseteq Nat
  <2>1. key \in Counters /\ clock \in Nat
    BY KeyFacts, AdmittedFacts DEF Inv
  <2>2. Counted(key, clock) \in Counters /\ promises \subseteq Nat
    BY <2>1, CountedType DEF Inv, TypeOK
  <2> QED
    BY <2>1, <2>2 DEF CheckRateFails
<1>2. admitted' \in Seq(0..MaxTime)
  BY DEF CheckRateFails, Inv, TypeOK
<1> QED
  BY <1>1, <1>2, LetThroughInv DEF CheckRateFails

LEMMA CreateLinkInv ==
  ASSUME Inv, NEW t \in Threads, CreateLink(t)
  PROVE  Inv'
<1>1. /\ pc[t] = "create" /\ {"done", "failed"} \subseteq Answers \ {"signed_in"}
      /\ request[t] \in Requests /\ request[t].kind = "create"
      /\ UNCHANGED <<users, sessions, lastInsertId, limiter, clock, issued, work, token,
                     user, closed, requests>>
  BY DEF CreateLink, Inv, StageInv, StageKind, Answers
<1>2. PICK mine \in Users : mine = user[t]
  BY <1>1 DEF Inv, TypeOK, StageInv
<1>3. PasswordOf(mine) = request[t].client /\ request[t].client \in Clients
  BY <1>1, <1>2, RowFacts, AccountsAssumption DEF Inv, OwnInv
<1>4. links' = links \cup {[owner |-> mine, by |-> request[t].client]}
  BY <1>2 DEF CreateLink
<1>5. PICK result \in {"done", "failed"} : Answer(t, result)
  BY DEF CreateLink, AnswerOrFail
<1>6. Fault \/ UNCHANGED faults
  BY DEF CreateLink, AnswerOrFail
<1>7. Grows /\ Users' = Users
  BY <1>1, Reads DEF Inv
<1>8. TypeOK'
  <2>1. pc' \in [Threads -> Stages] /\ answer' \in [Threads -> Answers]
    BY <1>1, <1>5, AnswerFacts DEF Inv
  <2>2. links' \subseteq [owner : Users, by : Clients]
    BY <1>3, <1>4 DEF Inv, TypeOK
  <2> QED
    BY <1>1, <1>6, <1>7, <2>1, <2>2, FaultType DEF Inv, TypeOK, limiter, work
<1>9. \A s \in Threads : StageInv(s)' /\ OwnInv(s)'
  BY <1>1, <1>5, <1>7, <1>8, AnswerLocal
<1>10. AccountsAreSeparate'
  <2>1. \A link \in links' : users[link.owner].password = link.by
    BY <1>3, <1>4 DEF Inv, AccountsAreSeparate, PasswordOf
  <2> QED
    BY <1>1, <2>1 DEF Inv, AccountsAreSeparate
<1> QED
  BY <1>1, <1>8, <1>9, <1>10 DEF Inv

-----------------------------------------------------------------------------
(* A step of nobody's request.                                             *)
LEMMA EnvironmentInv ==
  ASSUME Inv, TypeOK', Grows, UNCHANGED <<issued, links, closed>>,
         \A s \in Threads : Same(s)
  PROVE  Inv'
<1>1. clock' \in Nat
  BY AccountsAssumption DEF TypeOK
<1> QED
  BY <1>1, SameInv, SharedKept DEF Inv, RevokedInv

LEMMA ReconnectInv ==
  ASSUME Inv, NEW t \in Threads, Reconnect(t)
  PROVE  Inv'
<1>1. /\ lastInsertId' = [lastInsertId EXCEPT ![t] = 0] /\ Fault
      /\ UNCHANGED <<database, limiter, clock, issued, pc, work, token, user, answer,
                     closed, requests>>
  BY DEF Reconnect
<1>2. Grows /\ Users' = Users
  BY <1>1, Reads DEF Inv, database
<1>3. TypeOK'
  BY <1>1, <1>2, FaultType DEF Inv, TypeOK, database, limiter, work
<1>4. \A s \in Threads : Same(s)
  BY <1>1 DEF Inv, TypeOK, Same, work
<1> QED
  BY <1>1, <1>2, <1>3, <1>4, EnvironmentInv DEF database

LEMMA DisableInv ==
  ASSUME Inv, NEW u \in Users, Disable(u)
  PROVE  Inv'
<1> DEFINE disabled == [users[u] EXCEPT !.active = FALSE]
<1>1. /\ users' = [users EXCEPT ![u] = disabled] /\ Fault
      /\ UNCHANGED <<sessions, links, lastInsertId, limiter, clock, issued, pc, work,
                     token, user, answer, closed, requests>>
  BY DEF Disable
<1>2. /\ users \in Seq(RowsOfUsers) /\ Users = 1..Len(users)
      /\ disabled \in RowsOfUsers /\ ~disabled.active
      /\ disabled.password = users[u].password
  BY RowFacts DEF RowsOfUsers, Inv
<1> HIDE DEF disabled
<1>3. /\ users' \in Seq(RowsOfUsers) /\ Len(users') = Len(users)
      /\ \A i \in 1..Len(users) : users'[i] = IF i = u THEN disabled ELSE users[i]
  BY <1>1, <1>2, ExceptSeq
<1>4. Users' = Users
  BY <1>2, <1>3 DEF Users
<1>5. UsersGrow
  BY <1>2, <1>3, <1>4 DEF UsersGrow
<1>6. Grows
  BY <1>1, <1>5, SessionsSame, AdmittedFacts DEF Grows, Inv
<1>7. TypeOK'
  <2>1. users' \in Seq([name : Names, password : Clients, active : BOOLEAN])
    BY <1>3 DEF RowsOfUsers
  <2>2. sessions' \in Seq([user : Users', revoked : BOOLEAN, expiresAt : Nat])
    BY <1>6 DEF Grows, SessionsGrow
  <2> QED
    BY <1>1, <1>4, <2>1, <2>2, FaultType DEF Inv, TypeOK, limiter, work
<1>8. \A s \in Threads : Same(s)
  BY <1>1 DEF Same, work
<1> QED
  BY <1>1, <1>6, <1>7, <1>8, EnvironmentInv

LEMMA TickInv ==
  ASSUME Inv, Tick
  PROVE  Inv'
<1>1. /\ clock \in 0..MaxTime /\ clock' <= MaxTime
      /\ \E pause \in Pauses : clock' = clock + pause
      /\ UNCHANGED <<database, lastInsertId, limiter, issued, pc, work, token, user,
                     answer, closed, requests, faults>>
  BY DEF Tick, Inv, TypeOK
<1>2. Users' = Users /\ UsersGrow /\ SessionsGrow
  BY <1>1, UsersSame, SessionsSame DEF database, Inv
<1>3. clock' \in 0..MaxTime /\ clock <= clock'
  BY <1>1, AccountsAssumption
<1>4. TypeOK'
  BY <1>1, <1>2, <1>3 DEF Inv, TypeOK, database, limiter, work
<1>5. \A s \in Threads : Same(s)
  BY <1>1 DEF Same, work
<1> QED
  BY <1>1, <1>2, <1>3, <1>4, <1>5, EnvironmentInv DEF Grows, database

LEMMA RespondInv ==
  ASSUME Inv, NEW t \in Threads, Respond(t)
  PROVE  Inv'
<1>1. /\ pc[t] = "respond" /\ "idle" \in Stages /\ "none" \in Answers
      /\ request[t] \in Requests /\ request[t].client \in Clients
      /\ token[t] \in DOMAIN sessions \cup {0}
      /\ Goto(t, "idle")
      /\ request' = [request EXCEPT ![t] = None]
      /\ token' = [token EXCEPT ![t] = 0]
      /\ user' = [user EXCEPT ![t] = 0]
      /\ answer' = [answer EXCEPT ![t] = "none"]
      /\ late' = [late EXCEPT ![t] = FALSE]
      /\ UNCHANGED <<database, lastInsertId, limiter, clock, requests, faults>>
  BY AccountsAssumption DEF Respond, Inv, TypeOK, StageInv, Stages, Answers
<1>2. PICK tok \in DOMAIN sessions \cup {0} : tok = token[t]
  BY <1>1
<1>3. /\ closed \subseteq closed' /\ closed' \subseteq closed \cup ({tok} \ {0})
      /\ closed' \subseteq DOMAIN sessions
      /\ tok \in closed' => tok \in closed \/ sessions[tok].revoked
  BY <1>1, <1>2 DEF Respond, ClearSessionCookie, Inv, StageInv, TypeOK
<1>4. Grows /\ Users' = Users
  BY <1>1, <1>3, UsersSame, SessionsSame, AdmittedFacts DEF Grows, Inv, database
<1>5. /\ pc' \in [Threads -> Stages] /\ pc'[t] = "idle"
      /\ \A s \in Threads : s # t => pc'[s] = pc[s]
  BY <1>1, GotoFacts DEF Inv
<1>6. /\ answer[t] = "signed_in" =>
           /\ tok # 0 /\ users[sessions[tok].user].password = request[t].client
           /\ issued' = [issued EXCEPT ![request[t].client] = @ \cup {tok}]
      /\ answer[t] # "signed_in" => issued' = issued
  BY <1>1, <1>2 DEF Respond, SetSessionCookie, Inv, StageInv, OwnInv, PasswordOf
<1>7. issued' \in [Clients -> SUBSET DOMAIN sessions]
  <2>1. issued \in [Clients -> SUBSET DOMAIN sessions]
    BY DEF Inv, TypeOK
  <2>2. CASE answer[t] = "signed_in"
    <3>1. PICK c \in Clients : c = request[t].client
      BY <1>1
    <3>2. issued[c] \cup {tok} \in SUBSET DOMAIN sessions
      BY <1>2, <1>6, <2>1, <2>2
    <3> QED
      BY <1>6, <2>1, <2>2, <3>1, <3>2
  <2> QED
    BY <1>6, <2>1, <2>2
<1>8. TypeOK'
  <2>1. /\ request' \in [Threads -> Requests \cup {None}]
        /\ token' \in [Threads -> DOMAIN sessions \cup {0}]
        /\ user' \in [Threads -> Users \cup {0}]
        /\ answer' \in [Threads -> Answers] /\ late' \in [Threads -> BOOLEAN]
    BY <1>1 DEF Inv, TypeOK
  <2> QED
    BY <1>1, <1>3, <1>4, <1>5, <1>7, <2>1 DEF Inv, TypeOK, database, limiter
<1>9. \A s \in Threads : StageInv(s)' /\ OwnInv(s)'
  <2>1. \A s \in Threads : s # t => Same(s)
    BY <1>1, <1>5 DEF Inv, TypeOK, Same
  <2>2. clock' \in Nat
    BY <1>1, AdmittedFacts DEF Inv
  <2>3. /\ request'[t] = None /\ token'[t] = 0 /\ user'[t] = 0 /\ ~late'[t]
    BY <1>1 DEF Inv, TypeOK
  <2>4. StageInv(t)' /\ OwnInv(t)'
    BY <1>5, <2>3 DEF StageInv, OwnInv
  <2> QED
    BY <1>4, <2>1, <2>2, <2>4, SameInv
<1>10. AccountsAreSeparate'
  <2>1. \A c \in Clients : \A tk \in issued'[c] : users[sessions[tk].user].password = c
    <3>1. \A c \in Clients : \A tk \in issued[c] : users[sessions[tk].user].password = c
      BY DEF Inv, AccountsAreSeparate
    <3>2. PICK mine \in Clients : mine = request[t].client
      BY <1>1
    <3>3. issued \in [Clients -> SUBSET DOMAIN sessions]
      BY DEF Inv, TypeOK
    <3>4. ASSUME NEW c \in Clients, NEW tk \in issued'[c]
          PROVE  tk \in issued[c] \/ (answer[t] = "signed_in" /\ c = mine /\ tk = tok)
      <4>1. CASE answer[t] = "signed_in"
        BY <1>6, <3>2, <3>3, <3>4, <4>1
      <4>2. CASE answer[t] # "signed_in"
        BY <1>6, <3>4, <4>2
      <4> QED
        BY <4>1, <4>2
    <3> QED
      BY <1>6, <3>1, <3>2, <3>4
  <2> QED
    BY <1>1, <2>1 DEF Inv, AccountsAreSeparate, database
<1>11. RevokedInv'
  BY <1>1, <1>3 DEF Inv, RevokedInv, database
<1> QED
  BY <1>8, <1>9, <1>10, <1>11 DEF Inv, RevokedInv

-----------------------------------------------------------------------------
LEMMA InitInv == Init => Inv
<1> SUFFICES ASSUME Init PROVE Inv
  OBVIOUS
<1>1. TypeOK
  <2>1. users \in Seq([name : Names, password : Clients, active : BOOLEAN])
    BY EmptySeq DEF Init
  <2>2. sessions \in Seq([user : Users, revoked : BOOLEAN, expiresAt : Nat])
    BY EmptySeq DEF Init
  <2>3. admitted \in Seq(0..MaxTime)
    BY EmptySeq DEF Init
  <2>4. key \in [count : Nat, deadline : Nat] /\ clock \in 0..MaxTime
    BY AccountsAssumption, LimiterFacts DEF Init, NoCounter, NoTtl
  <2>5. requests \in 0..MaxRequests /\ faults \in 0..MaxFaults
    BY AccountsAssumption DEF Init
  <2>6. /\ pc \in [Threads -> Stages] /\ request \in [Threads -> Requests \cup {None}]
        /\ answer \in [Threads -> Answers]
    BY DEF Init, Stages, Answers
  <2>7. /\ token \in [Threads -> DOMAIN sessions \cup {0}]
        /\ user \in [Threads -> Users \cup {0}] /\ lastInsertId \in [Threads -> Users \cup {0}]
        /\ late \in [Threads -> BOOLEAN] /\ issued \in [Clients -> SUBSET DOMAIN sessions]
    BY DEF Init
  <2>8. links = {} /\ closed = {} /\ promises = {}
    BY DEF Init
  <2> QED
    BY <2>1, <2>2, <2>3, <2>4, <2>5, <2>6, <2>7, <2>8 DEF TypeOK
<1>2. \A t \in Threads : StageInv(t) /\ OwnInv(t)
  BY DEF Init, StageInv, OwnInv
<1> QED
  BY <1>1, <1>2 DEF Init, Inv, AccountsAreSeparate

LEMMA StutterInv ==
  ASSUME Inv, UNCHANGED vars
  PROVE  Inv'
<1>1. /\ Grows /\ Users' = Users
  BY Reads DEF Inv, vars, database
<1>2. TypeOK'
  BY <1>1 DEF Inv, TypeOK, vars, database, limiter, work
<1>3. \A s \in Threads : Same(s)
  BY DEF Same, vars, work
<1> QED
  BY <1>1, <1>2, <1>3, EnvironmentInv DEF vars, database

LEMMA StepInv ==
  ASSUME Inv, [Next]_vars
  PROVE  Inv'
<1>1. ASSUME NEW t \in Threads, NEW wanted \in Requests, NEW tok \in 0..Len(sessions),
             Arrive(t, wanted, tok)
      PROVE  Inv'
  BY <1>1, ArriveInv
<1>2. ASSUME NEW t \in Threads,
             \/ InsertUser(t) \/ SelectUser(t) \/ FindUser(t)
             \/ InsertSession(t) \/ Revoke(t)
      PROVE  Inv'
  BY <1>2, InsertUserInv, SelectUserInv, FindUserInv, InsertSessionInv, RevokeInv
<1>3. ASSUME NEW t \in Threads,
             Authenticate(t) \/ CheckRate(t) \/ CheckRateFails(t) \/ CreateLink(t)
      PROVE  Inv'
  BY <1>3, AuthenticateInv, CheckRateInv, CheckRateFailsInv, CreateLinkInv
<1>4. ASSUME NEW t \in Threads, StatementFails(t) \/ Reconnect(t) \/ Respond(t)
      PROVE  Inv'
  BY <1>4, StatementFailsInv, ReconnectInv, RespondInv
<1>5. ASSUME NEW u \in Users, Disable(u) PROVE Inv'
  BY <1>5, DisableInv
<1>6. CASE Tick
  BY <1>6, TickInv
<1>7. CASE UNCHANGED vars
  BY <1>7, StutterInv
<1> QED
  BY <1>1, <1>2, <1>3, <1>4, <1>5, <1>6, <1>7 DEF Next

(***************************************************************************)
(* At every stage of a request a handler of AuthHttp or handleCreate holds *)
(* only what is the client's who sent it: the row LAST_INSERT_ID() names,  *)
(* the account it found and the session of the cookie.                     *)
(***************************************************************************)
THEOREM InvAlways == Spec => []Inv
<1>1. Inv /\ [Next]_vars => Inv'
  BY StepInv
<1> QED
  BY InitInv, <1>1, PTL DEF Spec

(* The tables of AuthService, the counter in Redis and what every handler  *)
(* holds keep to their types: foreign keys refer to rows that are there.   *)
THEOREM TypeCorrect == Spec => []TypeOK
<1>1. Inv => TypeOK
  BY DEF Inv
<1> QED
  BY InvAlways, <1>1, PTL

(***************************************************************************)
(* createUser and login hand a client no session of another's account, and *)
(* create files no link under one: for any number of threads whose pooled  *)
(* connections are lost and opened again between INSERT and                *)
(* LAST_INSERT_ID(), any spellings of names, and any statement failing.    *)
(***************************************************************************)
THEOREM AccountsAlwaysSeparate == Spec => []AccountsAreSeparate
<1>1. Inv => AccountsAreSeparate
  BY DEF Inv
<1> QED
  BY InvAlways, <1>1, PTL

(***************************************************************************)
(* findUserBySession lets nothing through that arrives when its session    *)
(* has expired, was answered a logout or lost its user: however logouts,   *)
(* logins and creates of the same session overlap.                         *)
(***************************************************************************)
THEOREM EndedSessionsStayDead == Spec => []EndedSessionsAreDead
<1>1. Inv => EndedSessionsAreDead
  BY DEF Inv, StageInv, EndedSessionsAreDead
<1> QED
  BY InvAlways, <1>1, PTL

(***************************************************************************)
(* The windows the script of RedisFixedWindowRateLimiter opens follow one  *)
(* another: since the last began it has admitted at most Limit creates,    *)
(* and all but Limit - 1 of those before were over a window earlier.       *)
(***************************************************************************)
THEOREM LimitingAlways == Spec => []Limiting
<1>1. TypeOK /\ Limiting /\ [Next]_vars => Limiting'
  BY StepLimiting
<1> QED
  BY InitLimiting, TypeCorrect, <1>1, PTL DEF Spec

(***************************************************************************)
(* The script of RedisFixedWindowRateLimiter never admits 2 * Limit        *)
(* creates within less than a window, for any limit and window: also where *)
(* a counter was left without a TTL, and where Redis counted a request     *)
(* whose answer was lost.                                                  *)
(***************************************************************************)
THEOREM NeverABurst == Spec => []NoBurst
<1>1. Limiting => NoBurst
  BY DEF Limiting
<1> QED
  BY LimitingAlways, <1>1, PTL

(* The Retry-After of a 429 holds to half a second, what TTL rounds off:   *)
(* requests that are counted meanwhile do not put off the end of the       *)
(* window that the script announced.                                       *)
THEOREM WindowAlwaysEndsAsTold == Spec => []WindowEndsAsTold
<1>1. Limiting => WindowEndsAsTold
  BY DEF Limiting
<1> QED
  BY LimitingAlways, <1>1, PTL
=============================================================================
