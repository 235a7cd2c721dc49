------------------------ MODULE ShortLinkCacheProofs ------------------------
(***************************************************************************)
(* Proofs about the cached short link, for every TTL, every number of      *)
(* requests and every bound.                                               *)
(***************************************************************************)
EXTENDS ShortLinkCache, TLAPS

Requests == Readers \cup Updaters

(* Facts about the constants.                                              *)
LEMMA Limits ==
  /\ Ttl \in Nat \ {0}
  /\ MaxDelay \in Nat /\ MaxVersions \in Nat /\ MaxFaults \in Nat
BY CacheAssumption DEF Ttl

LEMMA FaultType ==
  ASSUME TypeOK, Fault
  PROVE  faults' \in 0..MaxFaults
BY Limits DEF TypeOK, Fault

(* What the row was at a time that has passed no write can change.         *)
LEMMA CurrentStays ==
  ASSUME Inv,
         history' \in Seq(Row),
         Len(history) <= Len(history'),
         \A v \in 1..Len(history) : history'[v] = history[v],
         \A v \in 1..Len(history') : v > Len(history) => history'[v].since = clock,
         NEW v, NEW t \in Nat, t <= clock, Current(v, t)
  PROVE  Current(v, t)'
<1>1. clock \in Nat /\ Len(history) \in Nat /\ Len(history') \in Nat
  BY DEF Inv, TypeOK
<1>2. v \in 0..Len(history')
  BY <1>1 DEF Current
<1>3. ASSUME v > 0 PROVE history'[v].since <= t
  BY <1>1, <1>3 DEF Current
<1>4. ASSUME v < Len(history') PROVE t <= history'[v + 1].since
  <2>1. CASE v < Len(history)
    <3>1. v + 1 \in 1..Len(history)
      BY <1>1, <2>1 DEF Current
    <3> QED
      BY <2>1, <3>1 DEF Current
  <2>2. CASE v = Len(history)
    <3>1. v + 1 \in 1..Len(history') /\ v + 1 > Len(history)
      BY <1>1, <1>4, <2>2
    <3> QED
      BY <3>1
  <2> QED
    BY <1>1, <2>1, <2>2 DEF Current
<1> QED
  BY <1>2, <1>3, <1>4 DEF Current

(* When a link is over, it stays so.                                       *)
LEMMA Expiry ==
  ASSUME NEW row \in Row, NEW t \in Nat
  PROVE  /\ row.expiresAt = Never \/ row.expiresAt \in Nat
         /\ ~isExpired(row, t) => row.expiresAt = Never \/ t < row.expiresAt
         /\ \A u \in Nat : isExpired(row, u) /\ u <= t => isExpired(row, t)
<1>1. row.expiresAt = Never \/ row.expiresAt \in Nat
  BY CacheAssumption DEF Row
<1> QED
  BY <1>1 DEF isExpired

(* A link that is active and alive was so from the moment it was read.     *)
LEMMA AliveBefore ==
  ASSUME Inv, NEW v \in Versions, NEW t \in Nat, t <= clock, Current(v, t),
         Outcome(v, clock) = "success"
  PROVE  Outcome(v, t) = "success"
<1>1. v > 0 /\ history[v] \in Row /\ clock \in Nat
  BY DEF Inv, TypeOK, Current, Versions, Outcome
<1>2. history[v].status # "disabled" /\ ~isExpired(history[v], clock)
  BY DEF Outcome
<1>3. ~isExpired(history[v], t)
  BY <1>1, <1>2, Expiry
<1> QED
  BY <1>1, <1>2, <1>3 DEF Outcome

-----------------------------------------------------------------------------
(***************************************************************************)
(* A step of one lookup: what is left to show is what it does to the       *)
(* record in its hand and to the cache entry.                              *)
(***************************************************************************)
LEMMA LookupStep ==
  ASSUME Inv, NEW r \in Readers, NEW stage \in ReaderStages \cup {"idle"},
         UNCHANGED <<clock, history, target, missed>>,
         Goto(r, stage),
         \A q \in Requests : began'[q] = began[q] \/ q = r,
         \A s \in Readers : s # r => hand'[s] = hand[s] /\ answer'[s] = answer[s],
         began' \in [Requests -> Nat],
         hand' \in [Readers -> Hand],
         answer' \in [Readers -> Results \cup {None}],
         cache' \in Entry \cup {None},
         faults' \in 0..MaxFaults,
         stage = "set" => hand'[r].ttl > 0,
         RequestInv(r)', LookupInv(r)', EntryInv',
         cache' # cache /\ cache' # None => cache'.filled = Len(history)
  PROVE  Inv'
<1>1. TypeOK'
  BY DEF Inv, TypeOK, Goto, Requests
<1>2. HistoryInv'
  BY DEF Inv, HistoryInv
<1>3. \A q \in Requests : RequestInv(q)'
  BY DEF Inv, TypeOK, RequestInv, Goto, Requests
<1>4. ASSUME NEW s \in Readers PROVE LookupInv(s)'
  <2>1. CASE s = r
    BY <2>1
  <2>2. CASE s # r
    <3>1. LookupInv(s)
      BY DEF Inv
    <3>2. pc'[s] = pc[s] /\ began'[s] = began[s] /\ hand'[s] = hand[s]
          /\ answer'[s] = answer[s]
      BY <2>2 DEF Inv, TypeOK, Goto, Requests
    <3>3. ASSUME Current(hand[s].version, hand[s].asOf)
          PROVE  Current(hand[s].version, hand[s].asOf)'
      BY <3>2, <3>3 DEF Current
    <3>4. Outcome(hand[s].version, hand[s].asOf)'
            = Outcome(hand[s].version, hand[s].asOf)
      BY <3>2 DEF Outcome, isExpired
    <3> QED
      BY <3>1, <3>2, <3>3, <3>4 DEF LookupInv
  <2> QED
    BY <2>1, <2>2
<1>5. \A u \in Updaters : pc'[u] = pc[u]
  BY CacheAssumption DEF Inv, TypeOK, Goto
<1>6. \A u \in Updaters : UpdateInv(u)'
  BY <1>5 DEF Inv, UpdateInv
<1>7. UpdatesInvalidate'
  <2>1. CASE cache' = cache
    BY <2>1, <1>5 DEF Inv, UpdatesInvalidate
  <2>2. CASE cache' # cache
    BY <2>2 DEF UpdatesInvalidate
  <2> QED
    BY <2>1, <2>2
<1> QED
  BY <1>1, <1>2, <1>3, <1>4, <1>6, <1>7 DEF Inv, Requests

(* A lookup that moves on with its record, its age and the cache as before.*)
LEMMA EntryStays ==
  ASSUME Inv, UNCHANGED <<clock, history>>, cache' \in {cache, None}
  PROVE  EntryInv' /\ cache' \in Entry \cup {None}
BY DEF Inv, TypeOK, EntryInv, Current

(* Before it decides, a lookup has no answer.                              *)
LEMMA Undecided ==
  ASSUME Inv, NEW r \in Readers, pc[r] # "respond"
  PROVE  answer[r] = None
BY DEF Inv, LookupInv

(* A lookup that holds no record.                                          *)
LEMMA HoldsNothing ==
  ASSUME NEW r \in Readers, answer'[r] = None,
         pc'[r] \in {"idle", "get", "discard", "find"}
  PROVE  LookupInv(r)'
BY CacheAssumption DEF LookupInv, ReaderStages, FillStages, Results

(* A lookup that moves on with its record, its age and the cache as before.*)
LEMMA HoldsRecord ==
  ASSUME Inv, NEW r \in Readers, UNCHANGED <<clock, history, began, answer>>,
         pc[r] \in FillStages \cup {"decide"},
         pc'[r] \in FillStages \cup {"decide"},
         pc'[r] \in FillStages => pc[r] \in FillStages,
         hand'[r].version = hand[r].version, hand'[r].asOf = hand[r].asOf
  PROVE  LookupInv(r)'
<1>1. LookupInv(r) /\ answer[r] = None
  BY Undecided DEF Inv, FillStages
<1>2. answer'[r] = None /\ None # "success"
  BY <1>1, CacheAssumption DEF Results
<1>3. ASSUME Current(hand[r].version, hand[r].asOf)
      PROVE  Current(hand[r].version, hand[r].asOf)'
  BY <1>3 DEF Current
<1> QED
  BY <1>1, <1>2, <1>3 DEF LookupInv, FillStages, ReaderStages

(* The request is under way for as long as it was.                         *)
LEMMA RequestStays ==
  ASSUME Inv, NEW q \in Requests, UNCHANGED <<clock, began>>, pc[q] # "idle"
  PROVE  RequestInv(q)'
BY DEF Inv, RequestInv, Requests

LEMMA AskInv ==
  ASSUME Inv, NEW r \in Readers, Ask(r)
  PROVE  Inv'
<1>1. EntryInv' /\ cache' \in Entry \cup {None}
  BY EntryStays DEF Ask
<1>2. began'[r] = clock /\ pc'[r] = "get"
  BY DEF Ask, Goto, Inv, TypeOK
<1>3. RequestInv(r)'
  BY <1>2, Limits DEF Ask, RequestInv, Inv, TypeOK
<1>4. LookupInv(r)'
  BY <1>2, Undecided, HoldsNothing DEF Ask
<1> QED
  BY <1>1, <1>3, <1>4, LookupStep
     DEF Ask, Inv, TypeOK, Requests, ReaderStages

LEMMA CacheGetInv ==
  ASSUME Inv, NEW r \in Readers, CacheGet(r)
  PROVE  Inv'
<1>1. EntryInv' /\ cache' \in Entry \cup {None}
  BY EntryStays DEF CacheGet
<1>2. RequestInv(r)'
  BY RequestStays DEF CacheGet, Requests
<1>3. answer[r] = None
  BY Undecided DEF CacheGet
<1>4. CASE cache = None \/ cache.version = 0
  <2>1. PICK stage \in {"find", "discard"} : Goto(r, stage) /\ hand' = hand
    BY <1>4 DEF CacheGet
  <2>2. LookupInv(r)'
    BY <1>3, <2>1, HoldsNothing DEF CacheGet, Goto, Inv, TypeOK
  <2> QED
    BY <1>1, <1>2, <2>1, <2>2, LookupStep
       DEF CacheGet, Inv, TypeOK, Requests, ReaderStages
<1>5. CASE cache # None /\ cache.version # 0
  <2>1. cache \in Entry /\ cache.version > 0
    BY <1>5 DEF Inv, TypeOK, Entry, Versions
  <2>2. /\ Goto(r, "decide")
        /\ hand' = [hand EXCEPT ![r] = [version |-> cache.version,
                                        asOf |-> cache.asOf, ttl |-> 0]]
    BY <1>5 DEF CacheGet
  <2>3. pc'[r] = "decide" /\ hand'[r].version = cache.version
        /\ hand'[r].asOf = cache.asOf
    BY <2>2 DEF Goto, Inv, TypeOK
  <2>4. hand' \in [Readers -> Hand]
    BY <2>1, <2>2, Limits DEF Inv, TypeOK, Hand, Entry
  <2>5. began[r] <= cache.asOf + Ttl + MaxDelay
    <3>1. began[r] <= clock /\ clock < cache.deadline
          /\ cache.deadline <= cache.asOf + MaxDelay + Ttl
      BY <1>5, <2>1 DEF Inv, RequestInv, EntryInv, CacheGet
    <3> QED
      BY <2>1, <3>1, Limits DEF Inv, TypeOK, Entry
  <2>6. LookupInv(r)'
    <3>1. Current(cache.version, cache.asOf) /\ cache.asOf <= clock
      BY <1>5, <2>1 DEF Inv, EntryInv
    <3>2. Current(hand[r].version, hand[r].asOf)'
      BY <2>3, <3>1 DEF Current, CacheGet
    <3>3. answer'[r] = None /\ None # "success"
      BY <1>3, CacheAssumption DEF CacheGet, Results
    <3> QED
      BY <2>3, <2>5, <3>1, <3>2, <3>3
         DEF CacheGet, LookupInv, ReaderStages, FillStages
  <2> QED
    BY <1>1, <1>2, <2>2, <2>4, <2>6, LookupStep
       DEF CacheGet, Inv, TypeOK, Requests, ReaderStages
<1> QED
  BY <1>4, <1>5

LEMMA CacheGetFailsInv ==
  ASSUME Inv, NEW r \in Readers, CacheGetFails(r)
  PROVE  Inv'
<1>1. EntryInv' /\ cache' \in Entry \cup {None}
  BY EntryStays DEF CacheGetFails
<1>2. RequestInv(r)'
  BY RequestStays DEF CacheGetFails, Requests
<1>3. LookupInv(r)'
  BY Undecided, HoldsNothing DEF CacheGetFails, Goto, Inv, TypeOK
<1>4. faults' \in 0..MaxFaults
  BY FaultType DEF CacheGetFails, Inv
<1> QED
  BY <1>1, <1>2, <1>3, <1>4, LookupStep
     DEF CacheGetFails, Inv, TypeOK, Requests, ReaderStages

LEMMA DiscardEntryInv ==
  ASSUME Inv, NEW r \in Readers, DiscardEntry(r)
  PROVE  Inv'
<1>1. EntryInv' /\ cache' \in Entry \cup {None}
  BY EntryStays DEF DiscardEntry
<1>2. RequestInv(r)'
  BY RequestStays DEF DiscardEntry, Requests
<1>3. LookupInv(r)'
  BY Undecided, HoldsNothing DEF DiscardEntry, Goto, Inv, TypeOK
<1> QED
  BY <1>1, <1>2, <1>3, LookupStep
     DEF DiscardEntry, Inv, TypeOK, Requests, ReaderStages

LEMMA FindByCodeInv ==
  ASSUME Inv, NEW r \in Readers, FindByCode(r)
  PROVE  Inv'
<1>1. EntryInv' /\ cache' \in Entry \cup {None}
  BY EntryStays DEF FindByCode
<1>2. RequestInv(r)'
  BY RequestStays DEF FindByCode, Requests
<1>3. PICK stage \in {"decide", "ttl"} :
        Goto(r, stage) /\ (stage = "ttl" => history # <<>>)
  BY DEF FindByCode
<1>4. hand' \in [Readers -> Hand]
  BY Limits DEF FindByCode, Inv, TypeOK, Hand, Versions
<1>5. /\ pc'[r] \in {"decide", "ttl"}
      /\ pc'[r] = "ttl" => Len(history) > 0
      /\ hand'[r].version = Len(history) /\ hand'[r].asOf = clock
  BY <1>3 DEF FindByCode, Goto, Inv, TypeOK
<1>6. LookupInv(r)'
  <2>1. answer'[r] = None /\ None # "success"
    BY Undecided, CacheAssumption DEF FindByCode, Results
  <2>2. Current(Len(history), clock)
    BY DEF Inv, TypeOK, HistoryInv, Current
  <2>3. Current(hand[r].version, hand[r].asOf)'
    BY <1>5, <2>2 DEF FindByCode, Current
  <2>4. began'[r] <= clock /\ clock <= clock + Ttl + MaxDelay /\ clock \in Nat
        /\ began'[r] \in Nat
    BY Limits DEF FindByCode, Inv, TypeOK, RequestInv
  <2> QED
    BY <1>5, <2>1, <2>3, <2>4, Limits
       DEF FindByCode, LookupInv, ReaderStages, FillStages
<1> QED
  BY <1>1, <1>2, <1>3, <1>4, <1>6, LookupStep
     DEF FindByCode, Inv, TypeOK, Requests, ReaderStages

LEMMA FindFailsInv ==
  ASSUME Inv, NEW r \in Readers, FindFails(r)
  PROVE  Inv'
<1>1. EntryInv' /\ cache' \in Entry \cup {None}
  BY EntryStays DEF FindFails
<1>2. pc'[r] = "idle"
  BY DEF FindFails, Finish, Goto, Inv, TypeOK
<1>3. RequestInv(r)' /\ LookupInv(r)'
  BY <1>2, Undecided, HoldsNothing DEF FindFails, RequestInv
<1>4. faults' \in 0..MaxFaults
  BY FaultType DEF FindFails, Inv
<1> QED
  BY <1>1, <1>3, <1>4, LookupStep
     DEF FindFails, Finish, Inv, TypeOK, Requests, ReaderStages

(* The TTL a fill computes is positive and no longer than the configured.  *)
LEMMA ComputeTtlInv ==
  ASSUME Inv, NEW r \in Readers, ComputeTtl(r)
  PROVE  Inv'
<1>1. EntryInv' /\ cache' \in Entry \cup {None}
  BY EntryStays DEF ComputeTtl
<1>2. RequestInv(r)'
  BY RequestStays DEF ComputeTtl, Requests
<1> DEFINE row == history[hand[r].version]
<1>3. row \in Row
  BY DEF ComputeTtl, Inv, TypeOK, LookupInv, FillStages, Current, Hand, Versions
<1>4. CASE isExpired(row, clock)
  <2>1. Goto(r, "drop") /\ hand' = hand
    BY <1>4 DEF ComputeTtl
  <2>2. LookupInv(r)'
    BY <2>1, HoldsRecord DEF ComputeTtl, Goto, Inv, TypeOK, FillStages
  <2> QED
    BY <1>1, <1>2, <2>1, <2>2, LookupStep
       DEF ComputeTtl, Inv, TypeOK, Requests, ReaderStages
<1>5. CASE ~isExpired(row, clock)
  <2> DEFINE ttl == IF row.expiresAt = Never THEN Ttl
                    ELSE Lesser(Ttl, row.expiresAt - clock)
  <2>1. Goto(r, "set") /\ hand' = [hand EXCEPT ![r].ttl = ttl]
    BY <1>5 DEF ComputeTtl
  <2>2. ttl \in 1..Ttl
    <3>1. clock \in Nat
      BY DEF Inv, TypeOK
    <3> HIDE DEF row
    <3>2. row.expiresAt # Never => row.expiresAt \in Nat /\ clock < row.expiresAt
      BY <1>3, <1>5, <3>1, Expiry
    <3>3. CASE row.expiresAt = Never
      BY <3>3, Limits
    <3>4. CASE row.expiresAt # Never
      <4>1. row.expiresAt - clock \in Nat \ {0}
        BY <3>1, <3>2, <3>4
      <4> QED
        BY <3>4, <4>1, Limits DEF Lesser
    <3> QED
      BY <3>3, <3>4
  <2>3. ttl \in 0..Ttl /\ ttl > 0
    BY <2>2, Limits
  <2> HIDE DEF ttl
  <2>4. hand' \in [Readers -> Hand] /\ hand'[r].ttl > 0
    BY <2>1, <2>3 DEF Inv, TypeOK, Hand
  <2>5. hand'[r].version = hand[r].version /\ hand'[r].asOf = hand[r].asOf
        /\ \A s \in Readers : s # r => hand'[s] = hand[s]
    BY <2>1 DEF Inv, TypeOK, Hand
  <2>6. LookupInv(r)'
    BY <2>1, <2>5, HoldsRecord DEF ComputeTtl, Goto, Inv, TypeOK, FillStages
  <2> QED
    BY <1>1, <1>2, <2>1, <2>4, <2>5, <2>6, LookupStep
       DEF ComputeTtl, Inv, TypeOK, Requests, ReaderStages
<1> QED
  BY <1>4, <1>5

(* The entry ends at most one TTL after the fill, whose record is fresh.   *)
LEMMA SetEntryInv ==
  ASSUME Inv, NEW r \in Readers, SetEntry(r)
  PROVE  Inv'
<1>1. pc[r] = "set" /\ clock \in Nat /\ hand[r] \in Hand /\ began[r] \in Nat
      /\ Len(history) \in Versions
  BY DEF SetEntry, Inv, TypeOK, Versions
<1>2. RequestInv(r)'
  BY RequestStays DEF SetEntry, Requests
<1>3. LookupInv(r)'
  BY HoldsRecord DEF SetEntry, Goto, Inv, TypeOK, FillStages
<1>4. cache' \in Entry /\ cache'.filled = Len(history)
  BY <1>1, Limits DEF SetEntry, Entry, Hand
<1>5. EntryInv'
  <2>1. /\ hand[r].ttl > 0 /\ hand[r].ttl <= Ttl
        /\ hand[r].asOf <= clock
        /\ Current(hand[r].version, hand[r].asOf)
        /\ began[r] <= hand[r].asOf /\ clock <= began[r] + MaxDelay
    BY <1>1, Limits DEF Inv, TypeOK, Hand, LookupInv, FillStages, RequestInv
  <2>2. cache'.deadline = clock + hand[r].ttl /\ cache'.version = hand[r].version
        /\ cache'.asOf = hand[r].asOf
    BY DEF SetEntry
  <2>3. clock < clock + hand[r].ttl
        /\ clock + hand[r].ttl <= hand[r].asOf + MaxDelay + Ttl
    BY <1>1, <2>1, Limits DEF Hand
  <2>4. Current(hand[r].version, hand[r].asOf) => Current(cache.version, cache.asOf)'
    BY <2>2 DEF SetEntry, Current
  <2> QED
    BY <2>1, <2>2, <2>3, <2>4 DEF EntryInv, SetEntry
<1> QED
  BY <1>2, <1>3, <1>4, <1>5, LookupStep
     DEF SetEntry, Inv, TypeOK, Requests, ReaderStages

LEMMA DropExpiredInv ==
  ASSUME Inv, NEW r \in Readers, DropExpired(r)
  PROVE  Inv'
<1>1. EntryInv' /\ cache' \in Entry \cup {None}
  BY EntryStays DEF DropExpired
<1>2. RequestInv(r)'
  BY RequestStays DEF DropExpired, Requests
<1>3. LookupInv(r)'
  BY HoldsRecord DEF DropExpired, Goto, Inv, TypeOK, FillStages
<1> QED
  BY <1>1, <1>2, <1>3, LookupStep
     DEF DropExpired, Inv, TypeOK, Requests, ReaderStages

LEMMA CacheWriteFailsInv ==
  ASSUME Inv, NEW r \in Readers, CacheWriteFails(r)
  PROVE  Inv'
<1>1. EntryInv' /\ cache' \in Entry \cup {None}
  BY EntryStays DEF CacheWriteFails
<1>2. RequestInv(r)'
  BY RequestStays DEF CacheWriteFails, Requests
<1>3. PICK stage \in {"find", "decide"} :
        Goto(r, stage) /\ (stage = "decide" => pc[r] \in FillStages)
  BY DEF CacheWriteFails, FillStages
<1>4. LookupInv(r)'
  <2>1. pc'[r] = "find" \/ (pc'[r] = "decide" /\ pc[r] \in FillStages)
    BY <1>3 DEF Goto, Inv, TypeOK
  <2>2. CASE pc'[r] = "find"
    BY <2>2, Undecided, HoldsNothing DEF CacheWriteFails
  <2>3. CASE pc'[r] = "decide" /\ pc[r] \in FillStages
    BY <2>3, HoldsRecord DEF CacheWriteFails, FillStages
  <2> QED
    BY <2>1, <2>2, <2>3
<1>5. faults' \in 0..MaxFaults
  BY FaultType DEF CacheWriteFails, Inv
<1> QED
  BY <1>1, <1>2, <1>3, <1>4, <1>5, LookupStep
     DEF CacheWriteFails, Inv, TypeOK, Requests, ReaderStages

LEMMA ResolveInv ==
  ASSUME Inv, NEW r \in Readers, Resolve(r)
  PROVE  Inv'
<1>1. EntryInv' /\ cache' \in Entry \cup {None}
  BY EntryStays DEF Resolve
<1>2. RequestInv(r)'
  BY RequestStays DEF Resolve, Requests
<1> DEFINE result == Outcome(hand[r].version, clock)
<1>3. result \in Results
  BY DEF Outcome, Results
<1>4. pc'[r] = "respond" /\ answer'[r] = result
  BY DEF Resolve, Goto, Inv, TypeOK
<1>5. LookupInv(r)'
  <2>1. LookupInv(r) /\ pc[r] = "decide"
    BY DEF Inv, Resolve
  <2>2. Current(hand[r].version, hand[r].asOf)'
    BY <2>1 DEF LookupInv, Resolve, Current
  <2>3. result = "success" =>
          Outcome(hand[r].version, hand[r].asOf)' = "success"
    <3>1. result = "success" => Outcome(hand[r].version, hand[r].asOf) = "success"
      <4>1. hand[r].version \in Versions /\ hand[r].asOf \in Nat
        BY DEF Inv, TypeOK, Hand
      <4> QED
        BY <2>1, <4>1, AliveBefore DEF LookupInv
    <3> QED
      BY <3>1 DEF Resolve, Outcome, isExpired
  <2> QED
    BY <1>4, <2>1, <2>2, <2>3
       DEF LookupInv, Resolve, ReaderStages, FillStages
<1> QED
  BY <1>1, <1>2, <1>3, <1>5, LookupStep
     DEF Resolve, Inv, TypeOK, Requests, ReaderStages

LEMMA RespondInv ==
  ASSUME Inv, NEW r \in Readers, Respond(r)
  PROVE  Inv'
<1>1. EntryInv' /\ cache' \in Entry \cup {None}
  BY EntryStays DEF Respond
<1>2. pc'[r] = "idle" /\ answer'[r] = None
  BY DEF Respond, Finish, Goto, Inv, TypeOK
<1>3. RequestInv(r)' /\ LookupInv(r)'
  BY <1>2, HoldsNothing DEF RequestInv
<1>4. NoHand \in Hand
  BY Limits DEF NoHand, Hand, Versions
<1> QED
  BY <1>1, <1>3, <1>4, LookupStep
     DEF Respond, Finish, Inv, TypeOK, Requests, ReaderStages

LEMMA LookupInvariance ==
  ASSUME Inv, NEW r \in Readers, Lookup(r)
  PROVE  Inv'
BY AskInv, CacheGetInv, CacheGetFailsInv, DiscardEntryInv, FindByCodeInv,
   FindFailsInv, ComputeTtlInv, SetEntryInv, DropExpiredInv, CacheWriteFailsInv,
   ResolveInv, RespondInv
   DEF Lookup

-----------------------------------------------------------------------------
(***************************************************************************)
(* A step that no lookup takes: of time, of Redis, or of a write.          *)
(***************************************************************************)
LEMMA LookupStays ==
  ASSUME Inv, NEW r \in Readers, clock' \in Nat, clock <= clock',
         history' \in Seq(Row),
         Len(history) <= Len(history'),
         \A v \in 1..Len(history) : history'[v] = history[v],
         \A v \in 1..Len(history') : v > Len(history) => history'[v].since = clock,
         UNCHANGED <<hand, answer>>,
         pc'[r] = pc[r], began'[r] = began[r]
  PROVE  LookupInv(r)'
<1>1. LookupInv(r) /\ hand[r].version \in Versions /\ hand[r].asOf \in Nat
  BY DEF Inv, TypeOK, Hand
<1>2. ASSUME hand[r].asOf <= clock, Current(hand[r].version, hand[r].asOf)
      PROVE  /\ hand[r].asOf <= clock'
             /\ Current(hand[r].version, hand[r].asOf)'
             /\ Outcome(hand[r].version, hand[r].asOf)'
                  = Outcome(hand[r].version, hand[r].asOf)
  <2>1. hand[r].asOf <= clock'
    BY <1>1, <1>2 DEF Inv, TypeOK
  <2>2. Current(hand[r].version, hand[r].asOf)'
    BY <1>1, <1>2, CurrentStays DEF Current
  <2>3. hand[r].version > 0 => history'[hand[r].version] = history[hand[r].version]
    BY <1>1, <1>2 DEF Current, Inv, TypeOK
  <2>4. Outcome(hand[r].version, hand[r].asOf)'
          = Outcome(hand[r].version, hand[r].asOf)
    BY <1>1, <2>3 DEF Outcome, isExpired, Versions
  <2> QED
    BY <2>1, <2>2, <2>4
<1>3. answer[r] = "success" => pc[r] = "respond"
  BY <1>1, CacheAssumption DEF LookupInv, Results
<1> QED
  BY <1>1, <1>2, <1>3 DEF LookupInv

LEMMA EntryKept ==
  ASSUME Inv, UNCHANGED clock,
         history' \in Seq(Row),
         Len(history) <= Len(history'),
         \A v \in 1..Len(history) : history'[v] = history[v],
         \A v \in 1..Len(history') : v > Len(history) => history'[v].since = clock,
         cache' \in {cache, None}
  PROVE  EntryInv'
<1>1. CASE cache' = None
  BY <1>1 DEF EntryInv
<1>2. CASE cache' = cache /\ cache # None /\ cache.version > 0
  <2>1. cache \in Entry /\ EntryInv
    BY <1>2 DEF Inv, TypeOK
  <2>2. cache.asOf <= clock /\ Current(cache.version, cache.asOf)
    BY <1>2, <2>1 DEF EntryInv
  <2>3. Current(cache.version, cache.asOf)'
    BY <1>2, <2>1, <2>2, CurrentStays DEF Current, Entry
  <2> QED
    BY <1>2, <2>1, <2>3 DEF EntryInv
<1>3. CASE cache' = cache /\ cache # None /\ ~(cache.version > 0)
  BY <1>3 DEF Inv, EntryInv
<1> QED
  BY <1>1, <1>2, <1>3

LEMMA TickInv ==
  ASSUME Inv, Tick
  PROVE  Inv'
<1>1. clock \in Nat /\ clock' = clock + 1 /\ clock' \in Nat
  BY DEF Inv, TypeOK, Tick
<1>2. cache' \in {cache, None} /\ (cache' # None => clock' < cache.deadline)
  <2>1. cache # None => cache.deadline \in Nat
    BY DEF Inv, TypeOK, Entry
  <2> QED
    BY <1>1, <2>1 DEF Tick
<1>3. TypeOK'
  BY <1>1, <1>2 DEF Inv, TypeOK, Tick
<1>4. HistoryInv'
  <2>1. ASSUME NEW v \in 1..Len(history) PROVE history[v].since <= clock'
    <3>1. history[v].since \in Nat
      <4>1. history \in Seq(Row)
        BY DEF Inv, TypeOK
      <4>2. history[v] \in Row
        BY <4>1
      <4> QED
        BY <4>2 DEF Row
    <3>2. history[v].since <= clock
      BY DEF Inv, HistoryInv
    <3> QED
      BY <1>1, <3>1, <3>2
  <2> QED
    BY <2>1 DEF HistoryInv, Tick
<1>5. ASSUME NEW q \in Requests PROVE RequestInv(q)'
  BY <1>1, Limits DEF Inv, TypeOK, RequestInv, Tick, Requests
<1>6. ASSUME NEW r \in Readers PROVE LookupInv(r)'
  BY <1>1, LookupStays DEF Inv, TypeOK, Tick
<1>7. ASSUME NEW u \in Updaters PROVE UpdateInv(u)'
  BY DEF Inv, UpdateInv, Tick
<1>8. EntryInv'
  <2>1. CASE cache' = None
    BY <2>1 DEF EntryInv
  <2>2. CASE cache' # None
    <3>1. cache' = cache /\ cache \in Entry
      BY <1>2, <2>2 DEF Inv, TypeOK
    <3>2. Current(cache.version, cache.asOf) => Current(cache.version, cache.asOf)'
      BY <3>1 DEF Tick, Current
    <3>3. cache.asOf <= clock => cache.asOf <= clock'
      BY <1>1, <3>1 DEF Entry
    <3> QED
      BY <1>2, <2>2, <3>1, <3>2, <3>3 DEF Inv, EntryInv
  <2> QED
    BY <2>1, <2>2
<1>9. UpdatesInvalidate'
  BY <1>2 DEF Inv, UpdatesInvalidate, Tick
<1> QED
  BY <1>3, <1>4, <1>5, <1>6, <1>7, <1>8, <1>9 DEF Inv, Requests

LEMMA EvictInv ==
  ASSUME Inv, Evict
  PROVE  Inv'
<1>1. faults' \in 0..MaxFaults
  BY FaultType DEF Inv, Evict
<1>2. TypeOK'
  BY <1>1 DEF Inv, TypeOK, Evict
<1>3. HistoryInv' /\ EntryInv' /\ UpdatesInvalidate'
  BY DEF Inv, HistoryInv, EntryInv, UpdatesInvalidate, Evict
<1>4. ASSUME NEW q \in Requests PROVE RequestInv(q)'
  BY DEF Inv, RequestInv, Evict, Requests
<1>5. ASSUME NEW r \in Readers PROVE LookupInv(r)'
  BY LookupStays DEF Inv, TypeOK, Evict
<1>6. ASSUME NEW u \in Updaters PROVE UpdateInv(u)'
  BY DEF Inv, UpdateInv, Evict
<1> QED
  BY <1>2, <1>3, <1>4, <1>5, <1>6 DEF Inv, Requests

-----------------------------------------------------------------------------
(***************************************************************************)
(* A step of one update, or a create: what is left to show is what it does *)
(* to the request that takes it and to the promise of an invalidation.     *)
(***************************************************************************)
Extends ==
  /\ history' \in Seq(Row) /\ Len(history') \in Versions
  /\ Len(history) <= Len(history')
  /\ \A v \in 1..Len(history) : history'[v] = history[v]
  /\ \A v \in 1..Len(history') : v > Len(history) => history'[v].since = clock

(* A write appends its row to the history.                                 *)
LEMMA WriteAppends ==
  ASSUME Inv, NEW row \in Row, row.since = clock, Len(history) < MaxVersions,
         history' = Append(history, row)
  PROVE  Extends /\ Len(history) \in Nat /\ Len(history') = Len(history) + 1
<1>1. history \in Seq(Row) /\ clock \in Nat
  BY DEF Inv, TypeOK
<1>2. /\ history' \in Seq(Row) /\ Len(history') = Len(history) + 1
      /\ Len(history) \in Nat
      /\ \A v \in 1..Len(history) : history'[v] = history[v]
      /\ \A v \in 1..Len(history') : v > Len(history) => history'[v].since = clock
  BY <1>1
<1>3. Len(history') \in Versions
  BY <1>2, Limits DEF Versions
<1> QED
  BY <1>2, <1>3 DEF Extends

LEMMA RowStays ==
  ASSUME Inv, UNCHANGED history
  PROVE  Extends
BY Limits DEF Inv, TypeOK, Extends, Versions

LEMMA UpdateStep ==
  ASSUME Inv, UNCHANGED <<clock, hand, answer>>, Extends,
         cache' \in {cache, None},
         pc' \in [Requests -> ReaderStages \cup UpdaterStages \cup {"idle"}],
         began' \in [Requests -> Nat],
         \A r \in Readers : pc'[r] = pc[r] /\ began'[r] = began[r],
         target' \in [Updaters -> Versions], missed' \in Versions,
         faults' \in 0..MaxFaults,
         \A u \in Updaters : RequestInv(u)' /\ UpdateInv(u)',
         UpdatesInvalidate'
  PROVE  Inv'
<1>1. TypeOK'
  BY DEF Inv, TypeOK, Extends, Versions, Requests
<1>2. HistoryInv'
  <2>1. clock \in Nat /\ Len(history) \in Nat
    BY DEF Inv, TypeOK
  <2>2. ASSUME NEW v \in 1..Len(history') PROVE history'[v].since <= clock
    <3>1. CASE v > Len(history)
      BY <2>1, <3>1 DEF Extends
    <3>2. CASE v \in 1..Len(history)
      BY <3>2 DEF Inv, HistoryInv, Extends
    <3> QED
      BY <2>1, <3>1, <3>2
  <2> QED
    BY <2>2 DEF HistoryInv
<1>3. ASSUME NEW q \in Requests PROVE RequestInv(q)'
  <2>1. CASE q \in Readers
    BY <2>1 DEF Inv, RequestInv
  <2> QED
    BY <2>1 DEF Requests
<1>4. ASSUME NEW r \in Readers PROVE LookupInv(r)'
  <2>1. clock \in Nat /\ clock' \in Nat /\ clock <= clock'
    BY DEF Inv, TypeOK
  <2> QED
    BY <2>1, LookupStays DEF Extends
<1>5. EntryInv'
  BY EntryKept DEF Extends
<1> QED
  BY <1>1, <1>2, <1>3, <1>4, <1>5 DEF Inv, Requests

(* Only the request that takes a step is changed by it.                    *)
LEMMA UpdaterMoves ==
  ASSUME Inv, NEW u \in Updaters, NEW stage \in UpdaterStages \cup {"idle"},
         Goto(u, stage)
  PROVE  /\ pc' \in [Requests -> ReaderStages \cup UpdaterStages \cup {"idle"}]
         /\ pc'[u] = stage
         /\ \A q \in Requests : q # u => pc'[q] = pc[q]
         /\ \A r \in Readers : r # u
BY CacheAssumption DEF Inv, TypeOK, Goto, Requests

(* The record in the cache is a value the row has had.                     *)
LEMMA EntryKnown ==
  ASSUME Inv, cache # None, cache.version > 0
  PROVE  cache \in Entry /\ cache.version \in 0..Len(history)
BY DEF Inv, TypeOK, EntryInv, Current

LEMMA CreateInv ==
  ASSUME Inv, NEW expiresAt \in ExpiryTimes \cup {Never}, Create(expiresAt)
  PROVE  Inv'
<1> DEFINE row == [status |-> "active", expiresAt |-> expiresAt, since |-> clock]
<1>1. row \in Row /\ row.since = clock /\ Len(history) < MaxVersions
      /\ history' = Append(history, row) /\ Len(history) = 0
  BY Limits DEF Create, Row, Statuses, Inv, TypeOK
<1>2. Extends /\ Len(history') = 1
  BY <1>1, WriteAppends
<1>3. UpdatesInvalidate'
  BY <1>1, <1>2, EntryKnown DEF Create, UpdatesInvalidate
<1>4. \A u \in Updaters : RequestInv(u)' /\ UpdateInv(u)'
  BY <1>1, <1>2 DEF Create, Inv, TypeOK, RequestInv, UpdateInv, Versions
<1> QED
  BY <1>2, <1>3, <1>4, UpdateStep DEF Create, Inv, TypeOK, Requests

(* A write that UpdateRow or UpdateReplyLost makes.                        *)
LEMMA UpdatedExtends ==
  ASSUME Inv, NEW status \in Statuses, NEW expiresAt \in ExpiryTimes \cup {Never},
         Updated(status, expiresAt)
  PROVE  Extends /\ Len(history) \in Nat /\ Len(history') = Len(history) + 1
<1> DEFINE row == [status |-> status, expiresAt |-> expiresAt, since |-> clock]
<1>1. row \in Row /\ row.since = clock
  BY DEF Row, Inv, TypeOK
<1> QED
  BY <1>1, WriteAppends DEF Updated

LEMMA UpdateRowInv ==
  ASSUME Inv, NEW u \in Updaters, NEW status \in Statuses,
         NEW expiresAt \in ExpiryTimes \cup {Never},
         UpdateRow(u, status, expiresAt)
  PROVE  Inv'
<1>1. Extends /\ Len(history) \in Nat /\ Len(history') = Len(history) + 1
  BY UpdatedExtends DEF UpdateRow
<1>2. /\ pc' \in [Requests -> ReaderStages \cup UpdaterStages \cup {"idle"}]
      /\ pc'[u] = "select" /\ \A q \in Requests : q # u => pc'[q] = pc[q]
      /\ \A r \in Readers : r # u
  BY UpdaterMoves DEF UpdateRow, UpdaterStages
<1>3. /\ target' \in [Updaters -> Versions] /\ target'[u] = Len(history')
      /\ \A v \in Updaters : v # u => target'[v] = target[v]
      /\ began' \in [Requests -> Nat] /\ began'[u] = clock
      /\ \A q \in Requests : q # u => began'[q] = began[q]
  BY <1>1 DEF UpdateRow, Inv, TypeOK, Extends, Requests
<1>4. ASSUME NEW v \in Updaters PROVE RequestInv(v)' /\ UpdateInv(v)'
  <2>1. CASE v = u
    BY <1>2, <1>3, <2>1, <1>1, Limits
       DEF UpdateRow, Inv, TypeOK, RequestInv, UpdateInv, UpdaterStages
  <2>2. CASE v # u
    BY <1>1, <1>2, <1>3, <2>2
       DEF UpdateRow, Inv, TypeOK, RequestInv, UpdateInv, Requests, Versions
  <2> QED
    BY <2>1, <2>2
<1>5. UpdatesInvalidate'
  <2>1. SUFFICES ASSUME cache # None, cache.version > 0
                 PROVE  UpdatesInvalidate'
    BY DEF UpdateRow, UpdatesInvalidate
  <2>2. cache.version \in 0..Len(history)
    BY <2>1, EntryKnown
  <2>3. CASE cache.version = Len(history)
    BY <1>1, <1>2, <1>3, <2>3 DEF UpdateRow, UpdatesInvalidate, UpdaterStages
  <2>4. CASE cache.version < Len(history)
    <3>1. \A v \in Updaters : pc[v] \in UpdaterStages => v # u
      BY DEF UpdateRow, UpdaterStages
    <3>2. \A v \in Updaters : pc[v] \in UpdaterStages =>
            pc'[v] \in UpdaterStages /\ target'[v] = target[v]
      BY <1>2, <1>3, <3>1 DEF Requests
    <3> QED
      BY <2>1, <2>4, <3>2 DEF UpdateRow, UpdatesInvalidate, Inv
  <2> QED
    BY <1>1, <2>2, <2>3, <2>4
<1> QED
  BY <1>1, <1>2, <1>3, <1>4, <1>5, UpdateStep
     DEF UpdateRow, Inv, TypeOK, Requests

LEMMA UpdateReplyLostInv ==
  ASSUME Inv, NEW u \in Updaters, NEW status \in Statuses,
         NEW expiresAt \in ExpiryTimes \cup {Never},
         UpdateReplyLost(u, status, expiresAt)
  PROVE  Inv'
<1>1. Extends /\ Len(history) \in Nat /\ Len(history') = Len(history) + 1
  BY UpdatedExtends DEF UpdateReplyLost
<1>2. faults' \in 0..MaxFaults
  BY FaultType DEF UpdateReplyLost, Inv
<1>3. ASSUME NEW v \in Updaters PROVE RequestInv(v)' /\ UpdateInv(v)'
  BY <1>1 DEF UpdateReplyLost, Inv, TypeOK, RequestInv, UpdateInv, Versions
<1>4. UpdatesInvalidate'
  BY <1>1, EntryKnown DEF UpdateReplyLost, UpdatesInvalidate
<1>5. missed' \in Versions
  BY <1>1 DEF UpdateReplyLost, Extends
<1> QED
  BY <1>1, <1>2, <1>3, <1>4, <1>5, UpdateStep
     DEF UpdateReplyLost, Inv, TypeOK, Requests

LEMMA SelectUpdatedInv ==
  ASSUME Inv, NEW u \in Updaters, SelectUpdated(u)
  PROVE  Inv'
<1>1. /\ pc' \in [Requests -> ReaderStages \cup UpdaterStages \cup {"idle"}]
      /\ pc'[u] = "erase" /\ \A q \in Requests : q # u => pc'[q] = pc[q]
      /\ \A r \in Readers : r # u
  BY UpdaterMoves DEF SelectUpdated, UpdaterStages
<1>2. ASSUME NEW v \in Updaters PROVE RequestInv(v)' /\ UpdateInv(v)'
  BY <1>1 DEF SelectUpdated, Inv, RequestInv, UpdateInv, UpdaterStages, Requests
<1>3. UpdatesInvalidate'
  BY <1>1 DEF SelectUpdated, Inv, UpdatesInvalidate, UpdaterStages, Requests
<1> QED
  BY <1>1, <1>2, <1>3, RowStays, UpdateStep
     DEF SelectUpdated, Inv, TypeOK, Requests

(* The request of u is over.                                               *)
LEMMA UpdaterFinishes ==
  ASSUME Inv, NEW u \in Updaters, Finish(u), UNCHANGED <<clock, history>>,
         target' = [target EXCEPT ![u] = 0]
  PROVE  /\ pc' \in [Requests -> ReaderStages \cup UpdaterStages \cup {"idle"}]
         /\ pc'[u] = "idle" /\ \A q \in Requests : q # u => pc'[q] = pc[q]
         /\ began' \in [Requests -> Nat]
         /\ \A r \in Readers : pc'[r] = pc[r] /\ began'[r] = began[r]
         /\ target' \in [Updaters -> Versions]
         /\ \A v \in Updaters : v # u => target'[v] = target[v]
         /\ \A v \in Updaters : RequestInv(v)' /\ UpdateInv(v)'
<1>1. /\ pc' \in [Requests -> ReaderStages \cup UpdaterStages \cup {"idle"}]
      /\ pc'[u] = "idle" /\ \A q \in Requests : q # u => pc'[q] = pc[q]
      /\ \A r \in Readers : r # u
  BY UpdaterMoves DEF Finish
<1>2. /\ began' \in [Requests -> Nat]
      /\ \A q \in Requests : q # u => began'[q] = began[q]
  BY DEF Finish, Inv, TypeOK, Requests
<1>3. /\ target' \in [Updaters -> Versions] /\ target'[u] = 0
      /\ \A v \in Updaters : v # u => target'[v] = target[v]
  BY Limits DEF Inv, TypeOK, Versions
<1>4. ASSUME NEW v \in Updaters PROVE RequestInv(v)' /\ UpdateInv(v)'
  <2>1. CASE v = u
    BY <1>1, <1>3, <2>1 DEF Inv, TypeOK, RequestInv, UpdateInv
  <2>2. CASE v # u
    BY <1>1, <1>2, <1>3, <2>2 DEF Inv, RequestInv, UpdateInv, Requests
  <2> QED
    BY <2>1, <2>2
<1> QED
  BY <1>1, <1>2, <1>3, <1>4 DEF Requests

LEMMA EraseEntryInv ==
  ASSUME Inv, NEW u \in Updaters, EraseEntry(u)
  PROVE  Inv'
<1>1. UpdatesInvalidate'
  BY DEF EraseEntry, UpdatesInvalidate
<1> QED
  BY <1>1, UpdaterFinishes, RowStays, UpdateStep DEF EraseEntry, Inv, TypeOK

LEMMA InvalidationFailsInv ==
  ASSUME Inv, NEW u \in Updaters, InvalidationFails(u)
  PROVE  Inv'
<1>1. /\ missed' \in Versions /\ missed <= missed' /\ target[u] <= missed'
      /\ missed \in Nat /\ target[u] \in Nat
  BY DEF InvalidationFails, Greater, Inv, TypeOK, Versions
<1>2. faults' \in 0..MaxFaults
  BY FaultType DEF InvalidationFails, Inv
<1>3. UpdatesInvalidate'
  <2>1. SUFFICES ASSUME cache # None, cache.version > 0,
                        cache.version < Len(history)
                 PROVE  UpdatesInvalidate'
    BY DEF InvalidationFails, UpdatesInvalidate
  <2>2. cache.version \in Nat
    BY <2>1, EntryKnown DEF Entry, Versions
  <2>3. CASE cache.version < cache.filled
    BY <2>3 DEF InvalidationFails, UpdatesInvalidate
  <2>4. CASE cache.version < missed \/ cache.version < target[u]
    BY <1>1, <2>2, <2>4 DEF InvalidationFails, UpdatesInvalidate, Versions
  <2>5. CASE \E v \in Updaters \ {u} :
               pc[v] \in UpdaterStages /\ cache.version < target[v]
    BY <2>5, UpdaterFinishes
       DEF InvalidationFails, UpdatesInvalidate, Requests
  <2> QED
    BY <2>1, <2>3, <2>4, <2>5 DEF Inv, UpdatesInvalidate
<1> QED
  BY <1>1, <1>2, <1>3, UpdaterFinishes, RowStays, UpdateStep
     DEF InvalidationFails, Inv, TypeOK

LEMMA UpdateInvariance ==
  ASSUME Inv, NEW u \in Updaters, Update(u)
  PROVE  Inv'
BY UpdateRowInv, UpdateReplyLostInv, SelectUpdatedInv, EraseEntryInv,
   InvalidationFailsInv
   DEF Update

-----------------------------------------------------------------------------
LEMMA InitInv == Init => Inv
<1> SUFFICES ASSUME Init PROVE Inv
  OBVIOUS
<1>1. TypeOK
  BY Limits DEF Init, TypeOK, Hand, NoHand, Entry, LegacyEntry, Versions
<1>2. HistoryInv /\ EntryInv /\ UpdatesInvalidate
  BY Limits DEF Init, HistoryInv, EntryInv, UpdatesInvalidate, LegacyEntry
<1>3. ASSUME NEW q \in Requests PROVE RequestInv(q)
  BY <1>3 DEF Init, RequestInv, Requests
<1>4. ASSUME NEW r \in Readers PROVE LookupInv(r)
  BY CacheAssumption
     DEF Init, LookupInv, Results, FillStages, ReaderStages
<1>5. ASSUME NEW u \in Updaters PROVE UpdateInv(u)
  BY DEF Init, UpdateInv
<1> QED
  BY <1>1, <1>2, <1>3, <1>4, <1>5 DEF Inv, Requests

LEMMA NextInv == Inv /\ [Next]_vars => Inv'
<1> SUFFICES ASSUME Inv, [Next]_vars PROVE Inv'
  OBVIOUS
<1>1. CASE Tick
  BY <1>1, TickInv
<1>2. CASE Evict
  BY <1>2, EvictInv
<1>3. CASE \E expiresAt \in ExpiryTimes \cup {Never} : Create(expiresAt)
  BY <1>3, CreateInv
<1>4. CASE \E r \in Readers : Lookup(r)
  BY <1>4, LookupInvariance
<1>5. CASE \E u \in Updaters : Update(u)
  BY <1>5, UpdateInvariance
<1>6. CASE UNCHANGED vars
  BY <1>6
     DEF vars, Inv, TypeOK, HistoryInv, RequestInv, LookupInv, UpdateInv,
         EntryInv, UpdatesInvalidate, Current, Outcome, isExpired
<1> QED
  BY <1>1, <1>2, <1>3, <1>4, <1>5, <1>6 DEF Next

-----------------------------------------------------------------------------
(***************************************************************************)
(* The strengthening holds in every reachable state.                       *)
(***************************************************************************)
THEOREM CacheInvariance == Spec => []Inv
<1>1. Init => Inv
  BY InitInv
<1>2. Inv /\ [Next]_vars => Inv'
  BY NextInv
<1> QED
  BY <1>1, <1>2, PTL DEF Spec

(***************************************************************************)
(* Types, and the TTL of every SETEX is positive.                          *)
(***************************************************************************)
THEOREM CacheTypes == Spec => []TypeOK
<1>1. Inv => TypeOK
  BY DEF Inv
<1> QED
  BY <1>1, CacheInvariance, PTL

(***************************************************************************)
(* Bounded staleness: resolve answers from a value the row had at most one *)
(* TTL and the time of two requests ago, and redirects only if the link    *)
(* was active and alive then.  The witness is the time at which the record *)
(* in hand was read from MySQL.                                            *)
(***************************************************************************)
THEOREM BoundedStaleness == Spec => []AnswersWereRecentlyRight
<1>1. ASSUME Inv, NEW r \in Readers, answer[r] # None
      PROVE  \E t \in (clock - Ttl - 2 * MaxDelay)..clock :
               /\ Current(hand[r].version, t)
               /\ answer[r] = "success" => Outcome(hand[r].version, t) = "success"
  <2>1. LookupInv(r) /\ RequestInv(r)
    BY <1>1 DEF Inv
  <2>2. pc[r] = "respond"
    BY <1>1, <2>1 DEF LookupInv
  <2>3. clock \in Nat /\ hand[r].asOf \in Nat /\ began[r] \in Nat
    BY <1>1 DEF Inv, TypeOK, Hand
  <2>4. /\ hand[r].asOf <= clock
        /\ began[r] <= hand[r].asOf + Ttl + MaxDelay
        /\ clock <= began[r] + MaxDelay
    BY <2>1, <2>2 DEF LookupInv, RequestInv
  <2>5. hand[r].asOf \in (clock - Ttl - 2 * MaxDelay)..clock
    BY <2>3, <2>4, Limits
  <2>6. /\ Current(hand[r].version, hand[r].asOf)
        /\ answer[r] = "success" => Outcome(hand[r].version, hand[r].asOf) = "success"
    BY <2>1, <2>2 DEF LookupInv
  <2> WITNESS hand[r].asOf \in (clock - Ttl - 2 * MaxDelay)..clock
  <2> QED
    BY <2>6
<1>2. Inv => AnswersWereRecentlyRight
  BY <1>1 DEF AnswersWereRecentlyRight
<1> QED
  BY <1>2, CacheInvariance, PTL

(***************************************************************************)
(* Every update invalidates what was cached before it.                     *)
(***************************************************************************)
THEOREM UpdatesAlwaysInvalidate == Spec => []UpdatesInvalidate
<1>1. Inv => UpdatesInvalidate
  BY DEF Inv
<1> QED
  BY <1>1, CacheInvariance, PTL
=============================================================================
