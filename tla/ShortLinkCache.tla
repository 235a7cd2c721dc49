--------------------------- MODULE ShortLinkCache ---------------------------
(***************************************************************************)
(* One short link behind the Redis cache: requests that look it up through *)
(* RedisCachedShortLinkRepository::findByCode and decide on the redirect,  *)
(* and requests that change its status or expiry.  MySQL and Redis are     *)
(* called one after the other, without a transaction over both.            *)
(*                                                                         *)
(* The row in MySQL is the last element of history; an earlier element is  *)
(* a value the row had, which a request or the cache may still hold.       *)
(***************************************************************************)
EXTENDS Integers, Sequences

CONSTANTS
  Readers,        \* requests that look the link up
  Updaters,       \* requests that change it
  ConfiguredTtl,  \* redis.ttl_seconds
  ExpiryTimes,    \* values of expires_at
  Never,          \* expires_at IS NULL
  None,           \* no cache entry, no decision yet
  MaxDelay,       \* bound: seconds a request may be under way
  MaxClock,       \* bound: seconds of a behaviour
  MaxVersions,    \* bound: writes to the row
  MaxFaults       \* bound: failures of MySQL and Redis in a behaviour

(* The constructor: a TTL out of range falls back to an hour.              *)
Ttl == IF ConfiguredTtl <= 0 \/ ConfiguredTtl > 86400 THEN 3600
                                                      ELSE ConfiguredTtl

VARIABLES
  clock,    \* seconds since the epoch, of every process and of Redis
  history,  \* the values the row in MySQL has had; the last is the row
  cache,    \* the Redis entry, or None
  pc,       \* what each request does next
  hand,     \* the record and the TTL a reader holds
  began,    \* when the request began, 0 when there is none
  answer,   \* what a reader has decided on, or None
  target,   \* the version an updater wrote
  missed,   \* versions up to this one may have lost their invalidation
  faults    \* failures that may still happen

vars == <<clock, history, cache, pc, hand, began, answer, target, missed, faults>>

-----------------------------------------------------------------------------
Statuses == {"active", "disabled"}
Row == [status : Statuses, expiresAt : ExpiryTimes \cup {Never}, since : Nat]
Versions == 0..MaxVersions

(* A version with the time at which it was read from MySQL; version 0 is   *)
(* the absent row, or an entry in a format get does not accept.            *)
Hand == [version : Versions, asOf : Nat, ttl : 0..Ttl]
NoHand == [version |-> 0, asOf |-> 0, ttl |-> 0]
Entry == [version : Versions, asOf : Nat, deadline : Nat, filled : Versions]
LegacyEntry == [version |-> 0, asOf |-> 0, deadline |-> Ttl, filled |-> 0]

Results == {"success", "disabled", "expired", "not_found"}

ASSUME CacheAssumption ==
  /\ ConfiguredTtl \in Int
  /\ ExpiryTimes \subseteq Nat
  /\ Never \notin Nat
  /\ MaxDelay \in Nat
  /\ MaxClock \in Nat
  /\ MaxVersions \in Nat
  /\ MaxFaults \in Nat
  /\ Readers \cap Updaters = {}
  /\ None \notin Results

ReaderStages == {"get", "discard", "find", "ttl", "drop", "set", "decide",
                 "respond"}
UpdaterStages == {"select", "erase"}

isExpired(row, t) == row.expiresAt # Never /\ row.expiresAt <= t

(* ShortLinkService::resolve, from the record it was handed.               *)
Outcome(version, t) ==
  CASE version = 0                            -> "not_found"
    [] history[version].status = "disabled"   -> "disabled"
    [] isExpired(history[version], t)         -> "expired"
    [] OTHER                                  -> "success"

Lesser(a, b) == IF a <= b THEN a ELSE b
Greater(a, b) == IF a <= b THEN b ELSE a

Init ==
  /\ clock = 0
  /\ history = <<>>
  /\ cache \in {None, LegacyEntry}
  /\ pc = [q \in Readers \cup Updaters |-> "idle"]
  /\ hand = [r \in Readers |-> NoHand]
  /\ began = [q \in Readers \cup Updaters |-> 0]
  /\ answer = [r \in Readers |-> None]
  /\ target = [u \in Updaters |-> 0]
  /\ missed = 0
  /\ faults = MaxFaults

Fault == faults > 0 /\ faults' = faults - 1

Goto(q, stage) == pc' = [pc EXCEPT ![q] = stage]

(* The request is over.                                                    *)
Finish(q) ==
  /\ Goto(q, "idle")
  /\ began' = [began EXCEPT ![q] = 0]

-----------------------------------------------------------------------------
(* Time passes; Redis drops an entry whose TTL is over.                    *)
Tick ==
  /\ clock < MaxClock
  /\ \A q \in Readers \cup Updaters : pc[q] = "idle" \/ clock - began[q] < MaxDelay
  /\ clock' = clock + 1
  /\ cache' = IF cache # None /\ cache.deadline <= clock' THEN None ELSE cache
  /\ UNCHANGED <<history, pc, hand, began, answer, target, missed, faults>>

(* Redis evicts the entry or restarts empty.                               *)
Evict ==
  /\ cache # None
  /\ Fault
  /\ cache' = None
  /\ UNCHANGED <<clock, history, pc, hand, began, answer, target, missed>>

(* A create request commits its transaction; it leaves the cache alone.    *)
Create(expiresAt) ==
  /\ history = <<>>
  /\ MaxVersions > 0
  /\ history' = <<[status |-> "active", expiresAt |-> expiresAt, since |-> clock]>>
  /\ UNCHANGED <<clock, cache, pc, hand, began, answer, target, missed, faults>>

-----------------------------------------------------------------------------
(***************************************************************************)
(* findByCode and resolve.                                                 *)
(***************************************************************************)
Ask(r) ==
  /\ pc[r] = "idle"
  /\ Goto(r, "get")
  /\ began' = [began EXCEPT ![r] = clock]
  /\ UNCHANGED <<clock, history, cache, hand, answer, target, missed, faults>>

(* Slip: every hit gives the entry a new TTL.                              *)
CacheGetSliding(r) ==
  /\ pc[r] = "get"
  /\ IF cache = None
     THEN Goto(r, "find") /\ UNCHANGED <<hand, cache>>
     ELSE IF cache.version = 0
     THEN Goto(r, "discard") /\ UNCHANGED <<hand, cache>>
     ELSE /\ hand' = [hand EXCEPT ![r] = [version |-> cache.version,
                                          asOf |-> cache.asOf, ttl |-> 0]]
          /\ cache' = [cache EXCEPT !.deadline = clock + Ttl]
          /\ Goto(r, "decide")
  /\ UNCHANGED <<clock, history, began, answer, target, missed, faults>>

(* GET: a miss, an entry that does not parse, or a hit.                    *)
CacheGet(r) ==
  /\ pc[r] = "get"
  /\ IF cache = None
     THEN Goto(r, "find") /\ UNCHANGED hand
     ELSE IF cache.version = 0
     THEN Goto(r, "discard") /\ UNCHANGED hand
     ELSE /\ hand' = [hand EXCEPT ![r] = [version |-> cache.version,
                                          asOf |-> cache.asOf, ttl |-> 0]]
          /\ Goto(r, "decide")
  /\ UNCHANGED <<clock, history, cache, began, answer, target, missed, faults>>

(* An unreachable Redis or an error reply counts as a miss.                *)
CacheGetFails(r) ==
  /\ pc[r] = "get"
  /\ Fault
  /\ Goto(r, "find")
  /\ UNCHANGED <<clock, history, cache, hand, began, answer, target, missed>>

(* DEL of the entry that did not parse, whatever it is by now.             *)
DiscardEntry(r) ==
  /\ pc[r] = "discard"
  /\ cache' = None
  /\ Goto(r, "find")
  /\ UNCHANGED <<clock, history, hand, began, answer, target, missed, faults>>

FindByCode(r) ==
  /\ pc[r] = "find"
  /\ hand' = [hand EXCEPT ![r] = [version |-> Len(history), asOf |-> clock,
                                  ttl |-> 0]]
  /\ Goto(r, IF history = <<>> THEN "decide" ELSE "ttl")
  /\ UNCHANGED <<clock, history, cache, began, answer, target, missed, faults>>

(* MySQL fails: resolve rethrows and nobody gets an answer.                *)
FindFails(r) ==
  /\ pc[r] = "find"
  /\ Fault
  /\ Finish(r)
  /\ UNCHANGED <<clock, history, cache, hand, answer, target, missed>>

(* set: the entry is to end with its link, or is not written at all.       *)
ComputeTtl(r) ==
  LET row == history[hand[r].version]
  IN  /\ pc[r] = "ttl"
      /\ IF isExpired(row, clock)
         THEN Goto(r, "drop") /\ UNCHANGED hand
         ELSE /\ hand' = [hand EXCEPT ![r].ttl =
                            IF row.expiresAt = Never THEN Ttl
                            ELSE Lesser(Ttl, row.expiresAt - clock)]
              /\ Goto(r, "set")
      /\ UNCHANGED <<clock, history, cache, began, answer, target, missed, faults>>

(* SETEX counts the TTL from the moment Redis executes it.                 *)
SetEntry(r) ==
  /\ pc[r] = "set"
  /\ cache' = [version |-> hand[r].version, asOf |-> hand[r].asOf,
               deadline |-> clock + hand[r].ttl, filled |-> Len(history)]
  /\ Goto(r, "decide")
  /\ UNCHANGED <<clock, history, hand, began, answer, target, missed, faults>>

DropExpired(r) ==
  /\ pc[r] = "drop"
  /\ cache' = None
  /\ Goto(r, "decide")
  /\ UNCHANGED <<clock, history, hand, began, answer, target, missed, faults>>

(* A failed DEL or SETEX of a lookup is logged and otherwise ignored.      *)
CacheWriteFails(r) ==
  /\ pc[r] \in {"discard", "set", "drop"}
  /\ Fault
  /\ Goto(r, IF pc[r] = "discard" THEN "find" ELSE "decide")
  /\ UNCHANGED <<clock, history, cache, hand, began, answer, target, missed>>

Resolve(r) ==
  /\ pc[r] = "decide"
  /\ answer' = [answer EXCEPT ![r] = Outcome(hand[r].version, clock)]
  /\ Goto(r, "respond")
  /\ UNCHANGED <<clock, history, cache, hand, began, target, missed, faults>>

Respond(r) ==
  /\ pc[r] = "respond"
  /\ Finish(r)
  /\ hand' = [hand EXCEPT ![r] = NoHand]
  /\ answer' = [answer EXCEPT ![r] = None]
  /\ UNCHANGED <<clock, history, cache, target, missed, faults>>

-----------------------------------------------------------------------------
(***************************************************************************)
(* updateLifecycle: UPDATE, SELECT, and DEL when the SELECT found the row. *)
(* The request may set the status, the expiry or both.                     *)
(***************************************************************************)
Updated(status, expiresAt) ==
  /\ history # <<>>
  /\ Len(history) < MaxVersions
  /\ history' = Append(history, [status |-> status, expiresAt |-> expiresAt,
                                 since |-> clock])

UpdateRow(u, status, expiresAt) ==
  /\ pc[u] = "idle"
  /\ Updated(status, expiresAt)
  /\ target' = [target EXCEPT ![u] = Len(history')]
  /\ began' = [began EXCEPT ![u] = clock]
  /\ Goto(u, "select")
  /\ UNCHANGED <<clock, cache, hand, answer, missed, faults>>

(* The UPDATE took effect, its reply is lost: the request fails here.      *)
UpdateReplyLost(u, status, expiresAt) ==
  /\ pc[u] = "idle"
  /\ Fault
  /\ Updated(status, expiresAt)
  /\ missed' = Len(history')
  /\ UNCHANGED <<clock, cache, pc, hand, began, answer, target>>

(* Slip: only a change of the status invalidates the entry.                *)
SelectUpdatedStatusOnly(u) ==
  /\ pc[u] = "select"
  /\ Goto(u, IF history[target[u]].status = history[target[u] - 1].status
             THEN "idle" ELSE "erase")
  /\ UNCHANGED <<clock, history, cache, hand, began, answer, target, missed, faults>>

SelectUpdated(u) ==
  /\ pc[u] = "select"
  /\ Goto(u, "erase")
  /\ UNCHANGED <<clock, history, cache, hand, began, answer, target, missed, faults>>

EraseEntry(u) ==
  /\ pc[u] = "erase"
  /\ cache' = None
  /\ Finish(u)
  /\ target' = [target EXCEPT ![u] = 0]
  /\ UNCHANGED <<clock, history, hand, answer, missed, faults>>

(* The SELECT fails and the request with it, or the DEL fails unnoticed.   *)
InvalidationFails(u) ==
  /\ pc[u] \in UpdaterStages
  /\ Fault
  /\ missed' = Greater(missed, target[u])
  /\ Finish(u)
  /\ target' = [target EXCEPT ![u] = 0]
  /\ UNCHANGED <<clock, history, cache, hand, answer>>

-----------------------------------------------------------------------------
Lookup(r) ==
  \/ Ask(r) \/ CacheGet(r) \/ CacheGetFails(r) \/ DiscardEntry(r)
  \/ FindByCode(r) \/ FindFails(r) \/ ComputeTtl(r) \/ SetEntry(r)
  \/ DropExpired(r) \/ CacheWriteFails(r) \/ Resolve(r) \/ Respond(r)

Update(u) ==
  \/ \E status \in Statuses, expiresAt \in ExpiryTimes \cup {Never} :
       UpdateRow(u, status, expiresAt) \/ UpdateReplyLost(u, status, expiresAt)
  \/ SelectUpdated(u) \/ EraseEntry(u) \/ InvalidationFails(u)

Next ==
  \/ Tick \/ Evict
  \/ \E expiresAt \in ExpiryTimes \cup {Never} : Create(expiresAt)
  \/ \E r \in Readers : Lookup(r)
  \/ \E u \in Updaters : Update(u)

Spec == Init /\ [][Next]_vars

-----------------------------------------------------------------------------
(* Every variable has its type; the TTL handed to SETEX is positive.       *)
TypeOK ==
  /\ clock \in Nat
  /\ history \in Seq(Row) /\ Len(history) <= MaxVersions
  /\ cache \in Entry \cup {None}
  /\ pc \in [Readers \cup Updaters -> ReaderStages \cup UpdaterStages \cup {"idle"}]
  /\ hand \in [Readers -> Hand]
  /\ \A r \in Readers : pc[r] = "set" => hand[r].ttl > 0
  /\ began \in [Readers \cup Updaters -> Nat]
  /\ answer \in [Readers -> Results \cup {None}]
  /\ target \in [Updaters -> Versions]
  /\ missed \in Versions
  /\ faults \in 0..MaxFaults

(* The row had this value at time t.                                       *)
Current(version, t) ==
  /\ version \in 0..Len(history)
  /\ version > 0 => history[version].since <= t
  /\ version < Len(history) => t <= history[version + 1].since

(***************************************************************************)
(* Bounded staleness (docs/LIFECYCLE_DESIGN.md: the TTL limits the stale   *)
(* window): a lookup is answered from a value the row had no longer ago    *)
(* than one TTL and the time two requests take, the one that filled the    *)
(* cache and the one that is answered, whatever fails and however late a   *)
(* fill is.  It redirects only where the link was then active and alive.   *)
(***************************************************************************)
AnswersWereRecentlyRight ==
  \A r \in Readers : answer[r] # None =>
    \E t \in (clock - Ttl - 2 * MaxDelay)..clock :
      /\ Current(hand[r].version, t)
      /\ answer[r] = "success" => Outcome(hand[r].version, t) = "success"

(***************************************************************************)
(* Invalidation: an entry that was up to date when it was written and is   *)
(* so no more is about to be erased, unless an invalidation has failed.    *)
(* Only a lookup that overlaps the update leaves a stale entry behind it.  *)
(***************************************************************************)
UpdatesInvalidate ==
  cache # None /\ cache.version > 0 /\ cache.version < Len(history) =>
    \/ cache.version < cache.filled
    \/ cache.version < missed
    \/ \E u \in Updaters : pc[u] \in UpdaterStages /\ cache.version < target[u]

-----------------------------------------------------------------------------
(***************************************************************************)
(* The inductive strengthening: how old the record in a request's hand and *)
(* the record in the cache can be, at every stage.                         *)
(***************************************************************************)
HistoryInv == \A v \in 1..Len(history) : history[v].since <= clock

RequestInv(q) ==
  pc[q] # "idle" => began[q] <= clock /\ clock <= began[q] + MaxDelay

FillStages == {"ttl", "set", "drop"}

LookupInv(r) ==
  /\ pc[r] \in ReaderStages \cup {"idle"}
  /\ pc[r] \in FillStages \cup {"decide", "respond"} =>
       /\ hand[r].asOf <= clock
       /\ Current(hand[r].version, hand[r].asOf)
       /\ began[r] <= hand[r].asOf + Ttl + MaxDelay
  /\ pc[r] \in FillStages => hand[r].version > 0 /\ began[r] <= hand[r].asOf
  /\ answer[r] # None => pc[r] = "respond"
  /\ answer[r] = "success" => Outcome(hand[r].version, hand[r].asOf) = "success"

UpdateInv(u) ==
  /\ pc[u] \in UpdaterStages \cup {"idle"}
  /\ target[u] <= Len(history)

EntryInv ==
  cache # None =>
    /\ clock < cache.deadline
    /\ cache.version > 0 => /\ cache.asOf <= clock
                            /\ Current(cache.version, cache.asOf)
                            /\ cache.deadline <= cache.asOf + MaxDelay + Ttl

Inv ==
  /\ TypeOK
  /\ HistoryInv
  /\ \A q \in Readers \cup Updaters : RequestInv(q)
  /\ \A r \in Readers : LookupInv(r)
  /\ \A u \in Updaters : UpdateInv(u)
  /\ EntryInv
  /\ UpdatesInvalidate
=============================================================================
