---------------------------- MODULE RateLimiter ----------------------------
(***************************************************************************)
(* RedisFixedWindowRateLimiter: one counter in Redis for all creates, and  *)
(* the script that counts a request and bounds the life of the counter.    *)
(* Redis counts time in milliseconds; EXPIRE and TTL speak of seconds.     *)
(***************************************************************************)
EXTENDS Integers

CONSTANTS
  Limit,          \* config_.requests
  Window          \* config_.windowSeconds

ASSUME LimiterAssumption ==
  /\ Limit \in Nat \ {0}
  /\ Window \in Nat \ {0}

Second == 1000
WindowMs == Window * Second

(* TTL of a key that does not expire.                                      *)
NoTtl == 0

NoCounter == [count |-> 0, deadline |-> NoTtl]

(* A key has expired when its deadline has passed.                         *)
Alive(key, now) == key.count > 0 /\ (key.deadline = NoTtl \/ now <= key.deadline)

Incremented(key, now) ==
  IF Alive(key, now) THEN [key EXCEPT !.count = @ + 1]
  ELSE [count |-> 1, deadline |-> NoTtl]

Expiring(key, now) == [key EXCEPT !.deadline = now + WindowMs]

(* Slip: every request puts the end of the window off.                     *)
CountedSliding(key, now) == Expiring(Incremented(key, now), now)

(* The script: INCR, EXPIRE of a new counter, and of one without a TTL.    *)
Counted(key, now) ==
  LET current == Incremented(key, now)
  IN  IF current.count = 1 \/ current.deadline = NoTtl
      THEN Expiring(current, now) ELSE current

(* Slip: the limit is compared with the count before the request.          *)
AllowedBefore(key) == key.count - 1 <= Limit

Allowed(key) == key.count <= Limit

(* TTL: what remains, rounded to the nearest second.                       *)
Ttl(key, now) == (key.deadline - now + Second \div 2) \div Second

(* In seconds, and never less than one.                                    *)
RetryAfter(key, now) == IF Ttl(key, now) > 1 THEN Ttl(key, now) ELSE 1
=============================================================================
