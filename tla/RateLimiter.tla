----------------------------- MODULE RateLimiter -----------------------------
(***************************************************************************)
(* The two limiters in front of the chat endpoints (core/rate_limiter.py): *)
(* the token bucket of the whole service, kept in memory, and the sliding  *)
(* window of each user, a sorted set in Redis with one member per message  *)
(* that was let through.                                                   *)
(*                                                                         *)
(* Time moves with the requests: every request reads a later clock value   *)
(* than the one before it, as two calls of time.time() do.  The bucket     *)
(* reads a monotonic clock and the window the wall clock; one clock stands *)
(* for both, so a wall clock that is set back is not modelled.             *)
(***************************************************************************)
EXTENDS Integers, FiniteSets

CONSTANTS
  Users,        \* user ids
  Token,        \* parts of one token: the bucket counts in fractions
  Capacity,     \* TokenBucket capacity, in parts (10 tokens in api/main.py)
  Rate,         \* parts added per time unit (20 tokens per second)
  Limit,        \* messages of one user let through per window (5)
  Window,       \* length of the window (30 s)
  RedisFaults   \* whether a Redis call of the limiter may fail

ASSUME LimiterAssumption ==
  /\ Token \in Nat \ {0}
  /\ Capacity \in Nat \ {0}
  /\ Rate \in Nat
  /\ Limit \in Nat \ {0}
  /\ Window \in Nat \ {0}
  /\ RedisFaults \in BOOLEAN

VARIABLES
  clock,     \* the time of the last request
  tokens,    \* TokenBucket._tokens
  last,      \* TokenBucket._last
  window,    \* user -> scores of the sorted set ratelimit:sliding:<user>
  expires,   \* user -> the time at which Redis drops that key, 0 without a TTL
  passed,    \* history: times at which the bucket let a request through
  admitted   \* history: user -> times at which the window let one through

limiterVars == <<clock, tokens, last, window, expires, passed, admitted>>

LimiterTypeOK ==
  /\ clock \in Nat
  /\ last \in 0 .. clock
  /\ tokens \in 0 .. Capacity
  /\ window \in [Users -> SUBSET (1 .. clock)]
  /\ expires \in [Users -> Nat]
  /\ passed \subseteq 1 .. clock
  /\ admitted \in [Users -> SUBSET (1 .. clock)]

LimiterInit ==
  /\ clock = 0
  /\ tokens = Capacity
  /\ last = 0
  /\ window = [u \in Users |-> {}]
  /\ expires = [u \in Users |-> 0]
  /\ passed = {}
  /\ admitted = [u \in Users |-> {}]

Least(a, b) == IF a <= b THEN a ELSE b

\* A bucket that forgets its capacity while it is idle.
RefilledWithoutCap(now) == tokens + (now - last) * Rate

\* The tokens in the bucket at `now', before this request takes one.
Refilled(now) == Least(Capacity, tokens + (now - last) * Rate)

\* TokenBucket.consume() answers TRUE or FALSE; the refill is kept either way.
BucketPasses(now) ==
  /\ Refilled(now) >= Token
  /\ tokens' = Refilled(now) - Token
  /\ last' = now
  /\ passed' = passed \cup {now}

BucketRefuses(now) ==
  /\ Refilled(now) < Token
  /\ tokens' = Refilled(now)
  /\ last' = now
  /\ UNCHANGED passed

\* The members of the sorted set: none are left once its TTL ran out.
Recorded(u, now) ==
  {t \in window[u] : expires[u] = 0 \/ now < expires[u]}

\* ZCOUNT key (now - window) now.
InWindow(u, now) ==
  {t \in Recorded(u, now) : now - Window <= t /\ t <= now}

\* An off-by-one in the comparison with the limit.
WindowHasRoomOneMore(u, now) == Cardinality(InWindow(u, now)) <= Limit

WindowHasRoom(u, now) == Cardinality(InWindow(u, now)) < Limit

\* UserRateLimiter.is_allowed() lets the message through and records it.
WindowPasses(u, now) ==
  /\ WindowHasRoom(u, now)
  /\ window' = [window EXCEPT ![u] = Recorded(u, now) \cup {now}]
  /\ expires' = [expires EXCEPT ![u] = now + Window]
  /\ admitted' = [admitted EXCEPT ![u] = @ \cup {now}]

\* A Redis error before the record is written lets the message through
\* without a trace of it.
WindowUnchecked(u, now) ==
  /\ RedisFaults
  /\ UNCHANGED <<window, expires, admitted>>

\* A Redis error between ZADD and EXPIRE: the record is written, and the key
\* keeps the TTL it had, or has none if this record created it.
WindowUnexpired(u, now) ==
  /\ RedisFaults
  /\ WindowHasRoom(u, now)
  /\ window' = [window EXCEPT ![u] = Recorded(u, now) \cup {now}]
  /\ expires' = [expires EXCEPT ![u] = IF now < @ THEN @ ELSE 0]
  /\ UNCHANGED admitted

WindowRefuses(u, now) ==
  /\ ~ WindowHasRoom(u, now)
  /\ UNCHANGED <<window, expires, admitted>>

\* Of the messages the sorted set recorded, no user has more than Limit in any
\* span of Window (rate_limiter.py:87-92: a sliding window has no boundary at
\* which twice the limit gets through).  Messages let through while Redis
\* failed are not counted: they leave no record, or one that may go too early.
WindowLimit ==
  \A u \in Users : \A t \in admitted[u] :
    Cardinality({s \in admitted[u] : t - Window < s /\ s <= t}) <= Limit

\* Between any two moments the bucket lets through no more requests than its
\* capacity and the refill of that time (rate_limiter.py:24-67), however the
\* requests are spaced and whatever the later checks answer.
BurstBound ==
  \A a, b \in passed : a <= b =>
    Cardinality({t \in passed : a <= t /\ t <= b}) * Token
      <= Capacity + (b - a) * Rate
==============================================================================
