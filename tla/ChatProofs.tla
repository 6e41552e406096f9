------------------------------ MODULE ChatProofs ------------------------------
(***************************************************************************)
(* What the chat endpoints keep to.  The two limiters, for every capacity, *)
(* rate, limit and length of the window, any spacing of the requests and   *)
(* any failures of Redis; the work queue, for any number of calls, workers *)
(* and places and answers of any length, whoever leaves and whatever the   *)
(* engine does: a streamed answer is stored whole, and every step of the   *)
(* queue is one BoundedService allows.                                     *)
(***************************************************************************)
EXTENDS ChatEndpoints, FiniteSetTheorems, TLAPS

(***************************************************************************)
(* PART ONE: the limiters                                                  *)
(***************************************************************************)

\* What the proofs need of the types.
Bounds ==
  /\ clock \in Nat
  /\ last \in 0 .. clock
  /\ tokens \in 0 .. Capacity
  /\ passed \in SUBSET (1 .. last)
  /\ window \in [Users -> SUBSET (1 .. clock)]
  /\ expires \in [Users -> Nat]
  /\ admitted \in [Users -> SUBSET (1 .. clock)]

\* Requests the bucket has let through from a moment on.
Since(a) == {t \in passed : a <= t}

\* Since any request it let through, the bucket has spent no more than its
\* capacity and the refill until now, and what is left in it is not spent.
Balance ==
  \A a \in passed :
    Cardinality(Since(a)) * Token + tokens <= Capacity + (last - a) * Rate

\* What the sorted set recorded is there for as long as it counts: neither the
\* TTL of its key nor a failed renewal of it drops a recent record.
RecordsLast ==
  \A u \in Users : \A t \in admitted[u] :
    clock < t + Window =>
      t \in window[u] /\ (expires[u] = 0 \/ t + Window <= expires[u])

LimiterInv == Bounds /\ Balance /\ BurstBound /\ RecordsLast /\ WindowLimit

-----------------------------------------------------------------------------
(***************************************************************************)
(* The bucket                                                              *)
(***************************************************************************)

\* Two refills in a row are one of the whole time.
LEMMA Distribute ==
  ASSUME NEW a \in Int, NEW b \in Int, NEW c \in Int, NEW r \in Int
  PROVE  (b - a) * r + (c - b) * r = (c - a) * r
OBVIOUS

\* A refill is no negative number of tokens.
LEMMA TimesMonotone ==
  ASSUME NEW a \in Int, NEW r \in Nat, a >= 0
  PROVE  a * r \in Nat
OBVIOUS

\* A refill at a later time.
LEMMA RefillBound ==
  ASSUME Bounds, NEW now \in Nat, now > clock
  PROVE  /\ Refilled(now) \in 0 .. Capacity
         /\ Refilled(now) <= tokens + (now - last) * Rate
<1>1. (now - last) * Rate \in Nat
  BY LimiterAssumption, TimesMonotone DEF Bounds
<1> QED
  BY <1>1, LimiterAssumption DEF Bounds, Refilled, Least

\* The requests that passed can be counted.
LEMMA PassedFinite ==
  ASSUME Bounds, NEW S \in SUBSET passed
  PROVE  IsFiniteSet(S) /\ Cardinality(S) \in Nat
<1>1. IsFiniteSet(1 .. last)
  BY FS_Interval DEF Bounds
<1>2. S \subseteq 1 .. last
  BY DEF Bounds
<1> QED
  BY <1>1, <1>2, FS_Subset, FS_CardinalityType

\* The balance after a refill, before a token is taken.
LEMMA RefillBalance ==
  ASSUME Bounds, Balance, NEW now \in Nat, now > clock, NEW a \in passed
  PROVE  Cardinality(Since(a)) * Token + Refilled(now) <= Capacity + (now - a) * Rate
<1>1. Cardinality(Since(a)) \in Nat
  BY PassedFinite DEF Since
<1>2. /\ a \in Nat /\ last \in Nat /\ tokens \in Nat /\ Capacity \in Nat
      /\ Rate \in Nat /\ Token \in Nat
  BY LimiterAssumption DEF Bounds
<1>3. Cardinality(Since(a)) * Token + tokens <= Capacity + (last - a) * Rate
  BY DEF Balance
<1>4. Refilled(now) \in Nat /\ Refilled(now) <= tokens + (now - last) * Rate
  BY <1>2, RefillBound
<1>5. (last - a) * Rate + (now - last) * Rate = (now - a) * Rate
  BY <1>2, Distribute
<1>6. /\ Cardinality(Since(a)) * Token \in Int
      /\ (last - a) * Rate \in Int /\ (now - last) * Rate \in Int
      /\ (now - a) * Rate \in Int
  BY <1>1, <1>2
<1> DEFINE n == Cardinality(Since(a)) * Token
           x == (last - a) * Rate
           y == (now - last) * Rate
           z == (now - a) * Rate
           r == Refilled(now)
<1>7. n \in Int /\ x \in Int /\ y \in Int /\ z \in Int /\ r \in Int
  BY <1>4, <1>6
<1>8. n + tokens <= Capacity + x /\ r <= tokens + y /\ x + y = z
  BY <1>3, <1>4, <1>5
<1> HIDE DEF n, x, y, z, r
<1>9. n + r <= Capacity + z
  BY <1>2, <1>7, <1>8
<1> QED
  BY <1>9 DEF n, r, z

\* A request that is let through is one more since any earlier one.
LEMMA OneMore ==
  ASSUME Bounds, NEW now \in Nat, now > clock, NEW a \in passed
  PROVE  Cardinality(Since(a) \cup {now}) = Cardinality(Since(a)) + 1
<1>1. IsFiniteSet(Since(a)) /\ now \notin Since(a)
  BY PassedFinite DEF Since, Bounds
<1> QED
  BY <1>1, FS_AddElement

\* A request that passes spends a token the bucket has after its refill.
LEMMA BucketPassesKeeps ==
  ASSUME Bounds, Balance, BurstBound, NEW now \in Nat, now > clock,
         clock' = now, BucketPasses(now)
  PROVE  Balance' /\ BurstBound'
<1>1. /\ tokens' = Refilled(now) - Token /\ last' = now
      /\ passed' = passed \cup {now} /\ Refilled(now) >= Token
  BY DEF BucketPasses
<1>2. /\ Refilled(now) \in 0 .. Capacity /\ Token \in Nat /\ Capacity \in Nat
      /\ Rate \in Nat /\ passed \subseteq 1 .. clock /\ clock \in Nat
  BY RefillBound, LimiterAssumption DEF Bounds
<1>3. ASSUME NEW a \in passed
      PROVE  Since(a)' = Since(a) \cup {now}
  BY <1>1, <1>2 DEF Since
<1>4. Cardinality(Since(now)') = 1
  <2>1. \A t \in passed' : now <= t <=> t = now
    BY <1>1, <1>2
  <2>2. now \in passed'
    BY <1>1
  <2>3. Since(now)' = {now}
    BY <2>1, <2>2, Zenon DEF Since
  <2> QED
    BY <2>3, FS_Singleton
<1>5. ASSUME NEW a \in passed
      PROVE  Cardinality(Since(a)') * Token + tokens' <= Capacity + (now - a) * Rate
  <2> DEFINE n == Cardinality(Since(a))
             z == (now - a) * Rate
  <2>1. n \in Nat
    BY PassedFinite DEF Since
  <2>2. Cardinality(Since(a)') = n + 1
    BY <1>3, OneMore
  <2>3. n * Token + Refilled(now) <= Capacity + z
    BY RefillBalance
  <2>4. z \in Int
    BY <1>2
  <2> HIDE DEF n, z
  <2>5. (n + 1) * Token = n * Token + Token /\ n * Token \in Int
    BY <1>2, <2>1
  <2>6. (n + 1) * Token + tokens' <= Capacity + z
    BY <1>1, <1>2, <2>3, <2>4, <2>5
  <2> QED
    BY <2>2, <2>6 DEF z
<1>6. Cardinality(Since(now)') * Token + tokens' <= Capacity + (now - now) * Rate
  <2>1. Cardinality(Since(now)') * Token = Token /\ (now - now) * Rate = 0
    BY <1>2, <1>4
  <2> QED
    BY <1>1, <1>2, <2>1
<1>7. Balance'
  BY <1>1, <1>5, <1>6 DEF Balance
<1>8. ASSUME NEW a \in passed', NEW b \in passed', a <= b
      PROVE  Cardinality({t \in passed' : a <= t /\ t <= b}) * Token
               <= Capacity + (b - a) * Rate
  <2>1. CASE b = now
    <3>1. {t \in passed' : a <= t /\ t <= b} = Since(a)'
      <4>1. \A t \in passed' : t <= b
        BY <1>1, <1>2, <2>1
      <4> QED
        BY <4>1, Zenon DEF Since
    <3>2. Cardinality(Since(a)') * Token + tokens' <= Capacity + (now - a) * Rate
      BY <1>1, <1>5, <1>6
    <3>3. Cardinality(Since(a)') \in Nat
      <4>1. CASE a \in passed
        <5>1. Since(a) \in SUBSET passed
          BY DEF Since
        <5>2. Cardinality(Since(a)) \in Nat
          BY <5>1, PassedFinite
        <5> QED
          BY <1>3, <4>1, <5>2, OneMore
      <4>2. CASE a = now
        <5>1. Since(a)' = Since(now)'
          BY <4>2 DEF Since
        <5> QED
          BY <1>4, <5>1
      <4> QED
        BY <1>1, <4>1, <4>2
    <3>4. tokens' \in Nat /\ Cardinality(Since(a)') * Token \in Int
      BY <1>1, <1>2, <3>3
    <3>5. (now - a) * Rate \in Int
      BY <1>1, <1>2
    <3>6. Cardinality(Since(a)') * Token <= Capacity + (now - a) * Rate
      BY <1>2, <3>2, <3>4, <3>5
    <3> QED
      BY <2>1, <3>1, <3>6
  <2>2. CASE b # now
    <3>1. a \in passed /\ b \in passed
      BY <1>1, <1>2, <1>8, <2>2
    <3>2. {t \in passed' : a <= t /\ t <= b} = {t \in passed : a <= t /\ t <= b}
      BY <1>1, <1>2, <3>1
    <3> QED
      BY <1>8, <3>1, <3>2 DEF BurstBound
  <2> QED
    BY <2>1, <2>2
<1>9. BurstBound'
  BY <1>8 DEF BurstBound
<1> QED
  BY <1>7, <1>9

\* A request that is refused fills the bucket up and spends nothing.
LEMMA BucketRefusesKeeps ==
  ASSUME Bounds, Balance, BurstBound, NEW now \in Nat, now > clock,
         clock' = now, BucketRefuses(now)
  PROVE  Balance' /\ BurstBound'
<1>1. tokens' = Refilled(now) /\ last' = now /\ passed' = passed
  BY DEF BucketRefuses
<1>2. ASSUME NEW a \in passed
      PROVE  Cardinality(Since(a)') * Token + tokens' <= Capacity + (last' - a) * Rate
  <2>1. Since(a)' = Since(a)
    BY <1>1 DEF Since
  <2>2. Cardinality(Since(a)) * Token + Refilled(now) <= Capacity + (now - a) * Rate
    BY RefillBalance
  <2> QED
    BY <1>1, <2>1, <2>2
<1> QED
  BY <1>1, <1>2 DEF Balance, BurstBound

-----------------------------------------------------------------------------
(***************************************************************************)
(* The window of a user                                                    *)
(***************************************************************************)

\* A record that still counts at a later request is still in the sorted set.
LEMMA StillRecorded ==
  ASSUME Bounds, RecordsLast, NEW now \in Nat, now > clock,
         NEW u \in Users, NEW t \in admitted[u], now < t + Window
  PROVE  /\ t \in Recorded(u, now)
         /\ expires[u] = 0 \/ t + Window <= expires[u]
<1>1. /\ t \in Nat /\ clock \in Nat /\ expires[u] \in Nat /\ Window \in Nat
  BY LimiterAssumption DEF Bounds
<1>2. t \in window[u] /\ (expires[u] = 0 \/ t + Window <= expires[u])
  BY <1>1 DEF RecordsLast
<1> QED
  BY <1>1, <1>2 DEF Recorded

\* The message that is let through is one of at most Limit in its window.
LEMMA RoomForOne ==
  ASSUME Bounds, RecordsLast, NEW now \in Nat, now > clock,
         NEW u \in Users, WindowHasRoom(u, now)
  PROVE  Cardinality({s \in admitted[u] \cup {now} : now - Window < s /\ s <= now}) <= Limit
<1> DEFINE recent == {s \in admitted[u] \cup {now} : now - Window < s /\ s <= now}
<1>1. /\ clock \in Nat /\ Window \in Nat \ {0} /\ Limit \in Nat
      /\ admitted[u] \subseteq 1 .. clock /\ window[u] \subseteq 1 .. clock
  BY LimiterAssumption DEF Bounds
<1>2. IsFiniteSet(InWindow(u, now)) /\ Cardinality(InWindow(u, now)) \in Nat
  <2>1. InWindow(u, now) \subseteq 1 .. clock
    BY <1>1 DEF InWindow, Recorded
  <2>2. IsFiniteSet(1 .. clock)
    BY <1>1, FS_Interval
  <2> QED
    BY <2>1, <2>2, FS_Subset, FS_CardinalityType
<1>3. now \notin InWindow(u, now)
  BY <1>1 DEF InWindow, Recorded
<1>4. recent \subseteq InWindow(u, now) \cup {now}
  <2> SUFFICES ASSUME NEW s \in admitted[u], now - Window < s
               PROVE  s \in InWindow(u, now)
    BY DEF InWindow
  <2>1. s \in Nat /\ s <= now /\ now < s + Window
    BY <1>1
  <2>2. s \in Recorded(u, now)
    BY <2>1, StillRecorded
  <2> QED
    BY <1>1, <2>1, <2>2 DEF InWindow
<1>5. /\ IsFiniteSet(InWindow(u, now) \cup {now})
      /\ Cardinality(InWindow(u, now) \cup {now}) = Cardinality(InWindow(u, now)) + 1
  BY <1>2, <1>3, FS_AddElement
<1>6. /\ Cardinality(recent) <= Cardinality(InWindow(u, now) \cup {now})
      /\ Cardinality(recent) \in Nat
  BY <1>4, <1>5, FS_Subset, FS_CardinalityType
<1>7. Cardinality(InWindow(u, now)) < Limit
  BY DEF WindowHasRoom
<1> HIDE DEF recent
<1>8. Cardinality(recent) <= Limit
  BY <1>1, <1>2, <1>5, <1>6, <1>7
<1> QED
  BY <1>8 DEF recent

\* A message that passes finds room among the records that still count.
LEMMA WindowPassesKeeps ==
  ASSUME Bounds, RecordsLast, WindowLimit, NEW now \in Nat, now > clock,
         clock' = now, NEW u \in Users, WindowPasses(u, now)
  PROVE  RecordsLast' /\ WindowLimit'
<1>1. /\ window' = [window EXCEPT ![u] = Recorded(u, now) \cup {now}]
      /\ expires' = [expires EXCEPT ![u] = now + Window]
      /\ admitted' = [admitted EXCEPT ![u] = @ \cup {now}]
      /\ WindowHasRoom(u, now)
  BY DEF WindowPasses
<1>2. /\ window'[u] = Recorded(u, now) \cup {now}
      /\ expires'[u] = now + Window
      /\ admitted'[u] = admitted[u] \cup {now}
      /\ \A v \in Users \ {u} :
           window'[v] = window[v] /\ expires'[v] = expires[v] /\ admitted'[v] = admitted[v]
  BY <1>1 DEF Bounds
<1>3. /\ clock \in Nat /\ Window \in Nat \ {0}
      /\ \A v \in Users : admitted[v] \subseteq 1 .. clock
  BY LimiterAssumption DEF Bounds
<1>4. ASSUME NEW v \in Users, NEW t \in admitted'[v], now < t + Window
      PROVE  t \in window'[v] /\ (expires'[v] = 0 \/ t + Window <= expires'[v])
  <2>1. CASE v # u
    <3>1. t \in Recorded(v, now) /\ (expires[v] = 0 \/ t + Window <= expires[v])
      BY <1>2, <1>4, <2>1, StillRecorded
    <3> QED
      BY <1>2, <2>1, <3>1 DEF Recorded
  <2>2. CASE v = u /\ t = now
    BY <1>2, <1>3, <2>2
  <2>3. CASE v = u /\ t \in admitted[u]
    <3>1. t \in Recorded(u, now)
      BY <1>4, <2>3, StillRecorded
    <3>2. t \in Nat /\ t <= now
      BY <1>3, <2>3
    <3> QED
      BY <1>2, <1>3, <2>3, <3>1, <3>2
  <2> QED
    BY <1>2, <2>1, <2>2, <2>3
<1>5. RecordsLast'
  BY <1>4 DEF RecordsLast
<1>6. ASSUME NEW v \in Users, NEW t \in admitted'[v]
      PROVE  Cardinality({s \in admitted'[v] : t - Window < s /\ s <= t}) <= Limit
  <2>1. CASE v # u
    BY <1>2, <1>6, <2>1 DEF WindowLimit
  <2>2. CASE v = u /\ t = now
    BY <1>1, <1>2, <2>2, RoomForOne
  <2>3. CASE v = u /\ t \in admitted[u]
    <3>1. {s \in admitted'[u] : t - Window < s /\ s <= t}
            = {s \in admitted[u] : t - Window < s /\ s <= t}
      BY <1>2, <1>3, <2>3
    <3> QED
      BY <2>3, <3>1 DEF WindowLimit
  <2> QED
    BY <1>2, <2>1, <2>2, <2>3
<1> QED
  BY <1>5, <1>6 DEF WindowLimit

\* A message that is let through without being counted, and one that is
\* recorded without a new TTL.
LEMMA WindowUnexpiredKeeps ==
  ASSUME Bounds, RecordsLast, WindowLimit, NEW now \in Nat, now > clock,
         clock' = now, NEW u \in Users, WindowUnexpired(u, now)
  PROVE  RecordsLast' /\ WindowLimit'
<1>1. /\ window' = [window EXCEPT ![u] = Recorded(u, now) \cup {now}]
      /\ expires' = [expires EXCEPT ![u] = IF now < @ THEN @ ELSE 0]
      /\ admitted' = admitted
  BY DEF WindowUnexpired
<1>2. /\ window'[u] = Recorded(u, now) \cup {now}
      /\ expires'[u] = IF now < expires[u] THEN expires[u] ELSE 0
      /\ \A v \in Users \ {u} : window'[v] = window[v] /\ expires'[v] = expires[v]
  BY <1>1 DEF Bounds
<1>3. ASSUME NEW v \in Users, NEW t \in admitted'[v], now < t + Window
      PROVE  t \in window'[v] /\ (expires'[v] = 0 \/ t + Window <= expires'[v])
  <2>1. t \in Recorded(v, now) /\ (expires[v] = 0 \/ t + Window <= expires[v])
    BY <1>1, <1>3, StillRecorded
  <2>2. t \in window[v]
    BY <2>1 DEF Recorded
  <2> QED
    BY <1>2, <2>1, <2>2
<1>4. RecordsLast'
  BY <1>3 DEF RecordsLast
<1> QED
  BY <1>1, <1>4 DEF WindowLimit

\* Where nothing is recorded, time only makes records old.
LEMMA WindowUntouchedKeeps ==
  ASSUME Bounds, RecordsLast, WindowLimit, NEW now \in Nat, now > clock,
         clock' = now, UNCHANGED <<window, expires, admitted>>
  PROVE  RecordsLast' /\ WindowLimit'
<1>1. ASSUME NEW v \in Users, NEW t \in admitted[v], now < t + Window
      PROVE  t \in window[v] /\ (expires[v] = 0 \/ t + Window <= expires[v])
  BY <1>1, StillRecorded DEF Recorded
<1> QED
  BY <1>1 DEF RecordsLast, WindowLimit

-----------------------------------------------------------------------------
(***************************************************************************)
(* The endpoints                                                           *)
(***************************************************************************)

\* At the start the bucket is full and nothing was let through.
LEMMA InitLimits == Init => LimiterInv
<1> SUFFICES ASSUME Init PROVE LimiterInv
  OBVIOUS
<1> USE DEF Init, LimiterInit
<1>1. Bounds
  BY LimiterAssumption DEF Bounds
<1>2. Balance /\ BurstBound
  BY DEF Balance, BurstBound
<1>3. RecordsLast /\ WindowLimit
  BY DEF RecordsLast, WindowLimit
<1> QED
  BY <1>1, <1>2, <1>3 DEF LimiterInv

\* The limiters keep their types, whatever a request meets.
LEMMA ArriveTypes ==
  ASSUME Bounds, NEW now \in Nat, now > clock, clock' = now, NEW u \in Users,
         \/ BucketPasses(now)
         \/ BucketRefuses(now),
         \/ WindowPasses(u, now)
         \/ WindowUnexpired(u, now)
         \/ UNCHANGED <<window, expires, admitted>>
  PROVE  Bounds'
<1>1. /\ clock \in Nat /\ Window \in Nat
      /\ Refilled(now) \in 0 .. Capacity /\ Token \in Nat \ {0} /\ Capacity \in Nat
  BY RefillBound, LimiterAssumption DEF Bounds
<1>2. /\ last' \in 0 .. clock' /\ tokens' \in 0 .. Capacity
      /\ passed' \in SUBSET (1 .. last')
  <2>1. /\ last \in 0 .. clock /\ passed \subseteq 1 .. last
        /\ \A t \in passed : t \in 1 .. now
    BY <1>1 DEF Bounds
  <2>2. last' = now /\ tokens' \in 0 .. Capacity
    BY <1>1 DEF BucketPasses, BucketRefuses
  <2>3. passed' \subseteq passed \cup {now}
    BY DEF BucketPasses, BucketRefuses
  <2> QED
    BY <1>1, <2>1, <2>2, <2>3
<1>3. /\ 1 .. clock \subseteq 1 .. now /\ now \in 1 .. now
      /\ Recorded(u, now) \subseteq 1 .. clock
  BY <1>1 DEF Bounds, Recorded
<1>4. /\ window \in [Users -> SUBSET (1 .. now)]
      /\ admitted \in [Users -> SUBSET (1 .. now)]
      /\ expires \in [Users -> Nat]
  BY <1>3 DEF Bounds
<1>5. /\ window' \in [Users -> SUBSET (1 .. now)]
      /\ admitted' \in [Users -> SUBSET (1 .. now)]
      /\ expires' \in [Users -> Nat]
  <2>1. CASE WindowPasses(u, now)
    BY <1>1, <1>3, <1>4, <2>1 DEF WindowPasses
  <2>2. CASE WindowUnexpired(u, now)
    BY <1>1, <1>3, <1>4, <2>2 DEF WindowUnexpired
  <2>3. CASE UNCHANGED <<window, expires, admitted>>
    BY <1>4, <2>3
  <2> QED
    BY <2>1, <2>2, <2>3
<1> QED
  BY <1>2, <1>5 DEF Bounds

\* A request of either endpoint, with every outcome of both limiters.
LEMMA ArriveKeeps ==
  ASSUME LimiterInv, NEW c \in Calls, Arrive(c)
  PROVE  LimiterInv'
<1>1. PICK gap \in Gaps, u \in Users :
        /\ clock' = clock + gap
        /\ \/ BucketRefuses(clock + gap)
           \/ BucketPasses(clock + gap)
        /\ \/ WindowPasses(u, clock + gap)
           \/ WindowUnexpired(u, clock + gap)
           \/ UNCHANGED <<window, expires, admitted>>
  BY DEF Arrive, WindowRefuses, WindowUnchecked
<1>2. PICK now \in Nat : now = clock + gap /\ now > clock
  BY EndpointAssumption DEF LimiterInv, Bounds
<1>3. /\ clock' = now
      /\ BucketRefuses(now) \/ BucketPasses(now)
      /\ \/ WindowPasses(u, now)
         \/ WindowUnexpired(u, now)
         \/ UNCHANGED <<window, expires, admitted>>
  BY <1>1, <1>2
<1>4. Bounds'
  BY <1>2, <1>3, ArriveTypes DEF LimiterInv
<1>5. Balance' /\ BurstBound'
  BY <1>2, <1>3, BucketPassesKeeps, BucketRefusesKeeps DEF LimiterInv
<1>6. RecordsLast' /\ WindowLimit'
  BY <1>2, <1>3, WindowPassesKeeps, WindowUnexpiredKeeps, WindowUntouchedKeeps
     DEF LimiterInv
<1> QED
  BY <1>4, <1>5, <1>6 DEF LimiterInv

\* Nothing else touches the limiters.
LEMMA OthersKeep ==
  ASSUME LimiterInv, UNCHANGED limiterVars
  PROVE  LimiterInv'
BY DEF LimiterInv, limiterVars, Bounds, Balance, Since, BurstBound, RecordsLast, WindowLimit

\* LimiterInv is inductive: no other step touches the limiters.
LEMMA NextLimits == LimiterInv /\ [Next]_vars => LimiterInv'
<1> SUFFICES ASSUME LimiterInv, [Next]_vars PROVE LimiterInv'
  OBVIOUS
<1>1. ASSUME NEW c \in Calls, Arrive(c) PROVE LimiterInv'
  BY <1>1, ArriveKeeps
<1>2. ASSUME NEW c \in Calls, Handler(c) \/ Leave(c) PROVE LimiterInv'
  <2>1. UNCHANGED limiterVars
    BY <1>2 DEF Handler, Leave, ChatSubmit, ChatAnswer, StreamReturn, StreamSubmit,
                StreamRead, SaveQuestion, SaveAnswer
  <2> QED
    BY <2>1, OthersKeep
<1>3. ASSUME NEW w \in Workers, WorkerStep(w) PROVE LimiterInv'
  BY <1>3, OthersKeep DEF WorkerStep
<1>4. CASE Quiet \/ UNCHANGED vars
  BY <1>4, OthersKeep DEF Quiet, vars
<1> QED
  BY <1>1, <1>2, <1>3, <1>4 DEF Next

\* The invariant of the limiters.
THEOREM LimiterInvariant == Spec => []LimiterInv
BY InitLimits, NextLimits, PTL DEF Spec

\* Between any two requests it lets through, the bucket has let through no more
\* than its capacity and its refill (rate_limiter.py:24-67).
THEOREM BurstsAreBounded == Spec => []BurstBound
<1>1. LimiterInv => BurstBound
  BY DEF LimiterInv
<1> QED
  BY <1>1, LimiterInvariant, PTL

\* No span of the window's length holds more recorded messages of a user than
\* the limit (rate_limiter.py:87-140).
THEOREM WindowsAreBounded == Spec => []WindowLimit
<1>1. LimiterInv => WindowLimit
  BY DEF LimiterInv
<1> QED
  BY <1>1, LimiterInvariant, PTL

-----------------------------------------------------------------------------
(***************************************************************************)
(* PART TWO: the work queue                                                *)
(***************************************************************************)

\* Calls in the queue, calls in the hands of a worker, and both.
Waiting == {queue[i] : i \in DOMAIN queue}
Serving == {job[w] : w \in Workers} \ {Idle}
Held == Waiting \cup Serving

\* What the proofs need of the types.
Types ==
  /\ mode \in [Calls -> {"chat", "stream"}]
  /\ queue \in Seq(Calls)
  /\ job \in [Workers -> Calls \cup {Idle}]
  /\ channel \in [Calls -> Seq(Events)]
  /\ progress \in [Calls -> Nat]
  /\ pc \in [Calls -> {"new"} \cup Open \cup Closed]
  /\ text \in [Calls -> Nat]
  /\ stored \in [Calls -> {"nothing", "question", "both"}]
  /\ answer \in [Calls -> Nat]

\* A call is at one place of the queue or in the hands of one worker, and only
\* if it was submitted.
OneHolder ==
  /\ putters = {}
  /\ \A i, j \in DOMAIN queue : queue[i] = queue[j] => i = j
  /\ \A v, w \in Workers : job[v] = job[w] => v = w \/ job[v] = Idle
  /\ Waiting \cap Serving = {}
  /\ \A c \in Held : pc[c] \notin {"new", "context", "opening"}

\* The first n events in a channel, of which `read' came before, are as the
\* engine yields them: meta first and tokens then.
Yielded(c, n, read) ==
  \A i \in 1 .. n : channel[c][i] = IF read + i = 1 THEN "meta" ELSE "token"

\* Tokens among the first events.
TokensOf(read) == IF read = 0 THEN 0 ELSE read - 1

\* The engine still works for the call, or will.
Running(c) ==
  LET n == Len(channel[c]) IN
  /\ n <= progress[c] /\ progress[c] <= MaxTokens + 1
  /\ Yielded(c, n, progress[c] - n)
  /\ text[c] = TokensOf(progress[c] - n)

\* The engine is done, and done and the end mark are still to be read.
Finished(c) ==
  LET n == Len(channel[c]) - 2 IN
  /\ c \notin Held
  /\ n \in Nat /\ n + 1 <= progress[c] /\ progress[c] >= 2
  /\ Yielded(c, n, progress[c] - (n + 1))
  /\ channel[c][n + 1] = "done" /\ channel[c][n + 2] = "END"
  /\ text[c] = TokensOf(progress[c] - (n + 1))

\* The engine raised before the first token, and no done will be read.
Raised(c) ==
  LET n == Len(channel[c]) - 1 IN
  /\ c \notin Held
  /\ n \in Nat
  /\ \A i \in 1 .. n : channel[c][i] = "meta"
  /\ channel[c][n + 1] = "END"

\* Only the end mark is left.
AtEnd(c) == c \notin Held /\ channel[c] = <<"END">>

\* Where a streamed call stands and what it has got.
StreamOK(c) ==
  /\ pc[c] \in {"new", "context", "opening"} =>
       channel[c] = <<>> /\ progress[c] = 0 /\ text[c] = 0 /\ stored[c] = "nothing"
  /\ pc[c] = "reading" /\ stored[c] # "both" => Running(c) \/ Finished(c) \/ Raised(c)
  /\ pc[c] = "reading" /\ stored[c] = "both" => AtEnd(c)
  /\ pc[c] \in {"done_read", "question_saved"} =>
       AtEnd(c) /\ text[c] + 2 = progress[c]
  /\ stored[c] = "both" => c \notin Held /\ answer[c] + 2 = progress[c]

\* Plain calls never read events, streamed ones never wait for a future.
ModeOK(c) ==
  /\ pc[c] \in {"opening", "reading", "done_read"} => mode[c] = "stream"
  /\ pc[c] \in {"waiting", "answered"} => mode[c] = "chat"

QueueInv ==
  /\ Types
  /\ OneHolder
  /\ \A c \in Calls : ModeOK(c) /\ (mode[c] = "stream" => StreamOK(c))

-----------------------------------------------------------------------------
(***************************************************************************)
(* How calls move through the queue                                        *)
(***************************************************************************)

\* An accepted call goes to the end of the queue; nobody had it before.
LEMMA SubmitMoves ==
  ASSUME QueueInv, NEW c \in Calls, pc[c] \in {"context", "opening"}, Submit(c)
  PROVE  /\ queue' \in Seq(Calls) /\ putters' = {} /\ job' = job
         /\ \A i, j \in DOMAIN queue' : queue'[i] = queue'[j] => i = j
         /\ c \notin Held
         /\ Waiting' = Waiting \cup {c} /\ Serving' = Serving
<1>1. /\ queue' = Append(queue, c) /\ putters' = {} /\ job' = job
      /\ queue \in Seq(Calls)
  BY QueueAssumption DEF Submit, QueueFull, Put, QueueInv, Types, OneHolder
<1>2. c \notin Held
  BY DEF QueueInv, OneHolder
<1>3. /\ queue' \in Seq(Calls) /\ DOMAIN queue' = 1 .. Len(queue) + 1
      /\ DOMAIN queue = 1 .. Len(queue) /\ Len(queue) \in Nat
      /\ \A i \in 1 .. Len(queue) : queue'[i] = queue[i]
      /\ queue'[Len(queue) + 1] = c
  BY <1>1
<1>4. \A i \in 1 .. Len(queue) : queue[i] # c
  BY <1>2, <1>3 DEF Held, Waiting
<1>5. ASSUME NEW i \in DOMAIN queue', NEW j \in DOMAIN queue', queue'[i] = queue'[j]
      PROVE  i = j
  <2>1. \A k \in DOMAIN queue' : k \in 1 .. Len(queue) \/ k = Len(queue) + 1
    BY <1>3
  <2> QED
    BY <1>3, <1>4, <1>5, <2>1 DEF QueueInv, OneHolder
<1>6. Waiting' = Waiting \cup {c}
  <2>1. \A k \in DOMAIN queue' : k \in 1 .. Len(queue) \/ k = Len(queue) + 1
    BY <1>3
  <2>2. 1 .. Len(queue) \subseteq DOMAIN queue' /\ Len(queue) + 1 \in DOMAIN queue'
    BY <1>3
  <2> QED
    BY <1>3, <2>1, <2>2 DEF Waiting
<1> QED
  BY <1>1, <1>2, <1>3, <1>5, <1>6 DEF Serving

\* A worker takes the first call of the queue, which nobody else has.
LEMMA TakeMoves ==
  ASSUME QueueInv, NEW w \in Workers, Take(w), pc' = pc
  PROVE  /\ queue' \in Seq(Calls) /\ job' \in [Workers -> Calls \cup {Idle}]
         /\ Head(queue) \in Waiting
         /\ Waiting' = Waiting \ {Head(queue)}
         /\ Serving' = Serving \cup {Head(queue)}
         /\ OneHolder' /\ Held' = Held
<1> DEFINE h == Head(queue)
<1>1. /\ queue \in Seq(Calls) /\ queue # <<>> /\ queue' = Tail(queue)
      /\ job \in [Workers -> Calls \cup {Idle}] /\ job' = [job EXCEPT ![w] = h]
      /\ job[w] = Idle /\ putters' = putters
  BY DEF Take, QueueInv, Types
<1>2. /\ Len(queue) \in Nat /\ Len(queue) >= 1 /\ DOMAIN queue = 1 .. Len(queue)
      /\ queue' \in Seq(Calls) /\ DOMAIN queue' = 1 .. Len(queue) - 1
      /\ \A i \in 1 .. Len(queue) - 1 : queue'[i] = queue[i + 1]
      /\ h = queue[1] /\ h \in Calls
  BY <1>1
<1>3. h \in Waiting
  BY <1>2 DEF Waiting
<1>4. \A i, j \in DOMAIN queue : queue[i] = queue[j] => i = j
  BY DEF QueueInv, OneHolder
<1>5. \A i, j \in DOMAIN queue' : queue'[i] = queue'[j] => i = j
  <2>1. \A i \in 1 .. Len(queue) - 1 : i + 1 \in 1 .. Len(queue)
    BY <1>2
  <2> QED
    BY <1>2, <1>4, <2>1
<1>6. Waiting' = Waiting \ {h}
  <2>1. ASSUME NEW x \in Waiting' PROVE x \in Waiting \ {h}
    <3>1. PICK i \in 1 .. Len(queue) - 1 : x = queue[i + 1]
      BY <1>2, <2>1 DEF Waiting
    <3>2. i + 1 \in DOMAIN queue /\ i + 1 # 1 /\ 1 \in DOMAIN queue
      BY <1>2
    <3> QED
      BY <1>2, <1>4, <3>1, <3>2 DEF Waiting
  <2>2. ASSUME NEW x \in Waiting \ {h} PROVE x \in Waiting'
    <3>1. PICK i \in DOMAIN queue : x = queue[i]
      BY DEF Waiting
    <3>2. i # 1
      BY <1>2, <3>1
    <3>3. i - 1 \in DOMAIN queue' /\ queue'[i - 1] = x
      BY <1>2, <3>1, <3>2
    <3> QED
      BY <3>3 DEF Waiting
  <2> QED
    BY <2>1, <2>2
<1>7. \A v \in Workers : job'[v] = IF v = w THEN h ELSE job[v]
  BY <1>1
<1>8. h # Idle /\ h \notin Serving
  BY <1>2, <1>3, QueueAssumption DEF QueueInv, OneHolder
<1>9. Serving' = Serving \cup {h}
  BY <1>1, <1>7, <1>8 DEF Serving
<1>10. \A u, v \in Workers : job'[u] = job'[v] => u = v \/ job'[u] = Idle
  <2>1. \A v \in Workers : job[v] = h => FALSE
    BY <1>8 DEF Serving
  <2>2. \A u, v \in Workers : job[u] = job[v] => u = v \/ job[u] = Idle
    BY DEF QueueInv, OneHolder
  <2> QED
    BY <1>7, <2>1, <2>2
<1>11. job' \in [Workers -> Calls \cup {Idle}]
  BY <1>1, <1>2
<1>12. Held' = Held
  BY <1>3, <1>6, <1>9 DEF Held
<1> HIDE DEF h
<1>13. Waiting' \cap Serving' = {}
  BY <1>6, <1>9 DEF QueueInv, OneHolder
<1>14. OneHolder'
  <2>1. putters' = {} /\ \A c \in Held' : pc'[c] \notin {"new", "context", "opening"}
    BY <1>1, <1>12 DEF QueueInv, OneHolder
  <2> QED
    BY <1>5, <1>10, <1>13, <2>1 DEF OneHolder
<1> QED
  BY <1>2, <1>3, <1>6, <1>9, <1>11, <1>12, <1>14 DEF h

\* A worker that is done lets go of its call.
LEMMA FinishMoves ==
  ASSUME QueueInv, NEW w \in Workers, job[w] # Idle,
         job' = [job EXCEPT ![w] = Idle], queue' = queue, putters' = putters
  PROVE  /\ job' \in [Workers -> Calls \cup {Idle}]
         /\ job[w] \in Calls /\ job[w] \in Serving
         /\ Waiting' = Waiting /\ Serving' = Serving \ {job[w]}
         /\ \A u, v \in Workers : job'[u] = job'[v] => u = v \/ job'[u] = Idle
         /\ Held' = Held \ {job[w]}
<1>1. /\ job \in [Workers -> Calls \cup {Idle}]
      /\ \A u, v \in Workers : job[u] = job[v] => u = v \/ job[u] = Idle
      /\ Waiting \cap Serving = {}
  BY DEF QueueInv, Types, OneHolder
<1>2. \A v \in Workers : job'[v] = IF v = w THEN Idle ELSE job[v]
  BY <1>1
<1>3. job[w] \in Calls /\ job[w] \in Serving
  BY <1>1 DEF Serving
<1>4. Serving' = Serving \ {job[w]}
  BY <1>1, <1>2 DEF Serving
<1>5. Waiting' = Waiting
  BY DEF Waiting
<1>6. \A u, v \in Workers : job'[u] = job'[v] => u = v \/ job'[u] = Idle
  BY <1>1, <1>2
<1>7. Held' = Held \ {job[w]}
  BY <1>1, <1>3, <1>4, <1>5 DEF Held
<1> QED
  BY <1>1, <1>3, <1>4, <1>5, <1>6, <1>7

-----------------------------------------------------------------------------
(***************************************************************************)
(* What a step on one call leaves alone                                    *)
(***************************************************************************)

CallsOK == \A c \in Calls : ModeOK(c) /\ (mode[c] = "stream" => StreamOK(c))

\* A step of one call leaves what holds of the others.
LEMMA OthersStay ==
  ASSUME CallsOK, NEW c \in Calls, mode' = mode,
         \A d \in Calls \ {c} :
           /\ pc'[d] = pc[d] /\ text'[d] = text[d] /\ stored'[d] = stored[d]
           /\ answer'[d] = answer[d] /\ channel'[d] = channel[d]
           /\ progress'[d] = progress[d],
         Held' \subseteq Held \cup {c},
         ModeOK(c)', mode[c] = "stream" => StreamOK(c)'
  PROVE  CallsOK'
<1>1. ASSUME NEW d \in Calls \ {c}
      PROVE  ModeOK(d)' /\ (mode[d] = "stream" => StreamOK(d)')
  <2>1. /\ pc'[d] = pc[d] /\ text'[d] = text[d] /\ stored'[d] = stored[d]
        /\ answer'[d] = answer[d] /\ channel'[d] = channel[d]
        /\ progress'[d] = progress[d] /\ mode'[d] = mode[d]
        /\ d \in Held' => d \in Held
    OBVIOUS
  <2>2. ModeOK(d)'
    BY <2>1 DEF CallsOK, ModeOK
  <2>3. ASSUME mode[d] = "stream" PROVE StreamOK(d)'
    <3>1. StreamOK(d)
      BY <2>3 DEF CallsOK
    <3>2. /\ Running(d) => Running(d)'
          /\ Finished(d) => Finished(d)'
          /\ Raised(d) => Raised(d)'
          /\ AtEnd(d) => AtEnd(d)'
      BY <2>1 DEF Running, Finished, Raised, AtEnd, Yielded
    <3> QED
      BY <2>1, <3>1, <3>2 DEF StreamOK
  <2> QED
    BY <2>2, <2>3
<1> QED
  BY <1>1 DEF CallsOK

\* A handler's step that does not touch the queue.
LEMMA HolderStays ==
  ASSUME OneHolder, UNCHANGED <<queue, putters, job>>,
         NEW c \in Calls, c \in Held => pc'[c] \notin {"new", "context", "opening"},
         \A d \in Calls \ {c} : pc'[d] = pc[d],
         Held \subseteq Calls
  PROVE  OneHolder' /\ Held' = Held
<1>1. Waiting' = Waiting /\ Serving' = Serving /\ Held' = Held
  BY DEF Waiting, Serving, Held
<1> QED
  BY <1>1 DEF OneHolder

\* The queue and the workers hold nothing but calls.
LEMMA HeldAreCalls ==
  ASSUME Types
  PROVE  Held \subseteq Calls
BY DEF Types, Held, Waiting, Serving

-----------------------------------------------------------------------------
(***************************************************************************)
(* The handlers                                                            *)
(***************************************************************************)

\* A call that comes in is not yet in the hands of the queue.
LEMMA ArriveOK ==
  ASSUME QueueInv, NEW c \in Calls, Arrive(c)
  PROVE  QueueInv'
<1>1. /\ pc[c] = "new" /\ UNCHANGED <<queueVars, text, stored, answer>>
      /\ \/ pc' = [pc EXCEPT ![c] = "refused"]
         \/ pc' = [pc EXCEPT ![c] = "context"]
  BY DEF Arrive, Goto
<1>2. Types'
  BY <1>1 DEF QueueInv, Types, queueVars, Open, Closed
<1>3. c \notin Held
  BY <1>1 DEF QueueInv, OneHolder
<1>4. OneHolder' /\ Held' = Held
  BY <1>1, <1>3, HolderStays, HeldAreCalls DEF QueueInv, Types, queueVars
<1>5. ModeOK(c)'
  BY <1>1 DEF QueueInv, Types, ModeOK
<1>6. mode[c] = "stream" => StreamOK(c)'
  BY <1>1, <1>4 DEF QueueInv, Types, StreamOK, queueVars
<1>7. CallsOK'
  BY <1>1, <1>4, <1>5, <1>6, OthersStay DEF QueueInv, CallsOK, Types, queueVars
<1> QED
  BY <1>2, <1>4, <1>7 DEF QueueInv, CallsOK

\* A plain call that is submitted is held, or refused by a full queue.
LEMMA ChatSubmitOK ==
  ASSUME QueueInv, NEW c \in Calls, ChatSubmit(c)
  PROVE  QueueInv'
<1>1. /\ pc[c] = "context" /\ mode[c] = "chat" /\ UNCHANGED <<text, stored, answer>>
      /\ \/ Submit(c) /\ pc' = [pc EXCEPT ![c] = "waiting"]
         \/ UNCHANGED queueVars /\ pc' = [pc EXCEPT ![c] = "failed"]
  BY DEF ChatSubmit, Goto
<1>2. UNCHANGED <<mode, channel, progress>>
  BY <1>1 DEF Submit, queueVars
<1>3. ModeOK(c)'
  BY <1>1, <1>2 DEF QueueInv, Types, ModeOK
<1>4. CASE Submit(c) /\ pc' = [pc EXCEPT ![c] = "waiting"]
  <2>1. /\ queue' \in Seq(Calls) /\ putters' = {} /\ job' = job
        /\ \A i, j \in DOMAIN queue' : queue'[i] = queue'[j] => i = j
        /\ c \notin Held
        /\ Waiting' = Waiting \cup {c} /\ Serving' = Serving
    BY <1>1, <1>4, SubmitMoves
  <2>2. Held' = Held \cup {c}
    BY <2>1 DEF Held
  <2>3. Types'
    BY <1>1, <1>2, <1>4, <2>1 DEF QueueInv, Types, Open
  <2>4. OneHolder'
    BY <1>4, <2>1, <2>2, HeldAreCalls DEF QueueInv, Types, OneHolder, Held
  <2>5. CallsOK'
    BY <1>1, <1>2, <1>3, <1>4, <2>2, OthersStay DEF QueueInv, CallsOK, Types
  <2> QED
    BY <2>3, <2>4, <2>5 DEF QueueInv, CallsOK
<1>5. CASE UNCHANGED queueVars /\ pc' = [pc EXCEPT ![c] = "failed"]
  <2>1. OneHolder' /\ Held' = Held
    BY <1>5, HolderStays, HeldAreCalls DEF QueueInv, Types, queueVars
  <2>2. Types'
    BY <1>1, <1>5 DEF QueueInv, Types, Closed, queueVars
  <2>3. CallsOK'
    BY <1>1, <1>2, <1>3, <1>5, <2>1, OthersStay DEF QueueInv, CallsOK, Types
  <2> QED
    BY <2>1, <2>2, <2>3 DEF QueueInv, CallsOK
<1> QED
  BY <1>1, <1>4, <1>5

\* A streamed call is submitted with an empty token queue.
LEMMA StreamSubmitOK ==
  ASSUME QueueInv, NEW c \in Calls, StreamSubmit(c)
  PROVE  QueueInv'
<1>1. /\ pc[c] = "opening" /\ UNCHANGED <<text, stored, answer>>
      /\ \/ Submit(c) /\ pc' = [pc EXCEPT ![c] = "reading"]
         \/ UNCHANGED queueVars /\ pc' = [pc EXCEPT ![c] = "dropped"]
  BY DEF StreamSubmit, Goto
<1>2. UNCHANGED <<mode, channel, progress>>
  BY <1>1 DEF Submit, queueVars
<1>3. /\ mode[c] = "stream" /\ channel[c] = <<>> /\ progress[c] = 0
      /\ text[c] = 0 /\ stored[c] = "nothing"
  BY <1>1 DEF QueueInv, ModeOK, StreamOK
<1>4. ModeOK(c)'
  BY <1>1, <1>2, <1>3 DEF QueueInv, Types, ModeOK
<1>5. Running(c)'
  <2>1. channel'[c] = <<>> /\ progress'[c] = 0 /\ text'[c] = 0 /\ Len(channel'[c]) = 0
    BY <1>1, <1>2, <1>3
  <2>2. Yielded(c, 0, 0)'
    BY DEF Yielded
  <2>3. progress'[c] - Len(channel'[c]) = 0 /\ Len(channel'[c]) <= progress'[c]
    <3>1. Len(channel'[c]) = 0 /\ progress'[c] = 0
      BY <2>1
    <3> QED
      BY <3>1
  <2>4. text'[c] = TokensOf(0) /\ progress'[c] <= MaxTokens + 1
    BY <2>1, QueueAssumption DEF TokensOf
  <2> QED
    BY <2>1, <2>2, <2>3, <2>4 DEF Running
<1>6. StreamOK(c)'
  BY <1>1, <1>3, <1>5 DEF QueueInv, Types, StreamOK
<1>7. CASE Submit(c) /\ pc' = [pc EXCEPT ![c] = "reading"]
  <2>1. /\ queue' \in Seq(Calls) /\ putters' = {} /\ job' = job
        /\ \A i, j \in DOMAIN queue' : queue'[i] = queue'[j] => i = j
        /\ c \notin Held
        /\ Waiting' = Waiting \cup {c} /\ Serving' = Serving
    BY <1>1, <1>7, SubmitMoves
  <2>2. Held' = Held \cup {c}
    BY <2>1 DEF Held
  <2>3. Types'
    BY <1>1, <1>2, <1>7, <2>1 DEF QueueInv, Types, Open
  <2>4. OneHolder'
    BY <1>7, <2>1, <2>2, HeldAreCalls DEF QueueInv, Types, OneHolder, Held
  <2>5. CallsOK'
    BY <1>1, <1>2, <1>4, <1>6, <1>7, <2>2, OthersStay DEF QueueInv, CallsOK, Types
  <2> QED
    BY <2>3, <2>4, <2>5 DEF QueueInv, CallsOK
<1>8. CASE UNCHANGED queueVars /\ pc' = [pc EXCEPT ![c] = "dropped"]
  <2>1. OneHolder' /\ Held' = Held
    BY <1>8, HolderStays, HeldAreCalls DEF QueueInv, Types, queueVars
  <2>2. Types'
    BY <1>1, <1>8 DEF QueueInv, Types, Closed, queueVars
  <2>3. CallsOK'
    BY <1>1, <1>2, <1>4, <1>6, <1>8, <2>1, OthersStay DEF QueueInv, CallsOK, Types
  <2> QED
    BY <2>1, <2>2, <2>3 DEF QueueInv, CallsOK
<1> QED
  BY <1>1, <1>7, <1>8

\* The handler's steps between its calls of the queue.
LEMMA HandlerStepOK ==
  ASSUME QueueInv, NEW c \in Calls,
         ChatAnswer(c) \/ StreamReturn(c) \/ SaveQuestion(c) \/ SaveAnswer(c)
  PROVE  QueueInv'
<1>1. /\ UNCHANGED queueVars
      /\ pc[c] \notin {"new", "opening"}
      /\ \/ pc' = [pc EXCEPT ![c] = "answered"]
         \/ pc' = [pc EXCEPT ![c] = "failed"]
         \/ pc' = [pc EXCEPT ![c] = "question_saved"]
         \/ pc' = [pc EXCEPT ![c] = "ended"]
         \/ pc' = [pc EXCEPT ![c] = "reading"]
         \/ pc' = [pc EXCEPT ![c] = "opening"] /\ pc[c] = "context"
  BY DEF ChatAnswer, StreamReturn, SaveQuestion, SaveAnswer, Goto
<1>2. Types'
  <2>1. pc' \in [Calls -> {"new"} \cup Open \cup Closed]
    BY <1>1 DEF QueueInv, Types, Open, Closed
  <2>2. /\ text' \in [Calls -> Nat] /\ answer' \in [Calls -> Nat]
        /\ stored' \in [Calls -> {"nothing", "question", "both"}]
    <3>1. CASE ChatAnswer(c)
      BY <3>1, QueueAssumption DEF QueueInv, Types, ChatAnswer
    <3>2. CASE StreamReturn(c)
      BY <3>2 DEF QueueInv, Types, StreamReturn
    <3>3. CASE SaveQuestion(c)
      BY <3>3 DEF QueueInv, Types, SaveQuestion
    <3>4. CASE SaveAnswer(c)
      BY <3>4 DEF QueueInv, Types, SaveAnswer
    <3> QED
      BY <3>1, <3>2, <3>3, <3>4
  <2> QED
    BY <1>1, <2>1, <2>2 DEF QueueInv, Types, queueVars
<1>3. OneHolder' /\ Held' = Held
  <2>1. c \in Held => pc'[c] \notin {"new", "context", "opening"}
    BY <1>1 DEF QueueInv, OneHolder, Types
  <2> QED
    BY <1>1, <2>1, HolderStays, HeldAreCalls DEF QueueInv, Types, queueVars
<1>4. /\ \A d \in Calls \ {c} :
           /\ pc'[d] = pc[d] /\ text'[d] = text[d] /\ stored'[d] = stored[d]
           /\ answer'[d] = answer[d] /\ channel'[d] = channel[d]
           /\ progress'[d] = progress[d]
      /\ mode' = mode
  <2>1. \A d \in Calls \ {c} :
          pc'[d] = pc[d] /\ channel'[d] = channel[d] /\ progress'[d] = progress[d]
    BY <1>1 DEF QueueInv, Types, queueVars
  <2>2. \A d \in Calls \ {c} :
          text'[d] = text[d] /\ stored'[d] = stored[d] /\ answer'[d] = answer[d]
    BY DEF QueueInv, Types, ChatAnswer, StreamReturn, SaveQuestion, SaveAnswer
  <2> QED
    BY <1>1, <2>1, <2>2 DEF queueVars
<1>5. ModeOK(c) /\ (mode[c] = "stream" => StreamOK(c)) /\ mode[c] \in {"chat", "stream"}
  BY DEF QueueInv, Types
<1>6. AtEnd(c) => AtEnd(c)'
  BY <1>1, <1>3 DEF AtEnd, queueVars
<1>7. ModeOK(c)' /\ (mode[c] = "stream" => StreamOK(c)')
  <2>1. CASE ChatAnswer(c)
    <3>1. pc[c] = "waiting" /\ pc'[c] \in {"answered", "failed"}
      BY <2>1 DEF ChatAnswer, Goto, QueueInv, Types
    <3> QED
      BY <1>4, <1>5, <3>1 DEF ModeOK
  <2>2. CASE StreamReturn(c)
    <3>1. /\ pc[c] = "context" /\ pc'[c] = "opening" /\ mode[c] = "stream"
          /\ UNCHANGED <<text, stored, answer>>
      BY <2>2 DEF StreamReturn, Goto, QueueInv, Types
    <3> QED
      BY <1>1, <1>4, <1>5, <3>1 DEF ModeOK, StreamOK, queueVars
  <2>3. CASE SaveQuestion(c)
    <3>1. /\ pc[c] \in {"answered", "done_read"} /\ pc'[c] = "question_saved"
          /\ stored'[c] = "question" /\ UNCHANGED text
      BY <2>3 DEF SaveQuestion, Goto, QueueInv, Types
    <3> QED
      BY <1>1, <1>4, <1>5, <1>6, <3>1 DEF ModeOK, StreamOK, queueVars
  <2>4. CASE SaveAnswer(c)
    <3>1. /\ pc[c] = "question_saved" /\ stored'[c] = "both" /\ answer'[c] = text[c]
          /\ pc'[c] = IF mode[c] = "chat" THEN "ended" ELSE "reading"
      BY <2>4 DEF SaveAnswer, Goto, QueueInv, Types
    <3>2. ModeOK(c)'
      BY <1>4, <1>5, <3>1 DEF ModeOK
    <3>3. ASSUME mode[c] = "stream" PROVE StreamOK(c)'
      <4>1. AtEnd(c) /\ text[c] + 2 = progress[c]
        BY <1>5, <3>1, <3>3 DEF StreamOK
      <4> QED
        BY <1>1, <1>3, <1>6, <3>1, <3>3, <4>1 DEF StreamOK, AtEnd, queueVars
    <3> QED
      BY <3>2, <3>3
  <2> QED
    BY <2>1, <2>2, <2>3, <2>4
<1>8. CallsOK'
  BY <1>3, <1>4, <1>7, OthersStay DEF QueueInv, CallsOK
<1> QED
  BY <1>2, <1>3, <1>8 DEF QueueInv, CallsOK

\* A client that leaves takes neither its call nor its events along.
LEMMA LeaveOK ==
  ASSUME QueueInv, NEW c \in Calls, Leave(c)
  PROVE  QueueInv'
<1>1. /\ pc' = [pc EXCEPT ![c] = "gone"]
      /\ UNCHANGED <<mode, queue, putters, job, channel, progress, text, stored, answer>>
  BY DEF Leave, Goto, CancelFuture, queueVars
<1>2. Types'
  BY <1>1 DEF QueueInv, Types, Closed
<1>3. OneHolder' /\ Held' = Held
  BY <1>1, HolderStays, HeldAreCalls DEF QueueInv, Types
<1>4. pc'[c] = "gone"
  BY <1>1 DEF QueueInv, Types
<1>5. ModeOK(c)' /\ (mode[c] = "stream" => StreamOK(c)')
  BY <1>1, <1>3, <1>4 DEF QueueInv, ModeOK, StreamOK
<1>6. CallsOK'
  BY <1>1, <1>3, <1>5, OthersStay DEF QueueInv, CallsOK, Types
<1> QED
  BY <1>2, <1>3, <1>6 DEF QueueInv, CallsOK

-----------------------------------------------------------------------------
(***************************************************************************)
(* Reading and writing a channel                                           *)
(***************************************************************************)

\* The next event is read.
LEMMA ReadOne ==
  ASSUME NEW seq \in Seq(Events), seq # <<>>
  PROVE  /\ Tail(seq) \in Seq(Events) /\ Len(Tail(seq)) = Len(seq) - 1
         /\ Head(seq) = seq[1] /\ Len(seq) \in Nat /\ Len(seq) >= 1
         /\ \A i \in 1 .. Len(seq) - 1 : Tail(seq)[i] = seq[i + 1]
OBVIOUS

\* Reading one more event adds one to the text, except for the first.
LEMMA TokenCount ==
  ASSUME NEW r \in Nat, NEW e, e = IF r + 1 = 1 THEN "meta" ELSE "token"
  PROVE  (IF e = "token" THEN TokensOf(r) + 1 ELSE TokensOf(r)) = TokensOf(r + 1)
BY DEF TokensOf

\* The reader takes the oldest event and adds a token to its text.
LEMMA StreamReadOK ==
  ASSUME QueueInv, NEW c \in Calls, StreamRead(c)
  PROVE  QueueInv'
<1> DEFINE L == Len(channel[c])
           e == channel[c][1]
<1>1. /\ pc[c] = "reading" /\ channel[c] # <<>> /\ channel[c] \in Seq(Events)
      /\ channel' = [channel EXCEPT ![c] = Tail(@)]
      /\ text' = [text EXCEPT ![c] = TextAfter(c, Head(channel[c]))]
      /\ UNCHANGED <<mode, queue, putters, job, progress, stored, answer>>
      /\ pc' = [pc EXCEPT ![c] = CASE Head(channel[c]) = "done" -> "done_read"
                                   [] Head(channel[c]) = "END" -> "ended"
                                   [] OTHER -> "reading"]
  BY DEF StreamRead, Read, Goto, QueueInv, Types
<1>2. /\ Head(channel[c]) = e /\ L \in Nat /\ L >= 1
      /\ channel'[c] \in Seq(Events) /\ Len(channel'[c]) = L - 1
      /\ \A i \in 1 .. L - 1 : channel'[c][i] = channel[c][i + 1]
  BY <1>1, ReadOne DEF QueueInv, Types
<1>3. /\ text[c] \in Nat /\ progress[c] \in Nat /\ progress'[c] = progress[c]
      /\ stored'[c] = stored[c] /\ answer'[c] = answer[c]
      /\ text'[c] = IF e = "token" THEN text[c] + 1 ELSE text[c]
      /\ pc'[c] = IF e = "done" THEN "done_read" ELSE IF e = "END" THEN "ended" ELSE "reading"
  BY <1>1, <1>2 DEF QueueInv, Types, TextAfter
<1>4. Types'
  <2>1. pc' \in [Calls -> {"new"} \cup Open \cup Closed]
    BY <1>1 DEF QueueInv, Types, Open, Closed
  <2>2. text' \in [Calls -> Nat]
    BY <1>1 DEF QueueInv, Types, TextAfter
  <2>3. channel' \in [Calls -> Seq(Events)]
    BY <1>1, <1>2 DEF QueueInv, Types
  <2> QED
    BY <1>1, <2>1, <2>2, <2>3 DEF QueueInv, Types
<1>5. OneHolder' /\ Held' = Held
  BY <1>1, <1>3, HolderStays, HeldAreCalls DEF QueueInv, Types
<1>6. mode[c] = "stream" /\ StreamOK(c)
  BY <1>1 DEF QueueInv, ModeOK
<1> HIDE DEF L, e
<1>7. ModeOK(c)'
  BY <1>1, <1>3, <1>6 DEF ModeOK
<1>8. /\ L \in Nat /\ L >= 1 /\ progress[c] \in Nat /\ text[c] \in Nat
      /\ \A i \in 1 .. L - 1 : i + 1 \in 1 .. L
  <2>1. L \in Nat /\ L >= 1 /\ progress[c] \in Nat /\ text[c] \in Nat
    BY <1>2, <1>3
  <2> QED
    BY <2>1
<1>9. ASSUME stored[c] = "both" PROVE StreamOK(c)'
  <2>1. AtEnd(c)
    BY <1>1, <1>6, <1>9 DEF StreamOK
  <2>2. e = "END"
    BY <2>1 DEF AtEnd, e
  <2> QED
    BY <1>3, <1>5, <1>6, <1>9, <2>2 DEF StreamOK
<1>10. ASSUME stored[c] # "both" PROVE StreamOK(c)'
  <2>1. CASE Running(c)
    <3>1. /\ L <= progress[c] /\ progress[c] <= MaxTokens + 1
          /\ text[c] = TokensOf(progress[c] - L)
          /\ \A i \in 1 .. L :
               channel[c][i] = IF progress[c] - L + i = 1 THEN "meta" ELSE "token"
      BY <2>1 DEF Running, Yielded, L
    <3>2. e = IF progress[c] - L + 1 = 1 THEN "meta" ELSE "token"
      BY <1>2, <3>1 DEF e
    <3>3. text'[c] = TokensOf(progress[c] - (L - 1))
      <4>1. progress[c] - L \in Nat /\ (progress[c] - L) + 1 = progress[c] - (L - 1)
        BY <1>8, <3>1
      <4>2. (IF e = "token" THEN TokensOf(progress[c] - L) + 1 ELSE TokensOf(progress[c] - L))
              = TokensOf((progress[c] - L) + 1)
        BY <3>2, <4>1, TokenCount
      <4> QED
        BY <1>3, <3>1, <4>1, <4>2
    <3>4. \A i \in 1 .. L - 1 :
            channel'[c][i] = IF progress[c] - (L - 1) + i = 1 THEN "meta" ELSE "token"
      <4>1. \A i \in 1 .. L - 1 :
              i + 1 \in 1 .. L /\ progress[c] - L + (i + 1) = progress[c] - (L - 1) + i
        BY <1>8
      <4> QED
        BY <1>2, <3>1, <4>1
    <3>5. Running(c)'
      <4>1. PICK m \in Nat : m = Len(channel'[c]) /\ m = L - 1
        BY <1>2, <1>8
      <4>2. m <= progress'[c] /\ progress'[c] <= MaxTokens + 1
        BY <1>3, <1>8, <3>1, <4>1
      <4>3. text'[c] = TokensOf(progress'[c] - m)
        BY <1>3, <3>3, <4>1
      <4>4. \A i \in 1 .. m :
              channel'[c][i] = IF progress'[c] - m + i = 1 THEN "meta" ELSE "token"
        BY <1>3, <3>4, <4>1
      <4> QED
        BY <4>1, <4>2, <4>3, <4>4 DEF Running, Yielded
    <3>6. pc'[c] = "reading"
      BY <1>3, <3>2
    <3> QED
      BY <1>3, <1>10, <3>5, <3>6 DEF StreamOK
  <2>2. CASE Finished(c)
    <3> DEFINE n == L - 2
    <3>1. /\ c \notin Held /\ n \in Nat /\ n + 1 <= progress[c] /\ progress[c] >= 2
          /\ channel[c][n + 1] = "done" /\ channel[c][n + 2] = "END"
          /\ text[c] = TokensOf(progress[c] - (n + 1))
          /\ \A i \in 1 .. n :
               channel[c][i] = IF progress[c] - (n + 1) + i = 1 THEN "meta" ELSE "token"
      BY <2>2 DEF Finished, Yielded, L
    <3>2. CASE n = 0
      <4>1. e = "done" /\ text[c] + 2 = progress[c]
        BY <1>3, <3>1, <3>2 DEF e, TokensOf
      <4>2. Len(channel'[c]) = 1 /\ channel'[c][1] = "END" /\ channel'[c] \in Seq(Events)
        BY <1>2, <3>1, <3>2
      <4>3. channel'[c] = <<"END">>
        BY <4>2
      <4> QED
        BY <1>3, <1>5, <1>10, <3>1, <4>1, <4>3 DEF StreamOK, AtEnd
    <3>3. CASE n # 0
      <4>1. e = IF progress[c] - (n + 1) + 1 = 1 THEN "meta" ELSE "token"
        <5>1. 1 \in 1 .. n
          <6>1. n \in Nat
            BY <3>1
          <6> HIDE DEF n
          <6> QED
            BY <3>3, <6>1
        <5> QED
          BY <3>1, <5>1 DEF e
      <4>2. text'[c] = TokensOf(progress[c] - n)
        <5>1. progress[c] - (n + 1) \in Nat /\ (progress[c] - (n + 1)) + 1 = progress[c] - n
          BY <1>8, <3>1
        <5>2. (IF e = "token" THEN TokensOf(progress[c] - (n + 1)) + 1
                              ELSE TokensOf(progress[c] - (n + 1)))
                = TokensOf((progress[c] - (n + 1)) + 1)
          BY <4>1, <5>1, TokenCount
        <5> QED
          BY <1>3, <3>1, <5>1, <5>2
      <4>3. /\ n \in 1 .. L - 1 /\ n + 1 \in 1 .. L - 1 /\ L = n + 2
            /\ \A i \in 1 .. n - 1 :
                 /\ i \in 1 .. L - 1 /\ i + 1 \in 1 .. n
                 /\ progress[c] - (n + 1) + (i + 1) = progress[c] - n + i
        BY <1>8, <3>1, <3>3
      <4>4. channel'[c][n] = "done" /\ channel'[c][n + 1] = "END"
        BY <1>2, <3>1, <4>3
      <4>5. \A i \in 1 .. n - 1 :
              channel'[c][i] = IF progress[c] - n + i = 1 THEN "meta" ELSE "token"
        BY <1>2, <3>1, <4>3
      <4>6. Len(channel'[c]) - 2 = n - 1 /\ n - 1 \in Nat /\ (n - 1) + 1 = n /\ (n - 1) + 2 = n + 1
        BY <1>2, <3>1, <3>3, <4>3
      <4>7. Finished(c)'
        <5> HIDE DEF n
        <5>1. n <= progress[c]
          BY <1>3, <3>1, <4>6
        <5>2. PICK m \in Nat : /\ m = Len(channel'[c]) - 2
                               /\ m = n - 1 /\ m + 1 = n /\ m + 2 = n + 1
          BY <4>6
        <5>3. c \notin Held' /\ m + 1 <= progress'[c] /\ progress'[c] >= 2
          BY <1>3, <1>5, <3>1, <5>1, <5>2
        <5>4. /\ channel'[c][m + 1] = "done" /\ channel'[c][m + 2] = "END"
              /\ text'[c] = TokensOf(progress'[c] - (m + 1))
          BY <1>3, <4>2, <4>4, <5>2
        <5>5. \A i \in 1 .. m :
                channel'[c][i] = IF progress'[c] - (m + 1) + i = 1 THEN "meta" ELSE "token"
          BY <1>3, <4>5, <5>2
        <5> QED
          BY <5>2, <5>3, <5>4, <5>5 DEF Finished, Yielded
      <4>8. pc'[c] = "reading"
        BY <1>3, <4>1
      <4> QED
        BY <1>3, <1>10, <4>7, <4>8 DEF StreamOK
    <3> QED
      BY <3>2, <3>3
  <2>3. CASE Raised(c)
    <3> DEFINE n == L - 1
    <3>1. /\ c \notin Held /\ n \in Nat /\ channel[c][n + 1] = "END"
          /\ \A i \in 1 .. n : channel[c][i] = "meta"
      BY <2>3 DEF Raised, L
    <3>2. CASE n = 0
      <4>1. e = "END"
        BY <3>1, <3>2 DEF e
      <4> QED
        BY <1>3, <1>10, <4>1 DEF StreamOK
    <3>3. CASE n # 0
      <4>1. e = "meta"
        <5>1. 1 \in 1 .. n
          <6>1. n \in Nat
            BY <3>1
          <6> HIDE DEF n
          <6> QED
            BY <3>3, <6>1
        <5> QED
          BY <3>1, <5>1 DEF e
      <4>2. /\ n \in 1 .. L - 1 /\ L = n + 1
            /\ \A i \in 1 .. n - 1 : i \in 1 .. L - 1 /\ i + 1 \in 1 .. n
        BY <1>2, <3>1, <3>3
      <4>3. channel'[c][n] = "END"
        BY <1>2, <3>1, <4>2
      <4>4. \A i \in 1 .. n - 1 : channel'[c][i] = "meta"
        BY <1>2, <3>1, <4>2
      <4>5. Len(channel'[c]) - 1 = n - 1 /\ n - 1 \in Nat /\ (n - 1) + 1 = n
        BY <1>2, <3>1, <3>3, <4>2
      <4>6. Raised(c)'
        <5> HIDE DEF n
        <5> QED
          BY <1>5, <3>1, <4>3, <4>4, <4>5 DEF Raised
      <4>7. pc'[c] = "reading"
        BY <1>3, <4>1
      <4> QED
        BY <1>3, <1>10, <4>6, <4>7 DEF StreamOK
    <3> QED
      BY <3>2, <3>3
  <2> QED
    BY <1>1, <1>6, <1>10, <2>1, <2>2, <2>3 DEF StreamOK
<1>11. CallsOK'
  BY <1>1, <1>5, <1>7, <1>9, <1>10, OthersStay DEF QueueInv, CallsOK, Types
<1> QED
  BY <1>4, <1>5, <1>11 DEF QueueInv, CallsOK

-----------------------------------------------------------------------------
(***************************************************************************)
(* The workers                                                             *)
(***************************************************************************)

\* A worker that takes a call changes no event of it.
LEMMA TakeOK ==
  ASSUME QueueInv, NEW w \in Workers, Take(w), UNCHANGED endpointVars
  PROVE  QueueInv'
<1>1. /\ UNCHANGED <<mode, putters, future, channel, progress>>
      /\ UNCHANGED <<pc, text, stored, answer>>
  BY DEF Take, endpointVars
<1>2. /\ queue' \in Seq(Calls) /\ job' \in [Workers -> Calls \cup {Idle}]
      /\ Head(queue) \in Waiting /\ OneHolder' /\ Held' = Held
  BY <1>1, TakeMoves
<1>3. Types'
  BY <1>1, <1>2 DEF QueueInv, Types
<1>4. Head(queue) \in Calls
  BY <1>2, HeldAreCalls DEF Held, QueueInv
<1> DEFINE h == Head(queue)
<1>5. PICK c \in Calls : c = h
  BY <1>4
<1>6. ModeOK(c)' /\ (mode[c] = "stream" => StreamOK(c)')
  <2>1. ModeOK(c) /\ (mode[c] = "stream" => StreamOK(c))
    BY DEF QueueInv
  <2>2. ModeOK(c)' = ModeOK(c)
    BY <1>1 DEF ModeOK
  <2>3. Running(c)' = Running(c)
    BY <1>1 DEF Running, Yielded
  <2>4. Finished(c)' = Finished(c)
    BY <1>1, <1>2 DEF Finished, Yielded
  <2>5. Raised(c)' = Raised(c) /\ AtEnd(c)' = AtEnd(c)
    BY <1>1, <1>2 DEF Raised, AtEnd
  <2>6. StreamOK(c)' = StreamOK(c)
    BY <1>1, <1>2, <2>3, <2>4, <2>5 DEF StreamOK
  <2> QED
    BY <2>1, <2>2, <2>6
<1>7. CallsOK'
  BY <1>1, <1>2, <1>6, OthersStay DEF QueueInv, CallsOK
<1> QED
  BY <1>2, <1>3, <1>7 DEF QueueInv, CallsOK

\* A plain call ends in its future, whether anybody waits or not.
LEMMA HandleChatOK ==
  ASSUME QueueInv, NEW w \in Workers, HandleChat(w), UNCHANGED endpointVars
  PROVE  QueueInv'
<1>1. /\ job[w] # Idle /\ mode[job[w]] = "chat" /\ job' = [job EXCEPT ![w] = Idle]
      /\ UNCHANGED <<mode, queue, putters, channel, progress>>
      /\ UNCHANGED <<pc, text, stored, answer>>
  BY DEF HandleChat, endpointVars
<1>2. /\ job' \in [Workers -> Calls \cup {Idle}]
      /\ job[w] \in Calls
      /\ Waiting' = Waiting /\ Serving' = Serving \ {job[w]}
      /\ \A u, v \in Workers : job'[u] = job'[v] => u = v \/ job'[u] = Idle
      /\ Held' = Held \ {job[w]}
  BY <1>1, FinishMoves
<1>3. Types'
  BY <1>1, <1>2 DEF QueueInv, Types
<1>4. OneHolder'
  BY <1>1, <1>2 DEF QueueInv, OneHolder
<1>5. PICK c \in Calls : c = job[w]
  BY <1>2
<1>6. ModeOK(c)' /\ mode[c] = "chat"
  BY <1>1, <1>5 DEF QueueInv, ModeOK
<1>7. CallsOK'
  BY <1>1, <1>2, <1>6, OthersStay DEF QueueInv, CallsOK
<1> QED
  BY <1>3, <1>4, <1>7 DEF QueueInv, CallsOK

\* A call that is served is running if anybody reads its answer.
LEMMA ServedRuns ==
  ASSUME QueueInv, NEW c \in Held, c \in Calls, mode[c] = "stream"
  PROVE  /\ pc[c] \notin {"new", "context", "opening", "done_read", "question_saved"}
         /\ stored[c] # "both"
         /\ pc[c] = "reading" => Running(c)
<1>1. StreamOK(c) /\ pc[c] \notin {"new", "context", "opening"}
  BY DEF QueueInv, OneHolder
<1> QED
  BY <1>1 DEF StreamOK, AtEnd, Finished, Raised

\* The engine yields the next event, and the end mark after the last.
LEMMA HandleEventOK ==
  ASSUME QueueInv, NEW w \in Workers, HandleEvent(w), UNCHANGED endpointVars
  PROVE  QueueInv'
<1>1. PICK e \in NextEvents(progress[job[w]]) :
        IF e = "done"
        THEN /\ channel' = [channel EXCEPT ![job[w]] = @ \o <<e, "END">>]
             /\ job' = [job EXCEPT ![w] = Idle]
        ELSE /\ channel' = [channel EXCEPT ![job[w]] = Append(@, e)]
             /\ UNCHANGED job
  BY DEF HandleEvent
<1>2. /\ job[w] # Idle /\ mode[job[w]] = "stream"
      /\ progress' = [progress EXCEPT ![job[w]] = @ + 1]
      /\ UNCHANGED <<mode, queue, putters>>
      /\ UNCHANGED <<pc, text, stored, answer>>
  BY DEF HandleEvent, endpointVars
<1>3. job[w] \in Calls /\ job[w] \in Held
  BY <1>2 DEF QueueInv, Types, Held, Serving
<1>4. PICK c \in Calls : c = job[w]
  BY <1>3
<1>5. /\ c \in Held /\ mode[c] = "stream"
      /\ progress[c] \in Nat /\ progress'[c] = progress[c] + 1
      /\ channel[c] \in Seq(Events) /\ e \in Events
      /\ e = "done" => progress[c] >= 1
      /\ e # "done" => e = IF progress[c] = 0 THEN "meta" ELSE "token"
  BY <1>2, <1>3, <1>4 DEF QueueInv, Types, NextEvents, Events
<1>6. /\ pc[c] \notin {"new", "context", "opening", "done_read", "question_saved"}
      /\ stored[c] # "both"
      /\ pc[c] = "reading" => Running(c)
  BY <1>5, ServedRuns
<1>7. ModeOK(c)'
  BY <1>2 DEF QueueInv, ModeOK
<1> DEFINE L == Len(channel[c])
<1>8. L \in Nat
  BY <1>5
<1>9. ASSUME Running(c)
      PROVE  /\ L <= progress[c] /\ text[c] = TokensOf(progress[c] - L)
             /\ \A i \in 1 .. L :
                  channel[c][i] = IF progress[c] - L + i = 1 THEN "meta" ELSE "token"
  BY <1>9 DEF Running, Yielded
<1>10. e # "done" => progress'[c] <= MaxTokens + 1
  BY <1>1, <1>4, <1>5, QueueAssumption DEF NextEvents
<1>11. CASE e = "done"
  <2>1. /\ channel' = [channel EXCEPT ![c] = @ \o <<"done", "END">>]
        /\ job' = [job EXCEPT ![w] = Idle]
    BY <1>1, <1>4, <1>11
  <2>2. /\ job' \in [Workers -> Calls \cup {Idle}]
        /\ Waiting' = Waiting /\ Serving' = Serving \ {c}
        /\ \A u, v \in Workers : job'[u] = job'[v] => u = v \/ job'[u] = Idle
        /\ Held' = Held \ {c}
    BY <1>2, <1>4, <2>1, FinishMoves
  <2>3. channel'[c] = channel[c] \o <<"done", "END">> /\ <<"done", "END">> \in Seq(Events)
    BY <2>1 DEF QueueInv, Types, Events
  <2>4. /\ channel'[c] \in Seq(Events) /\ Len(channel'[c]) = L + 2
        /\ channel'[c][L + 1] = "done" /\ channel'[c][L + 2] = "END"
        /\ \A i \in 1 .. L : channel'[c][i] = channel[c][i]
    BY <1>5, <2>3
  <2>5. Types'
    <3>1. channel' \in [Calls -> Seq(Events)]
      BY <2>1, <2>4 DEF QueueInv, Types
    <3>2. progress' \in [Calls -> Nat]
      BY <1>2, <1>4, <1>5 DEF QueueInv, Types
    <3> QED
      BY <1>2, <2>2, <3>1, <3>2 DEF QueueInv, Types
  <2>6. OneHolder'
    BY <1>2, <2>2 DEF QueueInv, OneHolder
  <2>7. ASSUME pc[c] = "reading" PROVE Finished(c)'
    <3>1. Running(c)
      BY <1>6, <2>7
    <3> HIDE DEF L
    <3>2. /\ Len(channel'[c]) - 2 = L /\ L + 1 <= progress'[c] /\ progress'[c] >= 2
          /\ progress'[c] - (L + 1) = progress[c] - L
      BY <1>5, <1>8, <1>9, <1>11, <2>4, <3>1
    <3>3. /\ text'[c] = TokensOf(progress'[c] - (L + 1))
          /\ \A i \in 1 .. L :
               channel'[c][i] = IF progress'[c] - (L + 1) + i = 1 THEN "meta" ELSE "token"
      BY <1>2, <1>9, <2>4, <3>1, <3>2
    <3> QED
      BY <1>8, <2>2, <2>4, <3>2, <3>3 DEF Finished, Yielded
  <2>8. StreamOK(c)'
    BY <1>2, <1>6, <2>7 DEF StreamOK
  <2>9. CallsOK'
    BY <1>2, <1>4, <1>7, <2>1, <2>2, <2>8, OthersStay DEF QueueInv, CallsOK, Types
  <2> QED
    BY <2>5, <2>6, <2>9 DEF QueueInv, CallsOK
<1>12. CASE e # "done"
  <2>1. channel' = [channel EXCEPT ![c] = Append(@, e)] /\ job' = job
    BY <1>1, <1>4, <1>12
  <2>2. channel'[c] = Append(channel[c], e)
    BY <2>1 DEF QueueInv, Types
  <2>3. /\ channel'[c] \in Seq(Events) /\ Len(channel'[c]) = L + 1
        /\ channel'[c][L + 1] = e
        /\ \A i \in 1 .. L : channel'[c][i] = channel[c][i]
    BY <1>5, <2>2
  <2>4. Held' = Held /\ OneHolder'
    BY <1>2, <2>1 DEF QueueInv, OneHolder, Held, Waiting, Serving
  <2>5. Types'
    <3>1. channel' \in [Calls -> Seq(Events)]
      BY <2>1, <2>3 DEF QueueInv, Types
    <3>2. progress' \in [Calls -> Nat]
      BY <1>2, <1>4, <1>5 DEF QueueInv, Types
    <3> QED
      BY <1>2, <2>1, <3>1, <3>2 DEF QueueInv, Types
  <2>6. ASSUME pc[c] = "reading" PROVE Running(c)'
    <3>1. Running(c)
      BY <1>6, <2>6
    <3> HIDE DEF L
    <3>2. /\ L + 1 <= progress'[c] /\ progress'[c] - (L + 1) = progress[c] - L
          /\ progress[c] - L + (L + 1) = progress[c] + 1
      BY <1>5, <1>8, <1>9, <3>1
    <3>3. channel'[c][L + 1] = IF progress[c] - L + (L + 1) = 1 THEN "meta" ELSE "token"
      BY <1>5, <1>12, <2>3, <3>2
    <3>4. \A i \in 1 .. L + 1 : i \in 1 .. L \/ i = L + 1
      BY <1>8
    <3>5. \A i \in 1 .. L + 1 :
            channel'[c][i] = IF progress'[c] - (L + 1) + i = 1 THEN "meta" ELSE "token"
      BY <1>9, <2>3, <3>1, <3>2, <3>3, <3>4
    <3> QED
      BY <1>2, <1>9, <1>10, <1>12, <2>3, <3>1, <3>2, <3>5 DEF Running, Yielded
  <2>7. StreamOK(c)'
    BY <1>2, <1>6, <2>6 DEF StreamOK
  <2>8. CallsOK'
    BY <1>2, <1>4, <1>7, <2>1, <2>4, <2>7, OthersStay DEF QueueInv, CallsOK, Types
  <2> QED
    BY <2>4, <2>5, <2>8 DEF QueueInv, CallsOK
<1> QED
  BY <1>11, <1>12

\* The engine raises: the end mark comes without a done before it.
LEMMA HandleStreamErrorOK ==
  ASSUME QueueInv, NEW w \in Workers, HandleStreamError(w), UNCHANGED endpointVars
  PROVE  QueueInv'
<1>1. /\ job[w] # Idle /\ mode[job[w]] = "stream"
      /\ channel' = [channel EXCEPT ![job[w]] = Append(@, "END")]
      /\ job' = [job EXCEPT ![w] = Idle]
      /\ UNCHANGED <<mode, queue, putters, progress>>
      /\ UNCHANGED <<pc, text, stored, answer>>
  BY DEF HandleStreamError, endpointVars
<1>2. job[w] \in Calls /\ job[w] \in Held
  BY <1>1 DEF QueueInv, Types, Held, Serving
<1>3. PICK c \in Calls : c = job[w]
  BY <1>2
<1>4. /\ job' \in [Workers -> Calls \cup {Idle}]
      /\ Waiting' = Waiting /\ Serving' = Serving \ {c}
      /\ \A u, v \in Workers : job'[u] = job'[v] => u = v \/ job'[u] = Idle
      /\ Held' = Held \ {c}
  BY <1>1, <1>3, FinishMoves
<1>5. /\ pc[c] \notin {"new", "context", "opening", "done_read", "question_saved"}
      /\ stored[c] # "both"
      /\ pc[c] = "reading" => Running(c)
  BY <1>1, <1>2, <1>3, ServedRuns
<1> DEFINE L == Len(channel[c])
<1>6. channel[c] \in Seq(Events) /\ "END" \in Events /\ channel'[c] = Append(channel[c], "END")
  BY <1>1, <1>3 DEF QueueInv, Types, Events
<1>7. /\ channel'[c] \in Seq(Events) /\ Len(channel'[c]) = L + 1 /\ L \in Nat
      /\ channel'[c][L + 1] = "END"
      /\ \A i \in 1 .. L : channel'[c][i] = channel[c][i]
  BY <1>6
<1>8. Types'
  <2>1. channel' \in [Calls -> Seq(Events)]
    BY <1>1, <1>3, <1>7 DEF QueueInv, Types
  <2> QED
    BY <1>1, <1>4, <2>1 DEF QueueInv, Types
<1>9. OneHolder'
  BY <1>1, <1>4 DEF QueueInv, OneHolder
<1>10. ASSUME pc[c] = "reading" PROVE Raised(c)'
  <2>1. \A i \in 1 .. L : channel[c][i] = "meta"
    <3>1. /\ L <= progress[c] /\ L \in Nat /\ progress[c] \in Nat /\ progress[c] <= 1
          /\ \A i \in 1 .. L :
               channel[c][i] = IF progress[c] - L + i = 1 THEN "meta" ELSE "token"
      BY <1>3, <1>5, <1>7, <1>10 DEF Running, Yielded, HandleStreamError, QueueInv, Types
    <3> HIDE DEF L
    <3>2. \A i \in 1 .. L : progress[c] - L + i = 1
      BY <3>1
    <3> QED
      BY <3>1, <3>2
  <2> HIDE DEF L
  <2>2. Len(channel'[c]) - 1 = L
    BY <1>7
  <2> QED
    BY <1>4, <1>7, <2>1, <2>2 DEF Raised
<1>11. ModeOK(c)' /\ StreamOK(c)'
  BY <1>1, <1>5, <1>10 DEF QueueInv, ModeOK, StreamOK
<1>12. CallsOK'
  BY <1>1, <1>3, <1>4, <1>11, OthersStay DEF QueueInv, CallsOK, Types
<1> QED
  BY <1>8, <1>9, <1>12 DEF QueueInv, CallsOK

-----------------------------------------------------------------------------
(***************************************************************************)
(* The invariant                                                           *)
(***************************************************************************)

\* At the start every call is outside and nothing was yielded.
LEMMA InitOK == Init => QueueInv
<1> SUFFICES ASSUME Init PROVE QueueInv
  OBVIOUS
<1>1. /\ mode \in [Calls -> {"chat", "stream"}] /\ queue = <<>> /\ putters = {}
      /\ job = [w \in Workers |-> Idle] /\ channel = [c \in Calls |-> <<>>]
      /\ progress = [c \in Calls |-> 0] /\ pc = [c \in Calls |-> "new"]
      /\ text = [c \in Calls |-> 0] /\ stored = [c \in Calls |-> "nothing"]
      /\ answer = [c \in Calls |-> 0]
  BY DEF Init, QueueInit
<1>2. Types
  BY <1>1 DEF Types
<1>3. DOMAIN queue = {}
  BY <1>1
<1>4. Held = {}
  BY <1>1, <1>3 DEF Held, Waiting, Serving
<1>5. OneHolder
  BY <1>1, <1>3, <1>4 DEF OneHolder, Held
<1>6. \A c \in Calls : ModeOK(c) /\ StreamOK(c)
  BY <1>1 DEF ModeOK, StreamOK
<1> QED
  BY <1>2, <1>5, <1>6 DEF QueueInv

\* A step that changes nothing keeps the invariant.
LEMMA IdleOK ==
  ASSUME QueueInv, UNCHANGED vars
  PROVE  QueueInv'
<1>1. UNCHANGED <<mode, queue, putters, job, channel, progress, pc, text, stored, answer>>
  BY DEF vars, queueVars, endpointVars
<1>2. Types'
  BY <1>1 DEF QueueInv, Types
<1>3. Waiting' = Waiting /\ Serving' = Serving /\ Held' = Held
  BY <1>1 DEF Held, Waiting, Serving
<1>5. OneHolder'
  BY <1>1, <1>3 DEF QueueInv, OneHolder
<1>4. ASSUME NEW c \in Calls PROVE ModeOK(c)' /\ (mode'[c] = "stream" => StreamOK(c)')
  <2>1. ModeOK(c) /\ (mode[c] = "stream" => StreamOK(c))
    BY DEF QueueInv
  <2>2. ModeOK(c)' = ModeOK(c)
    BY <1>1 DEF ModeOK
  <2>3. /\ Running(c)' = Running(c) /\ Finished(c)' = Finished(c)
        /\ Raised(c)' = Raised(c) /\ AtEnd(c)' = AtEnd(c)
    BY <1>1, <1>3 DEF Running, Finished, Raised, AtEnd, Yielded
  <2>4. StreamOK(c) => StreamOK(c)'
    BY <1>1, <1>3, <2>3 DEF StreamOK
  <2> QED
    BY <1>1, <2>1, <2>2, <2>4
<1> QED
  BY <1>2, <1>4, <1>5 DEF QueueInv

\* QueueInv is inductive.
LEMMA NextOK == QueueInv /\ [Next]_vars => QueueInv'
<1> SUFFICES ASSUME QueueInv, [Next]_vars PROVE QueueInv'
  OBVIOUS
<1>1. ASSUME NEW c \in Calls, Arrive(c) \/ Handler(c) \/ Leave(c) PROVE QueueInv'
  BY <1>1, ArriveOK, ChatSubmitOK, StreamSubmitOK, StreamReadOK, HandlerStepOK, LeaveOK
     DEF Handler
<1>2. ASSUME NEW w \in Workers, WorkerStep(w) PROVE QueueInv'
  BY <1>2, TakeOK, HandleChatOK, HandleEventOK, HandleStreamErrorOK
     DEF WorkerStep, Worker
<1>3. CASE Quiet \/ UNCHANGED vars
  BY <1>3, IdleOK DEF Quiet
<1> QED
  BY <1>1, <1>2, <1>3 DEF Next

\* The invariant of the queue and its callers.
THEOREM QueueInvariant == Spec => []QueueInv
BY InitOK, NextOK, PTL DEF Spec

\* A streamed answer that is stored is the whole of what the engine yielded for
\* it (work_queue.py:162-181, main.py:502-522), for answers of any length.
THEOREM StreamedAnswersAreWhole == Spec => []AnswerIsWhole
<1>1. QueueInv => AnswerIsWhole
  BY DEF QueueInv, StreamOK, AnswerIsWhole
<1> QED
  BY <1>1, QueueInvariant, PTL

-----------------------------------------------------------------------------
(***************************************************************************)
(* The types                                                               *)
(***************************************************************************)

\* Calls nobody has accepted yet, and those in the hands of the queue: the
\* engine has not said done for them.
Unfinished == {c \in Calls : pc[c] \in {"new", "context", "opening"} \/ c \in Held}

\* The queue keeps to its places and an answer to the length of one.
SizeInv ==
  /\ Len(queue) <= QueueMax
  /\ future \in [Calls -> FutureStates]
  /\ progress \in [Calls -> 0 .. MaxTokens + 2]
  /\ text \in [Calls -> 0 .. MaxTokens]
  /\ answer \in [Calls -> 0 .. MaxTokens]
  /\ \A c \in Unfinished : progress[c] <= MaxTokens + 1

\* Only a step that puts a call in the queue makes it longer, and it checks.
LEMMA QueueFits ==
  ASSUME QueueInv, SizeInv, NEW c \in Calls, Submit(c)
  PROVE  Len(queue') <= QueueMax
<1>1. queue' = Append(queue, c) /\ queue \in Seq(Calls) /\ Len(queue) < QueueMax
  BY QueueAssumption DEF Submit, QueueFull, Put, QueueInv, Types
<1> QED
  BY <1>1, QueueAssumption

\* A token is read only while the answer is shorter than the engine's.
LEMMA ReadFits ==
  ASSUME QueueInv, SizeInv, NEW c \in Calls, StreamRead(c), Head(channel[c]) = "token"
  PROVE  text[c] + 1 <= MaxTokens
<1> DEFINE L == Len(channel[c])
<1>1. pc[c] = "reading" /\ channel[c] \in Seq(Events) /\ channel[c] # <<>>
  BY DEF StreamRead, Read, QueueInv, Types
<1>2. channel[c][1] = "token" /\ L \in Nat /\ L >= 1
  BY <1>1, ReadOne
<1>3. StreamOK(c)
  BY <1>1 DEF QueueInv, ModeOK
<1>4. stored[c] # "both"
  <2>1. AtEnd(c) => channel[c][1] = "END"
    BY DEF AtEnd
  <2> QED
    BY <1>1, <1>2, <1>3, <2>1 DEF StreamOK
<1>5. /\ progress[c] \in Nat /\ progress[c] <= MaxTokens + 2
      /\ text[c] \in Nat /\ MaxTokens \in Nat
  BY QueueAssumption DEF QueueInv, Types, SizeInv
<1>6. CASE Running(c)
  <2>1. /\ L <= progress[c] /\ progress[c] <= MaxTokens + 1
        /\ \A i \in 1 .. L :
             channel[c][i] = IF progress[c] - L + i = 1 THEN "meta" ELSE "token"
        /\ text[c] = TokensOf(progress[c] - L)
    BY <1>6 DEF Running, Yielded
  <2>2. 1 \in 1 .. L
    BY <1>2
  <2>3. progress[c] - L + 1 # 1
    BY <1>2, <2>1, <2>2
  <2> HIDE DEF L
  <2> QED
    BY <1>2, <1>5, <2>1, <2>3 DEF TokensOf
<1>7. CASE Finished(c)
  <2> DEFINE n == L - 2
  <2>1. /\ n \in Nat /\ n + 1 <= progress[c]
        /\ channel[c][n + 1] = "done"
        /\ text[c] = TokensOf(progress[c] - (n + 1))
        /\ \A i \in 1 .. n :
             channel[c][i] = IF progress[c] - (n + 1) + i = 1 THEN "meta" ELSE "token"
    BY <1>7 DEF Finished, Yielded
  <2> HIDE DEF n
  <2>2. n # 0
    BY <1>2, <2>1
  <2>3. 1 \in 1 .. n
    BY <2>1, <2>2
  <2>4. progress[c] - (n + 1) + 1 # 1
    BY <1>2, <2>1, <2>3
  <2> QED
    BY <1>5, <2>1, <2>2, <2>4 DEF TokensOf
<1>8. CASE Raised(c)
  <2> DEFINE n == L - 1
  <2>1. /\ n \in Nat /\ channel[c][n + 1] = "END"
        /\ \A i \in 1 .. n : channel[c][i] = "meta"
    BY <1>8 DEF Raised
  <2> HIDE DEF n
  <2>2. n # 0
    BY <1>2, <2>1
  <2>3. 1 \in 1 .. n
    BY <2>1, <2>2
  <2> QED
    BY <1>2, <2>1, <2>3
<1> QED
  BY <1>1, <1>3, <1>4, <1>6, <1>7, <1>8 DEF StreamOK

\* No step of a handler makes more of the calls unfinished, and none moves what
\* the engine has yielded.
LEMMA CallSizes ==
  ASSUME QueueInv, SizeInv, NEW c \in Calls, Arrive(c) \/ Handler(c) \/ Leave(c)
  PROVE  progress' = progress /\ Unfinished' \subseteq Unfinished
<1>1. progress' = progress
  BY DEF Arrive, Handler, Leave, ChatSubmit, ChatAnswer, StreamReturn, StreamSubmit,
         StreamRead, SaveQuestion, SaveAnswer, Submit, CancelFuture, Read, queueVars
<1>2. \A d \in Calls : pc'[d] \in {"new", "context", "opening"}
        => pc[d] \in {"new", "context", "opening"}
  <2>1. pc \in [Calls -> {"new"} \cup Open \cup Closed]
    BY DEF QueueInv, Types
  <2>2. \A d \in Calls \ {c} : pc'[d] = pc[d]
    BY <2>1 DEF Arrive, Handler, Leave, ChatSubmit, ChatAnswer, StreamReturn, StreamSubmit,
                StreamRead, SaveQuestion, SaveAnswer, Goto
  <2>3. \/ pc[c] \in {"new", "context", "opening"}
        \/ pc'[c] \in {"answered", "failed", "done_read", "ended", "reading",
                        "question_saved", "gone"}
    <3>1. CASE Arrive(c) \/ ChatSubmit(c) \/ StreamReturn(c) \/ StreamSubmit(c)
      BY <3>1 DEF Arrive, ChatSubmit, StreamReturn, StreamSubmit
    <3>2. CASE ChatAnswer(c)
      BY <2>1, <3>2 DEF ChatAnswer, Goto
    <3>3. CASE StreamRead(c)
      BY <2>1, <3>3 DEF StreamRead, Goto
    <3>4. CASE SaveQuestion(c) \/ SaveAnswer(c) \/ Leave(c)
      BY <2>1, <3>4 DEF SaveQuestion, SaveAnswer, Leave, Goto
    <3> QED
      BY <3>1, <3>2, <3>3, <3>4 DEF Handler
  <2> QED
    BY <2>2, <2>3
<1>3. Held' \subseteq Held \/ (Held' = Held \cup {c} /\ pc[c] \in {"context", "opening"})
  <2>1. CASE Submit(c) /\ pc[c] \in {"context", "opening"}
    BY <2>1, SubmitMoves DEF Held
  <2>2. CASE queue' = queue /\ job' = job
    BY <2>2 DEF Held, Waiting, Serving
  <2>3. \/ Submit(c) /\ pc[c] \in {"context", "opening"}
        \/ queue' = queue /\ job' = job
    BY DEF Arrive, Handler, Leave, ChatSubmit, ChatAnswer, StreamReturn, StreamSubmit,
           StreamRead, Read, SaveQuestion, SaveAnswer, CancelFuture, queueVars
  <2> QED
    BY <2>1, <2>2, <2>3
<1> QED
  BY <1>1, <1>2, <1>3 DEF Unfinished

\* No step of a call exceeds a bound.
LEMMA CallKeepsSizes ==
  ASSUME QueueInv, SizeInv, NEW c \in Calls, Arrive(c) \/ Handler(c) \/ Leave(c)
  PROVE  SizeInv'
<1>1. progress' = progress /\ Unfinished' \subseteq Unfinished
  BY CallSizes
<1>2. Len(queue') <= QueueMax
  <2>1. Submit(c) \/ queue' = queue
    BY DEF Arrive, Handler, Leave, ChatSubmit, ChatAnswer, StreamReturn, StreamSubmit,
           StreamRead, Read, SaveQuestion, SaveAnswer, CancelFuture, queueVars
  <2> QED
    BY <2>1, QueueFits DEF SizeInv
<1>3. future' \in [Calls -> FutureStates]
  <2>1. \/ future' = future
        \/ future' = [future EXCEPT ![c] = "pending"]
        \/ future' = [future EXCEPT ![c] = "cancelled"]
    BY DEF Arrive, Handler, Leave, ChatSubmit, ChatAnswer, StreamReturn, StreamSubmit, Submit,
           StreamRead, Read, SaveQuestion, SaveAnswer, CancelFuture, queueVars
  <2> QED
    BY <2>1 DEF SizeInv, FutureStates
<1>4. text' \in [Calls -> 0 .. MaxTokens] /\ answer' \in [Calls -> 0 .. MaxTokens]
  <2>1. CASE StreamRead(c)
    <3>1. text' = [text EXCEPT ![c] = TextAfter(c, Head(channel[c]))] /\ answer' = answer
      BY <2>1 DEF StreamRead
    <3>2. TextAfter(c, Head(channel[c])) \in 0 .. MaxTokens
      BY <2>1, ReadFits DEF TextAfter, SizeInv
    <3> QED
      BY <3>1, <3>2 DEF SizeInv
  <2>2. CASE ChatAnswer(c)
    BY <2>2, QueueAssumption DEF ChatAnswer, SizeInv
  <2>3. CASE SaveAnswer(c)
    BY <2>3 DEF SaveAnswer, SizeInv
  <2>4. CASE UNCHANGED <<text, answer>>
    BY <2>4 DEF SizeInv
  <2> QED
    BY <2>1, <2>2, <2>3, <2>4 DEF Arrive, Handler, Leave, ChatSubmit, StreamReturn,
       StreamSubmit, SaveQuestion
<1> QED
  BY <1>1, <1>2, <1>3, <1>4 DEF SizeInv

\* A worker yields an event only while its answer may grow.
LEMMA WorkerKeepsSizes ==
  ASSUME QueueInv, SizeInv, NEW w \in Workers, WorkerStep(w)
  PROVE  SizeInv'
<1>1. UNCHANGED <<pc, text, stored, answer>>
  BY DEF WorkerStep, endpointVars
<1>2. CASE Take(w)
  <2>1. Held' = Held /\ progress' = progress /\ future' = future
    BY <1>1, <1>2, TakeMoves DEF Take
  <2>2. Len(queue') <= QueueMax
    <3>1. queue \in Seq(Calls) /\ queue # <<>> /\ queue' = Tail(queue)
      BY <1>2 DEF Take, QueueInv, Types
    <3>2. Len(queue') = Len(queue) - 1 /\ Len(queue) \in Nat
      BY <3>1
    <3> QED
      BY <3>2, QueueAssumption DEF SizeInv
  <2> QED
    BY <1>1, <2>1, <2>2 DEF SizeInv, Unfinished
<1>3. CASE HandleChat(w)
  <2>1. /\ job[w] # Idle /\ job' = [job EXCEPT ![w] = Idle]
        /\ UNCHANGED <<queue, putters, progress>>
    BY <1>3 DEF HandleChat
  <2>2. Held' \subseteq Held
    BY <2>1, FinishMoves
  <2>3. future' \in [Calls -> FutureStates]
    BY <1>3 DEF HandleChat, SizeInv, FutureStates
  <2> QED
    BY <1>1, <2>1, <2>2, <2>3 DEF SizeInv, Unfinished
<1>4. CASE HandleStreamError(w)
  <2>1. /\ job[w] # Idle /\ job' = [job EXCEPT ![w] = Idle]
        /\ UNCHANGED <<queue, putters, progress, future>>
    BY <1>4 DEF HandleStreamError
  <2>2. Held' \subseteq Held
    BY <2>1, FinishMoves
  <2> QED
    BY <1>1, <2>1, <2>2 DEF SizeInv, Unfinished
<1>5. CASE HandleEvent(w)
  <2>1. /\ job[w] # Idle /\ mode[job[w]] = "stream"
        /\ progress' = [progress EXCEPT ![job[w]] = @ + 1]
        /\ UNCHANGED <<queue, putters, future>>
    BY <1>5 DEF HandleEvent
  <2>2. job[w] \in Calls /\ job[w] \in Held
    BY <2>1 DEF QueueInv, Types, Held, Serving
  <2>3. PICK c \in Calls : c = job[w]
    BY <2>2
  <2>4. c \in Unfinished /\ progress[c] <= MaxTokens + 1 /\ progress[c] \in Nat
    BY <2>2, <2>3 DEF SizeInv, Unfinished, QueueInv, Types
  <2>5. progress'[c] = progress[c] + 1 /\ \A d \in Calls \ {c} : progress'[d] = progress[d]
    BY <2>1, <2>3 DEF SizeInv
  <2>6. progress' \in [Calls -> 0 .. MaxTokens + 2]
    <3>1. progress[c] + 1 \in 0 .. MaxTokens + 2
      BY <2>4, QueueAssumption
    <3> QED
      BY <2>1, <2>3, <3>1 DEF SizeInv
  <2>7. \/ job' = [job EXCEPT ![w] = Idle]
        \/ job' = job /\ progress'[c] <= MaxTokens + 1
    <3>1. PICK e \in NextEvents(progress[c]) :
            IF e = "done" THEN job' = [job EXCEPT ![w] = Idle] ELSE job' = job
      BY <1>5, <2>3 DEF HandleEvent
    <3>2. CASE e # "done"
      <4>1. progress[c] = 0 \/ progress[c] <= MaxTokens
        BY <2>4, <3>1, <3>2 DEF NextEvents
      <4> QED
        BY <2>4, <2>5, <3>1, <3>2, <4>1, QueueAssumption
    <3> QED
      BY <3>1, <3>2
  <2>8. \A d \in Unfinished' : progress'[d] <= MaxTokens + 1
    <3>1. CASE job' = [job EXCEPT ![w] = Idle]
      <4>1. Held' = Held \ {c}
        BY <2>1, <2>3, <3>1, FinishMoves
      <4>2. pc[c] \notin {"new", "context", "opening"}
        BY <2>2, <2>3 DEF QueueInv, OneHolder
      <4>3. Unfinished' \subseteq Unfinished \ {c}
        BY <1>1, <4>1, <4>2 DEF Unfinished
      <4> QED
        BY <2>5, <4>3 DEF SizeInv, Unfinished
    <3>2. CASE job' = job /\ progress'[c] <= MaxTokens + 1
      <4>1. Held' = Held
        BY <2>1, <3>2 DEF Held, Waiting, Serving
      <4>2. Unfinished' = Unfinished
        BY <1>1, <4>1 DEF Unfinished
      <4> QED
        BY <2>5, <3>2, <4>2 DEF SizeInv, Unfinished
    <3> QED
      BY <2>7, <3>1, <3>2
  <2> QED
    BY <1>1, <2>1, <2>6, <2>8 DEF SizeInv
<1> QED
  BY <1>2, <1>3, <1>4, <1>5 DEF WorkerStep, Worker

\* At the start everything is empty.
LEMMA StartSizes == ASSUME Init PROVE SizeInv
<1>1. /\ queue = <<>> /\ future = [c \in Calls |-> "none"]
      /\ progress = [c \in Calls |-> 0]
      /\ text = [c \in Calls |-> 0] /\ answer = [c \in Calls |-> 0]
  BY DEF Init, QueueInit
<1>2. Len(queue) <= QueueMax
  BY <1>1, QueueAssumption
<1>3. future \in [Calls -> FutureStates]
  BY <1>1 DEF FutureStates
<1>4. /\ progress \in [Calls -> 0 .. MaxTokens + 2]
      /\ text \in [Calls -> 0 .. MaxTokens] /\ answer \in [Calls -> 0 .. MaxTokens]
  BY <1>1, QueueAssumption
<1>5. \A c \in Unfinished : progress[c] <= MaxTokens + 1
  BY <1>1, QueueAssumption DEF Unfinished
<1> QED
  BY <1>2, <1>3, <1>4, <1>5 DEF SizeInv

\* SizeInv is inductive beside QueueInv.
LEMMA StepSizes ==
  ASSUME QueueInv, SizeInv, [Next]_vars
  PROVE  SizeInv'
<1>1. CASE Quiet \/ UNCHANGED vars
  <2>1. UNCHANGED <<queue, job, future, progress, pc, text, answer>>
    BY <1>1 DEF Quiet, vars, queueVars, endpointVars
  <2> QED
    BY <2>1 DEF SizeInv, Unfinished, Held, Waiting, Serving
<1> QED
  BY <1>1, CallKeepsSizes, WorkerKeepsSizes DEF Next

\* Every variable of the limiters, the queue and the endpoints keeps its type:
\* the bucket stays within its capacity, the queue within its places, and no
\* answer is longer than what the engine yields (rate_limiter.py:24-67,
\* work_queue.py:98-133, 162-181, main.py:502-522).
THEOREM ChatTypes == Spec => []TypeOK
<1>1. Init => SizeInv
  BY StartSizes
<1>2. QueueInv /\ SizeInv /\ [Next]_vars => SizeInv'
  BY StepSizes
<1>3. LimiterInv /\ QueueInv /\ SizeInv => TypeOK
  <2>1. LimiterInv => LimiterTypeOK
    BY DEF LimiterInv, Bounds, LimiterTypeOK
  <2>2. QueueInv /\ SizeInv => QueueTypeOK
    BY DEF QueueInv, Types, OneHolder, SizeInv, QueueTypeOK
  <2>3. QueueInv /\ SizeInv => EndpointTypeOK
    BY DEF QueueInv, Types, SizeInv, EndpointTypeOK
  <2> QED
    BY <2>1, <2>2, <2>3 DEF TypeOK
<1> QED
  BY <1>1, <1>2, <1>3, LimiterInvariant, QueueInvariant, PTL DEF Spec

-----------------------------------------------------------------------------
(***************************************************************************)
(* The refinement                                                          *)
(***************************************************************************)

\* The instance counts as this module does.
LEMMA SameCount == \A S : Service!Cardinality(S) = Cardinality(S)
BY DEF Service!Cardinality, Cardinality

\* A submit that is not refused is an accept of the service.
LEMMA SubmitIsAccept ==
  ASSUME QueueInv, NEW c \in Calls, pc[c] \in {"context", "opening"}, Submit(c)
  PROVE  Service!Accept(c)
<1>1. /\ c \notin Held /\ Waiting' = Waiting \cup {c} /\ Serving' = Serving
  BY SubmitMoves
<1>2. queue \in [1 .. Len(queue) -> Calls] /\ Len(queue) \in Nat
      /\ DOMAIN queue = 1 .. Len(queue) /\ Len(queue) < QueueMax
  BY QueueAssumption DEF QueueInv, Types, Submit, QueueFull
<1>3. IsFiniteSet(1 .. Len(queue)) /\ Cardinality(1 .. Len(queue)) = Len(queue)
  <2>1. 1 \in Int /\ Len(queue) \in Int
    BY <1>2
  <2>2. /\ IsFiniteSet(1 .. Len(queue))
        /\ Cardinality(1 .. Len(queue)) = IF 1 > Len(queue) THEN 0 ELSE Len(queue) - 1 + 1
    BY <2>1, FS_Interval
  <2>3. (IF 1 > Len(queue) THEN 0 ELSE Len(queue) - 1 + 1) = Len(queue)
    BY <1>2
  <2> QED
    BY <2>2, <2>3
<1>4. queue \in [1 .. Len(queue) -> Waiting]
  BY <1>2 DEF Waiting
<1>5. queue \in Surjection(1 .. Len(queue), Waiting)
  BY <1>2, <1>4 DEF Waiting, Surjection
<1>6. IsFiniteSet(Waiting) /\ Cardinality(Waiting) <= Len(queue)
  BY <1>3, <1>5, FS_Surjection
<1>7. Cardinality(Waiting) \in Nat
  BY <1>6, FS_CardinalityType
<1>8. Cardinality(Waiting) < QueueMax
  BY <1>2, <1>6, <1>7, QueueAssumption
<1> QED
  BY <1>1, <1>8, SameCount DEF Service!Accept, Held, Waiting, Serving

\* A worker that takes a call is free, so that the service may serve it.
LEMMA TakeIsServe ==
  ASSUME QueueInv, NEW w \in Workers, Take(w), pc' = pc
  PROVE  \E c \in Calls : Service!Serve(c)
<1>1. /\ Head(queue) \in Waiting
      /\ Waiting' = Waiting \ {Head(queue)}
      /\ Serving' = Serving \cup {Head(queue)}
  BY TakeMoves
<1>2. Head(queue) \in Calls
  BY <1>1, HeldAreCalls DEF Held, QueueInv
<1> DEFINE Others == Workers \ {w}
           Busy == {job[v] : v \in Others}
<1>3. IsFiniteSet(Others) /\ Cardinality(Others) = Cardinality(Workers) - 1
      /\ Cardinality(Workers) \in Nat
  BY QueueAssumption, FS_RemoveElement, FS_CardinalityType
<1>4. IsFiniteSet(Busy) /\ Cardinality(Busy) <= Cardinality(Others)
  <2>1. [v \in Others |-> job[v]] \in Surjection(Others, Busy)
    BY DEF Surjection
  <2> QED
    BY <1>3, <2>1, FS_Surjection
<1>5. Serving \subseteq Busy
  BY DEF Serving, Take
<1>6. IsFiniteSet(Serving) /\ Cardinality(Serving) <= Cardinality(Busy)
  BY <1>4, <1>5, FS_Subset
<1>7. Cardinality(Serving) \in Nat /\ Cardinality(Busy) \in Nat /\ Cardinality(Others) \in Nat
  BY <1>3, <1>4, <1>6, FS_CardinalityType
<1>8. Cardinality(Serving) < Cardinality(Workers)
  <2> HIDE DEF Others, Busy
  <2> QED
    BY <1>3, <1>4, <1>6, <1>7
<1> QED
  <2>1. PICK c \in Calls : c = Head(queue)
    BY <1>2
  <2>2. Service!Serve(c)
    BY <1>1, <1>8, <2>1, SameCount DEF Service!Serve, Waiting, Serving
  <2> QED
    BY <2>2

\* A worker that is done finishes a call of the service.
LEMMA HandleIsFinish ==
  ASSUME QueueInv, NEW w \in Workers, job[w] # Idle,
         job' = [job EXCEPT ![w] = Idle], queue' = queue, putters' = putters
  PROVE  \E c \in Calls : Service!Finish(c)
<1>1. /\ job[w] \in Calls /\ job[w] \in Serving
      /\ Waiting' = Waiting /\ Serving' = Serving \ {job[w]}
  BY FinishMoves
<1> QED
  <2>1. PICK c \in Calls : c = job[w]
    BY <1>1
  <2>2. Service!Finish(c)
    BY <1>1, <2>1 DEF Service!Finish, Waiting, Serving
  <2> QED
    BY <2>2

\* A step that touches neither queue nor workers is none of the service.
LEMMA OthersStutter ==
  ASSUME UNCHANGED <<queue, job>>
  PROVE  UNCHANGED Service!vars
<1>1. Waiting' = Waiting /\ Serving' = Serving
  BY DEF Waiting, Serving
<1> QED
  BY <1>1 DEF Service!vars, Waiting, Serving

\* Every step is one of the service or none.
LEMMA NextServes == QueueInv /\ [Next]_vars => [Service!Next]_(Service!vars)
<1> SUFFICES ASSUME QueueInv, [Next]_vars PROVE [Service!Next]_(Service!vars)
  OBVIOUS
<1>1. ASSUME NEW c \in Calls, Submit(c), pc[c] \in {"context", "opening"}
      PROVE  Service!Next
  BY <1>1, SubmitIsAccept DEF Service!Next
<1>2. ASSUME NEW c \in Calls, Arrive(c) \/ Handler(c) \/ Leave(c)
      PROVE  \/ Submit(c) /\ pc[c] \in {"context", "opening"}
             \/ UNCHANGED <<queue, job>>
  BY <1>2 DEF Arrive, Handler, Leave, ChatSubmit, ChatAnswer, StreamReturn, StreamSubmit,
              StreamRead, Read, SaveQuestion, SaveAnswer, CancelFuture, queueVars
<1>3. ASSUME NEW c \in Calls, Arrive(c) \/ Handler(c) \/ Leave(c)
      PROVE  [Service!Next]_(Service!vars)
  BY <1>1, <1>2, <1>3, OthersStutter
<1>4. ASSUME NEW w \in Workers, WorkerStep(w)
      PROVE  [Service!Next]_(Service!vars)
  <2>1. CASE Take(w)
    <3>1. pc' = pc
      BY <1>4 DEF WorkerStep, endpointVars
    <3> QED
      BY <2>1, <3>1, TakeIsServe DEF Service!Next
  <2>2. CASE HandleChat(w) \/ HandleEvent(w) \/ HandleStreamError(w)
    <3>1. /\ job[w] # Idle /\ queue' = queue /\ putters' = putters
          /\ job' = [job EXCEPT ![w] = Idle] \/ job' = job
      BY <2>2 DEF HandleChat, HandleEvent, HandleStreamError
    <3>2. CASE job' = [job EXCEPT ![w] = Idle]
      BY <3>1, <3>2, HandleIsFinish DEF Service!Next
    <3>3. CASE job' = job
      BY <3>1, <3>3, OthersStutter
    <3> QED
      BY <3>1, <3>2, <3>3
  <2> QED
    BY <1>4, <2>1, <2>2 DEF WorkerStep, Worker
<1>5. CASE Quiet \/ UNCHANGED vars
  BY <1>5, OthersStutter DEF Quiet, vars, queueVars
<1> QED
  BY <1>3, <1>4, <1>5 DEF Next

\* Every step of the queue and its callers is a step of BoundedService or
\* leaves it alone: what was accepted is in one hand, in bounds, until it is
\* served (work_queue.py:98-133, 143-181).
THEOREM QueueServesAsPromised ==
  Spec => Service!Init /\ [][Service!Next]_(Service!vars)
<1>1. Init => Service!Init
  <2> SUFFICES ASSUME Init PROVE Service!Init
    OBVIOUS
  <2>1. queue = <<>> /\ DOMAIN queue = {} /\ job = [w \in Workers |-> Idle]
    BY DEF Init, QueueInit
  <2> QED
    BY <2>1 DEF Service!Init
<1> QED
  BY <1>1, NextServes, QueueInvariant, PTL DEF Spec
===============================================================================
