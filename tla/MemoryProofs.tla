------------------------------ MODULE MemoryProofs ------------------------------
(***************************************************************************)
(* Theorems about ConversationMemory, for every number of tasks, every     *)
(* threshold and window, and conversations and failures of any length.     *)
(***************************************************************************)
EXTENDS ConversationMemory, SequenceTheorems, TLAPS

-----------------------------------------------------------------------------
(***************************************************************************)
(* The operators on lists                                                  *)
(***************************************************************************)

Increasing(s) == \A i, j \in 1 .. Len(s) : i < j => s[i] < s[j]

\* The first k backwards, the others forwards and newer.
Turned(s, k) ==
  \A i, j \in 1 .. Len(s) : i < j => IF j <= k THEN s[j] < s[i] ELSE s[i] < s[j]

\* No more than a compression keeps is turned.
HeadTurned(s) == \E k \in 0 .. Keep : k <= Len(s) /\ Turned(s, k)

\* The oldest n messages of a list.
LEMMA FirstFacts ==
  ASSUME NEW S, NEW s \in Seq(S), NEW n \in 0 .. Len(s)
  PROVE  /\ First(s, n) \in Seq(S) /\ Len(First(s, n)) = n
         /\ \A i \in 1 .. n : First(s, n)[i] = s[i]
<1>1. Len(s) \in Nat /\ n \in Int /\ 1 \in Int /\ n <= Len(s) /\ 0 <= n
  BY LenProperties
<1>2. \A i \in 1 .. n : s[i] \in S
  <2>1. \A i \in 1 .. n : i \in 1 .. Len(s)
    BY <1>1
  <2> QED
    BY <2>1, ElementOfSeq
<1>3. /\ First(s, n) \in Seq(S)
      /\ Len(First(s, n)) = IF 1 <= n THEN n - 1 + 1 ELSE 0
      /\ \A i \in 1 .. n - 1 + 1 : First(s, n)[i] = s[1 + i - 1]
  BY <1>1, <1>2, SubSeqProperties, SMTT(30) DEF First
<1>4. n - 1 + 1 = n /\ \A i \in 1 .. n : 1 + i - 1 = i
  BY <1>1
<1>5. Len(First(s, n)) = n
  BY <1>1, <1>3
<1> QED
  BY <1>3, <1>4, <1>5

\* The newest n messages of a list, or all of them, end where the list ends.
LEMMA NewestFacts ==
  ASSUME NEW S, NEW s \in Seq(S), NEW n \in Nat
  PROVE  /\ Newest(s, n) \in Seq(S)
         /\ Len(Newest(s, n)) = IF Len(s) <= n THEN Len(s) ELSE n
         /\ \A i \in 1 .. Len(Newest(s, n)) :
              Newest(s, n)[i] = s[i + (Len(s) - Len(Newest(s, n)))]
<1>1. Len(s) \in Nat
  BY LenProperties
<1>2. CASE Len(s) <= n
  <2>1. Newest(s, n) = s
    BY <1>2 DEF Newest
  <2>2. \A i \in 1 .. Len(s) : i + (Len(s) - Len(s)) = i
    BY <1>1
  <2> QED
    BY <1>2, <2>1, <2>2
<1>3. CASE ~(Len(s) <= n)
  <2> DEFINE m == Len(s) - n + 1
             k == Len(s)
  <2>1. Newest(s, n) = SubSeq(s, m, k)
    BY <1>3 DEF Newest
  <2>2. m \in Int /\ k \in Int /\ m >= 1 /\ k - m + 1 = n /\ (m <= k => k - m + 1 = n)
        /\ (m > k => n = 0)
    BY <1>1, <1>3
  <2>3. \A i \in m .. k : s[i] \in S
    <3>1. \A i \in m .. k : i \in 1 .. Len(s)
      BY <1>1, <2>2
    <3> QED
      BY <3>1, ElementOfSeq
  <2> HIDE DEF m, k
  <2>4. /\ SubSeq(s, m, k) \in Seq(S)
        /\ Len(SubSeq(s, m, k)) = IF m <= k THEN k - m + 1 ELSE 0
        /\ \A i \in 1 .. k - m + 1 : SubSeq(s, m, k)[i] = s[m + i - 1]
    BY <2>2, <2>3, SubSeqProperties, SMTT(30)
  <2>5. Len(SubSeq(s, m, k)) = n
    BY <2>2, <2>4
  <2>6. \A i \in 1 .. n : m + i - 1 = i + (Len(s) - n)
    BY <1>1 DEF m
  <2>7. \A i \in 1 .. n : SubSeq(s, m, k)[i] = s[i + (Len(s) - n)]
    BY <2>2, <2>4, <2>6
  <2> QED
    BY <1>3, <2>1, <2>4, <2>5, <2>7
<1> QED
  BY <1>2, <1>3

\* The end of a list has no more turned messages than the list.
LEMMA NewestTurned ==
  ASSUME NEW S \in SUBSET Nat, NEW s \in Seq(S), NEW n \in Nat, HeadTurned(s)
  PROVE  HeadTurned(Newest(s, n))
<1>1. PICK m \in Nat : m = Len(s)
  BY LenProperties
<1>2. PICK d \in Nat : d = Len(s) - Len(Newest(s, n)) /\ m - d = Len(Newest(s, n))
  BY <1>1, NewestFacts
<1>3. \A i \in 1 .. m - d : i + d \in 1 .. m /\ Newest(s, n)[i] = s[i + d]
  BY <1>1, <1>2, NewestFacts
<1>4. PICK k \in 0 .. Keep : k <= m /\ Turned(s, k)
  BY <1>1 DEF HeadTurned
<1>5. Keep \in Nat
  BY MemoryAssumption
<1>6. m - d \in Nat /\ Len(Newest(s, n)) = m - d
  <2>1. m - d \in Nat
    BY <1>1, <1>2, NewestFacts
  <2> QED
    BY <1>2, <2>1
<1>7. \E h \in 0 .. Keep : h <= m - d /\ \A j \in 1 .. m - d : j <= h <=> j + d <= k
  <2>1. CASE k <= d
    <3>1. \A j \in 1 .. m - d : j <= 0 <=> j + d <= k
      BY <1>5, <1>6, <2>1
    <3>2. 0 \in 0 .. Keep /\ 0 <= m - d
      BY <1>5, <1>6
    <3> QED
      BY <3>1, <3>2, Zenon
  <2>2. CASE d < k
    <3>1. k - d \in 0 .. Keep /\ k - d <= m - d
      BY <1>4, <1>5, <2>2
    <3>2. \A j \in 1 .. m - d : j <= k - d <=> j + d <= k
      BY <1>5, <1>6
    <3> QED
      BY <3>1, <3>2
  <2> QED
    BY <1>5, <2>1, <2>2
<1>8. PICK h \in 0 .. Keep : h <= m - d /\ \A j \in 1 .. m - d : j <= h <=> j + d <= k
  BY <1>7
<1>9. ASSUME NEW i \in 1 .. m - d, NEW j \in 1 .. m - d, i < j
      PROVE  IF j <= h THEN Newest(s, n)[j] < Newest(s, n)[i]
                       ELSE Newest(s, n)[i] < Newest(s, n)[j]
  <2>1. i + d \in 1 .. m /\ j + d \in 1 .. m /\ i + d < j + d
    BY <1>3, <1>6, <1>9
  <2>2. IF j + d <= k THEN s[j + d] < s[i + d] ELSE s[i + d] < s[j + d]
    BY <1>1, <1>4, <2>1 DEF Turned
  <2> QED
    BY <1>3, <1>8, <2>2
<1>10. Turned(Newest(s, n), h)
  BY <1>6, <1>9 DEF Turned
<1> QED
  BY <1>6, <1>8, <1>10 DEF HeadTurned

\* A newer message goes to the end.
LEMMA AppendTurned ==
  ASSUME NEW n \in Nat, NEW s \in Seq(1 .. n), HeadTurned(s)
  PROVE  Append(s, n + 1) \in Seq(1 .. n + 1) /\ HeadTurned(Append(s, n + 1))
<1>1. PICK k \in Nat : k = Len(s)
  BY LenProperties
<1>2. 1 .. n \subseteq 1 .. n + 1 /\ n + 1 \in 1 .. n + 1
  OBVIOUS
<1>3. s \in Seq(1 .. n + 1)
  BY <1>2, SeqMonotonic
<1>4. /\ Append(s, n + 1) \in Seq(1 .. n + 1) /\ Len(Append(s, n + 1)) = k + 1
      /\ \A i \in 1 .. k : Append(s, n + 1)[i] = s[i]
      /\ Append(s, n + 1)[k + 1] = n + 1
  BY <1>1, <1>2, <1>3, AppendProperties
<1>5. \A i \in 1 .. k : s[i] \in 1 .. n
  BY <1>1, ElementOfSeq
<1>6. PICK h \in 0 .. Keep : h <= k /\ Turned(s, h)
  BY <1>1 DEF HeadTurned
<1>7. HeadTurned(Append(s, n + 1))
  <2> DEFINE a == Append(s, n + 1)
  <2> HIDE DEF a
  <2>1. Len(a) = k + 1 /\ (\A i \in 1 .. k : a[i] = s[i] /\ a[i] < n + 1) /\ a[k + 1] = n + 1
    BY <1>4, <1>5 DEF a
  <2>2. \A i, j \in 1 .. k : i < j => IF j <= h THEN a[j] < a[i] ELSE a[i] < a[j]
    BY <1>1, <1>6, <2>1 DEF Turned
  <2>3. \A i, j \in 1 .. k + 1 : i < j => i \in 1 .. k /\ (j \in 1 .. k \/ j = k + 1)
    OBVIOUS
  <2>4. h \in Nat /\ ~(k + 1 <= h) /\ h <= k + 1
    BY <1>6, MemoryAssumption
  <2>5. Turned(a, h)
    BY <2>1, <2>2, <2>3, <2>4 DEF Turned
  <2>6. HeadTurned(a)
    BY <1>6, <2>1, <2>4, <2>5 DEF HeadTurned
  <2> QED
    BY <2>6 DEF a
<1> QED
  BY <1>4, <1>7

\* Reverse keeps the messages and turns their order.
LEMMA ReverseFacts ==
  ASSUME NEW S, NEW s \in Seq(S)
  PROVE  /\ Reverse(s) \in Seq(S) /\ Len(Reverse(s)) = Len(s)
         /\ \A i \in 1 .. Len(s) : Reverse(s)[i] = s[(Len(s) - i) + 1]
         /\ Elems(Reverse(s)) = Elems(s)
<1>1. PICK k \in Nat : k = Len(s)
  BY LenProperties
<1>2. DOMAIN s = 1 .. k /\ \A i \in 1 .. k : s[i] \in S
  BY <1>1, LenProperties, ElementOfSeq
<1>3. \A i \in 1 .. k : (k - i) + 1 \in 1 .. k /\ (k - ((k - i) + 1)) + 1 = i
  OBVIOUS
<1>4. Reverse(s) = [i \in 1 .. k |-> s[(k - i) + 1]]
  BY <1>1 DEF Reverse
<1>5. \A i \in 1 .. k : s[(k - i) + 1] \in S
  BY <1>2, <1>3
<1>6. Reverse(s) \in [1 .. k -> S] /\ \A i \in 1 .. k : Reverse(s)[i] = s[(k - i) + 1]
  BY <1>4, <1>5
<1>7. Reverse(s) \in Seq(S) /\ DOMAIN Reverse(s) = 1 .. k
  BY <1>6, SeqDef
<1>8. Len(Reverse(s)) = k
  <2>1. Len(Reverse(s)) \in Nat /\ DOMAIN Reverse(s) = 1 .. Len(Reverse(s))
    BY <1>7, LenProperties
  <2> QED
    BY <1>7, <2>1
<1>9. Elems(Reverse(s)) = Elems(s)
  <2>1. \A i \in 1 .. k : Reverse(s)[(k - i) + 1] = s[i]
    BY <1>3, <1>6
  <2>2. Elems(s) = {s[i] : i \in 1 .. k} /\ Elems(Reverse(s)) = {Reverse(s)[i] : i \in 1 .. k}
    BY <1>2, <1>7, Zenon DEF Elems
  <2>3. \A i \in 1 .. k : Reverse(s)[i] \in {s[j] : j \in 1 .. k}
    BY <1>3, <1>6
  <2>4. \A i \in 1 .. k : s[i] \in {Reverse(s)[j] : j \in 1 .. k}
    BY <1>3, <2>1
  <2> QED
    BY <2>2, <2>3, <2>4
<1> QED
  BY <1>1, <1>6, <1>7, <1>8, <1>9

\* The messages a compression summarises and those it keeps are all it read.
LEMMA SplitIsWhole ==
  ASSUME NEW S, NEW s \in Seq(S), Keep < Len(s)
  PROVE  /\ Old(s) \in Seq(S) /\ Len(Old(s)) = Len(s) - Keep
         /\ \A i \in 1 .. Len(s) - Keep : Old(s)[i] = s[i]
         /\ Kept(s) \in Seq(S) /\ Len(Kept(s)) = Keep
         /\ \A i \in 1 .. Keep : Kept(s)[i] = s[i + (Len(s) - Keep)]
         /\ Elems(s) = Elems(Old(s)) \cup Elems(Kept(s))
<1>1. PICK k \in Nat : k = Len(s)
  BY LenProperties
<1>2. Keep \in Nat /\ k - Keep \in 0 .. k
  BY <1>1, MemoryAssumption
<1>3. Old(s) \in Seq(S) /\ Len(Old(s)) = k - Keep /\ \A i \in 1 .. k - Keep : Old(s)[i] = s[i]
  BY <1>1, <1>2, FirstFacts DEF Old
<1>4. Kept(s) \in Seq(S) /\ Len(Kept(s)) = Keep /\ \A i \in 1 .. Keep : Kept(s)[i] = s[i + (k - Keep)]
  <2>1. ~(k <= Keep) \/ k = Keep
    BY <1>1, <1>2
  <2>2. /\ Newest(s, Keep) \in Seq(S)
        /\ Len(Newest(s, Keep)) = IF k <= Keep THEN k ELSE Keep
        /\ \A i \in 1 .. Len(Newest(s, Keep)) :
             Newest(s, Keep)[i] = s[i + (k - Len(Newest(s, Keep)))]
    BY <1>1, <1>2, NewestFacts, Zenon
  <2>3. Len(Newest(s, Keep)) = Keep
    BY <2>1, <2>2
  <2> QED
    BY <2>2, <2>3 DEF Kept
<1>5. /\ DOMAIN s = 1 .. k /\ DOMAIN Old(s) = 1 .. k - Keep /\ DOMAIN Kept(s) = 1 .. Keep
  BY <1>1, <1>3, <1>4, LenProperties
<1>6. \A i \in 1 .. k : i \in 1 .. k - Keep \/ (i - (k - Keep) \in 1 .. Keep /\ (i - (k - Keep)) + (k - Keep) = i)
  BY <1>1, <1>2
<1>7. \A i \in 1 .. Keep : i + (k - Keep) \in 1 .. k
  BY <1>1, <1>2
<1>8. \A i \in 1 .. k - Keep : i \in 1 .. k
  BY <1>1, <1>2
<1>9. ASSUME NEW i \in 1 .. k PROVE s[i] \in Elems(Old(s)) \cup Elems(Kept(s))
  <2>1. CASE i \in 1 .. k - Keep
    BY <1>3, <1>5, <2>1 DEF Elems
  <2>2. CASE i - (k - Keep) \in 1 .. Keep /\ (i - (k - Keep)) + (k - Keep) = i
    <3>1. PICK j \in 1 .. Keep : j + (k - Keep) = i
      BY <2>2
    <3>2. Kept(s)[j] = s[i]
      BY <1>4, <3>1
    <3> QED
      BY <1>5, <3>1, <3>2 DEF Elems
  <2> QED
    BY <1>6, <2>1, <2>2
<1>10. Elems(Old(s)) \subseteq Elems(s)
  BY <1>3, <1>5, <1>8 DEF Elems
<1>11. Elems(Kept(s)) \subseteq Elems(s)
  BY <1>4, <1>5, <1>7 DEF Elems
<1>12. Elems(s) \subseteq Elems(Old(s)) \cup Elems(Kept(s))
  BY <1>5, <1>9 DEF Elems
<1> QED
  BY <1>1, <1>3, <1>4, <1>10, <1>11, <1>12

-----------------------------------------------------------------------------
(***************************************************************************)
(* Types and order                                                         *)
(***************************************************************************)

\* A list of some of the first n messages, turned at most at its start.
InOrder(s, n) == s \in Seq(1 .. n) /\ HeadTurned(s)

\* The list is in this order, and so is everything a compression has read and
\* will push back.
OrderInv ==
  /\ TypeOK
  /\ InOrder(wm, said)
  /\ \A t \in Writers : InOrder(snapshot[t], said)

\* What a failure leaves of the counter.
LEMMA FaultType ==
  ASSUME faults \in 0 .. MaxFaults, Fault \/ NoFault
  PROVE  faults' \in 0 .. MaxFaults
  BY MemoryAssumption DEF Fault, NoFault

\* Messages said are messages.
LEMMA SaidAreMessages ==
  ASSUME TypeOK
  PROVE  1 .. said \subseteq Messages /\ 1 .. said \in SUBSET Nat /\ said \in Nat
  BY MemoryAssumption DEF TypeOK, Messages

\* A compression has read at least twice what it keeps.
LEMMA SnapshotLong ==
  ASSUME TypeOK, NEW t \in Writers, Compressing(t)
  PROVE  /\ snapshot[t] \in Seq(Messages)
         /\ Keep < Len(snapshot[t]) /\ 2 * Keep <= Len(snapshot[t])
<1>1. snapshot[t] \in Seq(Messages) /\ snapshot[t] # <<>>
  BY DEF TypeOK, Compressing
<1>2. Len(snapshot[t]) \in Nat \ {0}
  BY <1>1, EmptySeq
<1>3. Len(snapshot[t]) \in {0} \cup (CompressAt .. WorkingMax)
  BY DEF TypeOK
<1> QED
  BY <1>1, <1>2, <1>3, MemoryAssumption

\* The empty list is in order.
LEMMA EmptyInOrder == InOrder(<<>>, said)
<1>1. <<>> \in Seq(1 .. said) /\ Len(<<>>) = 0 /\ 0 \in 0 .. Keep
  BY EmptySeq, MemoryAssumption
<1>2. Turned(<<>>, 0)
  BY <1>1 DEF Turned
<1> QED
  BY <1>1, <1>2 DEF InOrder, HeadTurned

\* The messages a compression keeps are in order: none of them was turned.
LEMMA KeptIncreasing ==
  ASSUME NEW S \in SUBSET Nat, NEW s \in Seq(S), HeadTurned(s), Keep < Len(s), 2 * Keep <= Len(s)
  PROVE  Increasing(Kept(s))
<1>1. PICK m \in Nat : m = Len(s)
  BY LenProperties
<1>2. PICK k \in 0 .. Keep : Turned(s, k)
  BY DEF HeadTurned
<1>3. Keep \in Nat /\ Len(Kept(s)) = Keep /\ \A i \in 1 .. Keep : Kept(s)[i] = s[i + (m - Keep)]
  BY <1>1, MemoryAssumption, SplitIsWhole
<1> SUFFICES ASSUME NEW i \in 1 .. Keep, NEW j \in 1 .. Keep, i < j
             PROVE  Kept(s)[i] < Kept(s)[j]
  BY <1>3 DEF Increasing
<1>4. /\ i + (m - Keep) \in 1 .. m /\ j + (m - Keep) \in 1 .. m
      /\ i + (m - Keep) < j + (m - Keep) /\ ~(j + (m - Keep) <= k)
  BY <1>1, <1>3
<1>5. s[i + (m - Keep)] < s[j + (m - Keep)]
  BY <1>1, <1>2, <1>4 DEF Turned
<1> QED
  BY <1>3, <1>5

\* What was pushed back of messages in order runs backwards.
LEMMA FirstOfReverse ==
  ASSUME NEW S \in SUBSET Nat, NEW s \in Seq(S), Increasing(s), Len(s) = Keep, NEW n \in 0 .. Keep
  PROVE  First(Reverse(s), n) \in Seq(S) /\ HeadTurned(First(Reverse(s), n))
<1>1. Keep \in Nat
  BY MemoryAssumption
<1>2. /\ Reverse(s) \in Seq(S) /\ Len(Reverse(s)) = Keep
      /\ \A i \in 1 .. Keep : Reverse(s)[i] = s[(Keep - i) + 1]
  BY ReverseFacts
<1>3. /\ First(Reverse(s), n) \in Seq(S) /\ Len(First(Reverse(s), n)) = n
      /\ \A i \in 1 .. n : First(Reverse(s), n)[i] = Reverse(s)[i]
  BY <1>2, FirstFacts
<1>4. ASSUME NEW i \in 1 .. n, NEW j \in 1 .. n, i < j
      PROVE  First(Reverse(s), n)[j] < First(Reverse(s), n)[i] /\ j <= n
  <2>1. /\ i \in 1 .. Keep /\ j \in 1 .. Keep /\ (Keep - i) + 1 \in 1 .. Keep
        /\ (Keep - j) + 1 \in 1 .. Keep /\ (Keep - j) + 1 < (Keep - i) + 1
    BY <1>1, <1>4
  <2>2. s[(Keep - j) + 1] < s[(Keep - i) + 1]
    BY <2>1 DEF Increasing
  <2> QED
    BY <1>2, <1>3, <2>1, <2>2
<1>5. Turned(First(Reverse(s), n), n)
  BY <1>3, <1>4 DEF Turned
<1> QED
  BY <1>1, <1>3, <1>5 DEF HeadTurned

\* An update of one task's snapshot.
LEMMA SnapshotType ==
  ASSUME TypeOK, NEW t \in Writers, NEW s \in Seq(Messages),
         Len(s) \in {0} \cup (CompressAt .. WorkingMax),
         snapshot' = [snapshot EXCEPT ![t] = s]
  PROVE  /\ snapshot' \in [Writers -> Seq(Messages)]
         /\ \A v \in Writers : snapshot'[v] = IF v = t THEN s ELSE snapshot[v]
         /\ \A v \in Writers : Len(snapshot'[v]) \in {0} \cup (CompressAt .. WorkingMax)
  BY DEF TypeOK

\* A message keeps the types and the order, also when Redis fails.
LEMMA AddOrder ==
  ASSUME OrderInv, NEW t \in Writers, Add(t)
  PROVE  OrderInv'
<1> DEFINE pushed == Append(wm, said + 1)
<1>a. said \in Nat /\ said' = said + 1 /\ said < MaxMessages
  BY MemoryAssumption DEF OrderInv, TypeOK, Add
<1>b. 1 .. said \subseteq 1 .. said' /\ said' \in Messages /\ 1 .. said' \subseteq Messages
  BY <1>a, MemoryAssumption DEF Messages
<1>c. ASSUME NEW s, InOrder(s, said) PROVE InOrder(s, said')
  BY <1>b, <1>c, SeqMonotonic DEF InOrder
<1>1. pushed \in Seq(1 .. said') /\ HeadTurned(pushed)
  <2>1. wm \in Seq(1 .. said) /\ HeadTurned(wm)
    BY DEF OrderInv, InOrder
  <2> QED
    BY <1>a, <2>1, AppendTurned, Zenon
<1>2. pushed \in Seq(Messages)
  BY <1>1, <1>b, SeqMonotonic
<1>3. InOrder(pushed, said')
  BY <1>1, <1>a DEF InOrder
<1> HIDE DEF pushed
<1>4. /\ Recent(pushed) \in Seq(Messages) /\ InOrder(Recent(pushed), said')
      /\ Due(pushed) => Len(Recent(pushed)) \in CompressAt .. WorkingMax
  <2>1. WorkingMax \in Nat /\ CompressAt \in Nat /\ CompressAt <= WorkingMax
    BY MemoryAssumption
  <2>2. Recent(pushed) \in Seq(Messages)
    BY <1>2, <2>1, NewestFacts DEF Recent
  <2>3. Recent(pushed) \in Seq(1 .. said')
    BY <1>1, <2>1, NewestFacts DEF Recent
  <2>4. HeadTurned(Recent(pushed))
    <3>1. 1 .. said' \in SUBSET Nat
      BY <1>a
    <3> QED
      BY <1>1, <2>1, <3>1, NewestTurned DEF Recent
  <2>5. Len(Recent(pushed)) = IF Len(pushed) <= WorkingMax THEN Len(pushed) ELSE WorkingMax
    BY <1>2, <2>1, NewestFacts DEF Recent
  <2>6. Len(pushed) \in Nat
    BY <1>2, LenProperties
  <2>7. Due(pushed) => Len(Recent(pushed)) \in CompressAt .. WorkingMax
    BY <2>1, <2>5, <2>6 DEF Due
  <2> QED
    BY <2>2, <2>3, <2>4, <2>7 DEF InOrder
<1>5. wm' = wm \/ wm' = pushed
  BY DEF Add, pushed
<1>6. InOrder(wm', said') /\ wm' \in Seq(Messages)
  <2>1. CASE wm' = wm
    BY <2>1, <1>c DEF OrderInv, TypeOK, InOrder
  <2>2. CASE wm' = pushed
    BY <2>2, <1>2, <1>3 DEF InOrder
  <2> QED
    BY <1>5, <2>1, <2>2
<1>7. /\ snapshot' \in [Writers -> Seq(Messages)]
      /\ \A v \in Writers : Len(snapshot'[v]) \in {0} \cup (CompressAt .. WorkingMax)
      /\ \A v \in Writers : InOrder(snapshot'[v], said')
  <2>1. CASE UNCHANGED snapshot
    BY <2>1, <1>c DEF OrderInv, TypeOK, InOrder
  <2>2. CASE Due(pushed) /\ snapshot' = [snapshot EXCEPT ![t] = Recent(pushed)]
    <3>1. /\ snapshot' \in [Writers -> Seq(Messages)]
          /\ \A v \in Writers : snapshot'[v] = IF v = t THEN Recent(pushed) ELSE snapshot[v]
          /\ \A v \in Writers : Len(snapshot'[v]) \in {0} \cup (CompressAt .. WorkingMax)
      BY <1>4, <2>2, SnapshotType DEF OrderInv
    <3>2. ASSUME NEW v \in Writers PROVE InOrder(snapshot'[v], said')
      <4>1. CASE v = t
        BY <1>4, <3>1, <4>1 DEF InOrder
      <4>2. CASE v # t
        <5>1. snapshot'[v] = snapshot[v] /\ InOrder(snapshot[v], said)
          BY <3>1, <4>2 DEF OrderInv
        <5> QED
          BY <1>b, <5>1, SeqMonotonic DEF InOrder
      <4> QED
        BY <4>1, <4>2
    <3> QED
      BY <3>1, <3>2
  <2>3. UNCHANGED snapshot \/ (Due(pushed) /\ snapshot' = [snapshot EXCEPT ![t] = Recent(pushed)])
    BY DEF Add, pushed
  <2> QED
    BY <2>1, <2>2, <2>3
<1>8. /\ said' \in 0 .. MaxMessages
      /\ profile' \in 0 .. said' /\ latest' \in 0 .. said' /\ cleared' \in 0 .. said'
      /\ reading' \in [Updaters -> 0 .. said']
      /\ summary' \in Seq(Messages) /\ episodic' \subseteq Messages /\ overtaken' \in BOOLEAN
  <2>1. 0 .. said \subseteq 0 .. said' /\ said' \in 0 .. MaxMessages
    BY <1>a, MemoryAssumption
  <2>2. UNCHANGED <<profile, reading, latest, overtaken, cleared, summary, episodic>>
    BY DEF Add, profileVars
  <2> QED
    BY <2>1, <2>2 DEF OrderInv, TypeOK
<1>9. disturbed' \in BOOLEAN
  BY DEF Add, OrderInv, TypeOK, Busy
<1>10. faults' \in 0 .. MaxFaults
  <2>1. Fault \/ NoFault
    BY DEF Add
  <2> QED
    BY <2>1, FaultType DEF OrderInv, TypeOK
<1> QED
  BY <1>6, <1>7, <1>8, <1>9, <1>10 DEF OrderInv, TypeOK

\* A step that says nothing: what must be shown of it.
LEMMA QuietOrder ==
  ASSUME OrderInv, UNCHANGED <<said, profile, reading, latest, overtaken>>,
         InOrder(wm', said), wm' \in Seq(Messages), summary' \in Seq(Messages), episodic' \subseteq Messages,
         snapshot' \in [Writers -> Seq(Messages)],
         \A v \in Writers : snapshot'[v] = snapshot[v] \/ snapshot'[v] = <<>>,
         cleared' \in 0 .. said, disturbed' \in BOOLEAN, Fault \/ NoFault
  PROVE  OrderInv'
<1>1. faults' \in 0 .. MaxFaults
  BY FaultType DEF OrderInv, TypeOK
<1>2. \A v \in Writers : InOrder(snapshot'[v], said)
  BY EmptyInOrder DEF OrderInv
<1>3. \A v \in Writers : Len(snapshot'[v]) \in {0} \cup (CompressAt .. WorkingMax)
  <2>1. Len(<<>>) = 0
    BY EmptySeq
  <2> QED
    BY <2>1 DEF OrderInv, TypeOK
<1>4. TypeOK'
  BY <1>1, <1>3 DEF OrderInv, TypeOK
<1>5. InOrder(wm', said') /\ \A v \in Writers : InOrder(snapshot'[v], said')
  BY <1>2 DEF InOrder
<1> QED
  BY <1>4, <1>5 DEF OrderInv

\* A compression pushes back what it keeps, all of it or as far as it came.
LEMMA CompressOrder ==
  ASSUME OrderInv, NEW t \in Writers, Compress(t) \/ CompressFails(t)
  PROVE  OrderInv'
<1> DEFINE read == snapshot[t]
<1>1. /\ read \in Seq(Messages) /\ Keep < Len(read) /\ 2 * Keep <= Len(read)
      /\ InOrder(read, said) /\ Len(read) \in Nat
  <2>1. Compressing(t)
    BY DEF Compress, CompressFails
  <2> QED
    BY <2>1, SnapshotLong, LenProperties DEF OrderInv
<1> HIDE DEF read
<1>2. Old(read) \in Seq(Messages) /\ Kept(read) \in Seq(Messages) /\ Len(Kept(read)) = Keep
  BY <1>1, SplitIsWhole
<1>3. Kept(read) \in Seq(1 .. said) /\ Increasing(Kept(read))
  <2>1. read \in Seq(1 .. said) /\ HeadTurned(read) /\ 1 .. said \in SUBSET Nat
    BY <1>1, SaidAreMessages DEF InOrder, OrderInv
  <2>2. Kept(read) \in Seq(1 .. said)
    BY <1>1, <2>1, SplitIsWhole
  <2>3. Increasing(Kept(read))
    BY <1>1, <2>1, KeptIncreasing
  <2> QED
    BY <2>2, <2>3
<1>4. ASSUME NEW n \in 0 .. Keep
      PROVE  /\ InOrder(First(Reverse(Kept(read)), n), said)
             /\ First(Reverse(Kept(read)), n) \in Seq(Messages)
  <2>1. 1 .. said \in SUBSET Nat /\ 1 .. said \subseteq Messages
    BY SaidAreMessages DEF OrderInv
  <2>2. /\ First(Reverse(Kept(read)), n) \in Seq(1 .. said)
        /\ HeadTurned(First(Reverse(Kept(read)), n))
    BY <1>2, <1>3, <2>1, FirstOfReverse
  <2>3. First(Reverse(Kept(read)), n) \in Seq(Messages)
    BY <2>1, <2>2, SeqMonotonic
  <2> QED
    BY <2>2, <2>3 DEF InOrder
<1>5. InOrder(wm', said) /\ wm' \in Seq(Messages)
  <2>1. \/ wm' = wm \/ wm' = Reverse(Kept(read))
        \/ \E n \in 0 .. Keep : wm' = First(Reverse(Kept(read)), n)
    BY DEF Compress, CompressFails, Replaced, read
  <2>2. InOrder(wm, said) /\ wm \in Seq(Messages)
    BY DEF OrderInv, TypeOK
  <2>3. Reverse(Kept(read)) = First(Reverse(Kept(read)), Keep) /\ Keep \in 0 .. Keep
    <3>1. Keep \in Nat
      BY MemoryAssumption
    <3>2. /\ Reverse(Kept(read)) \in Seq(Messages) /\ Len(Reverse(Kept(read))) = Keep
      BY <1>2, ReverseFacts
    <3>a. Keep \in 0 .. Len(Reverse(Kept(read)))
      BY <3>1, <3>2
    <3>3. /\ First(Reverse(Kept(read)), Keep) \in Seq(Messages)
          /\ Len(First(Reverse(Kept(read)), Keep)) = Keep
          /\ \A i \in 1 .. Keep : First(Reverse(Kept(read)), Keep)[i] = Reverse(Kept(read))[i]
      BY <3>2, <3>a, FirstFacts
    <3>4. Reverse(Kept(read)) = First(Reverse(Kept(read)), Keep)
      BY <3>2, <3>3, SeqEqual
    <3> QED
      BY <3>1, <3>4
  <2> QED
    BY <1>4, <2>1, <2>2, <2>3
<1>6. summary' \in Seq(Messages)
  <2>1. summary \in Seq(Messages)
    BY DEF OrderInv, TypeOK
  <2>2. summary \o Old(read) \in Seq(Messages)
    BY <1>2, <2>1, ConcatProperties
  <2>3. summary' = summary \/ summary' = summary \o Old(read)
    BY DEF Compress, CompressFails, Summarised, read
  <2> QED
    BY <2>1, <2>2, <2>3
<1>7. episodic' \subseteq Messages
  <2>1. Elems(Old(read)) \subseteq Messages
    BY <1>2, LenProperties, ElementOfSeq DEF Elems
  <2>2. episodic' = episodic \/ episodic' = episodic \cup Elems(Old(read))
    BY DEF Compress, CompressFails, read
  <2> QED
    BY <2>1, <2>2 DEF OrderInv, TypeOK
<1>8. /\ snapshot' \in [Writers -> Seq(Messages)]
      /\ \A v \in Writers : snapshot'[v] = snapshot[v] \/ snapshot'[v] = <<>>
  <2>1. snapshot' = [snapshot EXCEPT ![t] = <<>>]
    BY DEF Compress, CompressFails
  <2>2. <<>> \in Seq(Messages) /\ Len(<<>>) = 0
    BY EmptySeq
  <2>3. \A v \in Writers : snapshot'[v] = IF v = t THEN <<>> ELSE snapshot[v]
    BY <2>1, <2>2, SnapshotType DEF OrderInv
  <2> QED
    BY <2>1, <2>2, <2>3, SnapshotType DEF OrderInv
<1>9. UNCHANGED <<said, profile, reading, latest, overtaken, cleared, disturbed>> /\ (Fault \/ NoFault)
  BY DEF Compress, CompressFails, profileVars
<1> QED
  BY <1>5, <1>6, <1>7, <1>8, <1>9, QuietOrder DEF OrderInv, TypeOK

\* Clears and expiry.
LEMMA ClearOrder ==
  ASSUME OrderInv, ClearWorking \/ ClearEpisodic \/ Expire
  PROVE  OrderInv'
<1>1. <<>> \in Seq(Messages) /\ InOrder(<<>>, said)
  BY EmptySeq, EmptyInOrder
<1>2. (wm' = wm \/ wm' = <<>>) /\ (summary' = summary \/ summary' = <<>>)
      /\ (episodic' = episodic \/ episodic' = {})
  BY DEF ClearWorking, ClearEpisodic, Expire
<1>3. InOrder(wm', said) /\ wm' \in Seq(Messages) /\ summary' \in Seq(Messages) /\ episodic' \subseteq Messages
  BY <1>1, <1>2 DEF OrderInv, TypeOK
<1>4. UNCHANGED <<said, profile, reading, latest, overtaken, snapshot>> /\ NoFault
  BY DEF ClearWorking, ClearEpisodic, Expire, profileVars, NoFault
<1>5. cleared' \in 0 .. said
  <2>1. cleared' = cleared \/ cleared' = said
    BY DEF ClearWorking, ClearEpisodic, Expire
  <2> QED
    BY <2>1, SaidAreMessages DEF OrderInv, TypeOK
<1>6. disturbed' \in BOOLEAN
  BY DEF ClearWorking, ClearEpisodic, Expire, OrderInv, TypeOK, Busy
<1> QED
  BY <1>3, <1>4, <1>5, <1>6, QuietOrder DEF OrderInv, TypeOK

\* The newest message of the list was said.
LEMMA NewestWasSaid ==
  ASSUME OrderInv, wm # <<>>
  PROVE  wm[Len(wm)] \in 1 .. said
<1>1. wm \in Seq(1 .. said)
  BY DEF OrderInv, InOrder
<1>2. Len(wm) \in Nat \ {0}
  BY <1>1, EmptySeq
<1>3. Len(wm) \in 1 .. Len(wm)
  BY <1>2
<1> QED
  BY <1>1, <1>3, ElementOfSeq

\* The profile's steps and a restart.
LEMMA ProfileOrder ==
  ASSUME OrderInv,
         \/ \E u \in Updaters : StartUpdate(u) \/ FinishUpdate(u)
         \/ ClearProfile \/ Restart
  PROVE  OrderInv'
<1>a. said \in Nat
  BY SaidAreMessages DEF OrderInv
<1>1. UNCHANGED <<wm, summary, episodic, said, cleared, disturbed>>
  BY DEF StartUpdate, FinishUpdate, ClearProfile, Restart
<1>2. /\ snapshot' \in [Writers -> Seq(Messages)]
      /\ \A v \in Writers : snapshot'[v] = snapshot[v] \/ snapshot'[v] = <<>>
  <2>1. <<>> \in Seq(Messages)
    BY EmptySeq
  <2>2. snapshot' = snapshot \/ snapshot' = [t \in Writers |-> <<>>]
    BY DEF StartUpdate, FinishUpdate, ClearProfile, Restart
  <2> QED
    BY <2>1, <2>2 DEF OrderInv, TypeOK
<1>3. faults' \in 0 .. MaxFaults
  <2>1. Fault \/ NoFault
    BY DEF StartUpdate, FinishUpdate, ClearProfile, Restart, NoFault
  <2> QED
    BY <2>1, FaultType DEF OrderInv, TypeOK
<1>4. profile' \in 0 .. said /\ latest' \in 0 .. said /\ reading' \in [Updaters -> 0 .. said]
      /\ overtaken' \in BOOLEAN
  <2>a. /\ profile \in 0 .. said /\ latest \in 0 .. said /\ reading \in [Updaters -> 0 .. said]
        /\ overtaken \in BOOLEAN /\ 0 \in 0 .. said
    BY <1>a DEF OrderInv, TypeOK
  <2>1. ASSUME NEW u \in Updaters, StartUpdate(u)
        PROVE  profile' \in 0 .. said /\ latest' \in 0 .. said /\ reading' \in [Updaters -> 0 .. said]
               /\ overtaken' \in BOOLEAN
    <3>1. wm[Len(wm)] \in 0 .. said
      BY <1>a, <2>1, NewestWasSaid DEF StartUpdate
    <3>2. UNCHANGED profile /\ latest' = wm[Len(wm)] /\ reading' = [reading EXCEPT ![u] = wm[Len(wm)]]
      BY <2>1 DEF StartUpdate
    <3>3. overtaken' \in BOOLEAN
      BY <2>1, <2>a DEF StartUpdate
    <3> QED
      BY <2>a, <3>1, <3>2, <3>3
  <2>2. ASSUME NEW u \in Updaters, FinishUpdate(u)
        PROVE  profile' \in 0 .. said /\ latest' \in 0 .. said /\ reading' \in [Updaters -> 0 .. said]
               /\ overtaken' \in BOOLEAN
    <3>1. /\ profile' \in {reading[u], profile, 0} /\ reading' = [reading EXCEPT ![u] = 0]
          /\ UNCHANGED <<latest, overtaken>>
      BY <2>2 DEF FinishUpdate
    <3> QED
      BY <2>a, <3>1
  <2>3. CASE ClearProfile
    BY <2>a, <2>3 DEF ClearProfile
  <2>4. CASE Restart
    BY <2>a, <2>4 DEF Restart
  <2> QED
    BY <2>1, <2>2, <2>3, <2>4
<1>5. \A v \in Writers : InOrder(snapshot'[v], said) /\ Len(snapshot'[v]) \in {0} \cup (CompressAt .. WorkingMax)
  <2>1. Len(<<>>) = 0 /\ InOrder(<<>>, said)
    BY EmptySeq, EmptyInOrder
  <2> QED
    BY <1>2, <2>1 DEF OrderInv, TypeOK
<1>6. TypeOK'
  BY <1>1, <1>2, <1>3, <1>4, <1>5 DEF OrderInv, TypeOK
<1>7. InOrder(wm', said') /\ \A v \in Writers : InOrder(snapshot'[v], said')
  BY <1>1, <1>5 DEF OrderInv, InOrder
<1> QED
  BY <1>6, <1>7 DEF OrderInv

\* OrderInv is inductive.
LEMMA OrderStep == OrderInv /\ [Next]_vars => OrderInv'
<1> SUFFICES ASSUME OrderInv, [Next]_vars PROVE OrderInv'
  OBVIOUS
<1>1. CASE Next
  BY <1>1, AddOrder, CompressOrder, ClearOrder, ProfileOrder DEF Next
<1>2. CASE UNCHANGED vars
  <2>1. TypeOK'
    BY <1>2 DEF OrderInv, TypeOK, vars
  <2> QED
    BY <1>2, <2>1 DEF OrderInv, InOrder, vars
<1> QED
  BY <1>1, <1>2

\* At the start the list is empty.
LEMMA OrderInit == Init => OrderInv
<1> SUFFICES ASSUME Init PROVE OrderInv
  OBVIOUS
<1>1. <<>> \in Seq(Messages) /\ Len(<<>>) = 0 /\ InOrder(<<>>, said)
  BY EmptySeq, EmptyInOrder
<1>2. \A t \in Writers : snapshot[t] = <<>>
  BY DEF Init
<1>3. wm \in Seq(Messages) /\ summary \in Seq(Messages) /\ snapshot \in [Writers -> Seq(Messages)]
  BY <1>1 DEF Init
<1>4. \A t \in Writers : Len(snapshot[t]) \in {0} \cup (CompressAt .. WorkingMax)
  BY <1>1, <1>2
<1>5. 0 \in 0 .. said /\ 0 \in 0 .. MaxMessages /\ 0 \in 0 .. MaxFaults /\ said = 0
  BY MemoryAssumption DEF Init
<1>6. /\ episodic = {} /\ profile = 0 /\ reading = [u \in Updaters |-> 0] /\ cleared = 0
      /\ latest = 0 /\ disturbed = FALSE /\ overtaken = FALSE /\ faults = 0
  BY DEF Init
<1>7. TypeOK
  BY <1>3, <1>4, <1>5, <1>6 DEF TypeOK
<1> QED
  BY <1>1, <1>2, <1>7 DEF OrderInv, Init

\* OrderInv holds of every behaviour.
LEMMA OrderInvariant == Spec => []OrderInv
  BY OrderInit, OrderStep, PTL DEF Spec

\* Every variable keeps its type, and a compression has read at least the
\* threshold and at most the window, for all thresholds and windows
\* (_compress, _get_working_memory).
THEOREM MemoryTypes == Spec => []TypeOK
<1>1. OrderInv => TypeOK
  BY DEF OrderInv
<1> QED
  BY <1>1, OrderInvariant, PTL

\* However compressions of several tasks overlap and whatever call of them
\* fails, no message is in the list twice, and only what one compression
\* pushed back is out of order: those messages run backwards at the start of
\* the list and whatever was said later follows in order.  It needs that a
\* compression keeps at most half of what it reads, so that it never keeps a
\* message that was turned before (_compress).
THEOREM OneCompressionIsTurned == Spec => []OnlyKeptAreTurned
<1>1. ASSUME OrderInv PROVE OnlyKeptAreTurned
  <2>1. DOMAIN wm = 1 .. Len(wm)
    BY <1>1, LenProperties DEF OrderInv, TypeOK
  <2>2. PICK k \in 0 .. Keep : Turned(wm, k)
    BY <1>1 DEF OrderInv, InOrder, HeadTurned
  <2>3. TurnedUpTo(wm, k)
    BY <2>1, <2>2 DEF TurnedUpTo, Turned
  <2> QED
    BY <2>3 DEF OnlyKeptAreTurned
<1> QED
  BY <1>1, OrderInvariant, PTL

-----------------------------------------------------------------------------
(***************************************************************************)
(* What the next turn is shown                                             *)
(***************************************************************************)

Calm == ~ disturbed /\ faults = 0

\* The summary and the list hold every message of a range between them, each
\* once.
Whole(old, list, from, to) ==
  /\ Len(old) + Len(list) = to - from
  /\ Elems(old) \cup Elems(list) = from + 1 .. to

\* At most one compression runs, it has read the whole list, and without one
\* the list is below the threshold.
CalmList ==
  /\ Whole(summary, wm, cleared, said)
  /\ Busy \/ Len(wm) < CompressAt
  /\ \A t \in Writers : Compressing(t) => snapshot[t] = wm
  /\ \A t, v \in Writers : Compressing(t) /\ Compressing(v) => t = v

ContextInv == OrderInv /\ (Calm => CalmList)

\* A message is pushed while nothing runs.
LEMMA AddContinues ==
  ASSUME OrderInv, Calm => CalmList, NEW t \in Writers, Add(t), Calm'
  PROVE  CalmList'
<1> DEFINE pushed == Append(wm, said + 1)
<1>1. ~ Busy /\ Calm /\ CalmList /\ ~ Fault
  <2>1. faults \in Nat /\ faults' = 0 /\ ~ disturbed'
    BY MemoryAssumption DEF Calm, OrderInv, TypeOK
  <2>2. ~ Fault
    BY <2>1 DEF Fault
  <2>3. (Fault \/ NoFault) /\ disturbed' = (disturbed \/ Busy)
    BY DEF Add
  <2>4. ~ disturbed /\ ~ Busy
    BY <2>1, <2>3, Zenon
  <2>5. faults = 0
    BY <2>1, <2>2, <2>3 DEF NoFault
  <2> QED
    BY <2>2, <2>4, <2>5 DEF Calm
<1>2. /\ wm' = pushed /\ UNCHANGED <<summary, cleared>> /\ said' = said + 1
      /\ snapshot' = IF Due(pushed) THEN [snapshot EXCEPT ![t] = Recent(pushed)] ELSE snapshot
  BY <1>1 DEF Add, profileVars
<1>3. PICK k \in Nat : k = Len(wm)
  BY LenProperties DEF OrderInv, TypeOK
<1>4. PICK m \in Nat : m = Len(summary)
  BY LenProperties DEF OrderInv, TypeOK
<1>5. said \in Nat /\ cleared \in Nat /\ CompressAt \in Nat /\ WorkingMax \in Nat /\ CompressAt <= WorkingMax
  BY SaidAreMessages, MemoryAssumption DEF OrderInv, TypeOK
<1>6. /\ Len(pushed) = k + 1 /\ pushed # <<>>
      /\ Elems(pushed) = Elems(wm) \cup {said + 1}
  <2>1. wm \in Seq(Nat) /\ said + 1 \in Nat
    <3>1. wm \in Seq(Messages) /\ Messages \subseteq Nat
      BY DEF OrderInv, TypeOK, Messages
    <3>2. wm \in Seq(Nat)
      BY <3>1, SeqMonotonic, Zenon
    <3> QED
      BY <1>5, <3>2
  <2>2. /\ pushed \in Seq(Nat) /\ Len(pushed) = k + 1 /\ pushed # <<>>
        /\ \A i \in 1 .. k : pushed[i] = wm[i]
        /\ pushed[k + 1] = said + 1
    BY <1>3, <2>1, AppendProperties
  <2>3. DOMAIN wm = 1 .. k /\ DOMAIN pushed = 1 .. k + 1
    BY <1>3, <2>1, <2>2, LenProperties
  <2> HIDE DEF pushed
  <2>4. Elems(wm) = {wm[i] : i \in 1 .. k} /\ Elems(pushed) = {pushed[i] : i \in 1 .. k + 1}
    BY <2>3, Zenon DEF Elems
  <2>5. \A i \in 1 .. k : i \in 1 .. k + 1
    OBVIOUS
  <2>6. k + 1 \in 1 .. k + 1 /\ \A i \in 1 .. k + 1 : i \in 1 .. k \/ i = k + 1
    OBVIOUS
  <2>7. {pushed[i] : i \in 1 .. k + 1} = {wm[i] : i \in 1 .. k} \cup {said + 1}
    BY <2>2, <2>5, <2>6
  <2> QED
    BY <2>2, <2>4, <2>7
<1>7. k < CompressAt /\ m + k = said - cleared /\ Elems(summary) \cup Elems(wm) = cleared + 1 .. said
  BY <1>1, <1>3, <1>4 DEF CalmList, Whole
<1> HIDE DEF pushed
<1>8. Whole(summary, pushed, cleared, said + 1)
  <2>1. m + (k + 1) = (said + 1) - cleared
    BY <1>5, <1>7
  <2>2. cleared <= said
    BY DEF OrderInv, TypeOK
  <2>3. cleared + 1 .. said + 1 = (cleared + 1 .. said) \cup {said + 1}
    BY <1>5, <2>2
  <2>4. Elems(summary) \cup Elems(pushed) = cleared + 1 .. said + 1
    BY <1>6, <1>7, <2>3
  <2> QED
    BY <1>4, <1>6, <2>1, <2>4 DEF Whole
<1>9. Recent(pushed) = pushed
  BY <1>5, <1>6, <1>7 DEF Recent, Newest
<1>10. \A v \in Writers : snapshot[v] = <<>>
  BY <1>1 DEF Busy, Compressing
<1>11. snapshot \in [Writers -> Seq(Messages)]
  BY DEF OrderInv, TypeOK
<1>12. CASE Due(pushed)
  <2>1. \A v \in Writers : snapshot'[v] = IF v = t THEN pushed ELSE <<>>
    BY <1>2, <1>9, <1>10, <1>11, <1>12
  <2>2. Busy'
    BY <1>6, <2>1 DEF Busy, Compressing
  <2> QED
    BY <1>2, <1>8, <2>1, <2>2 DEF CalmList, Compressing
<1>13. CASE ~ Due(pushed)
  <2>1. snapshot' = snapshot /\ Len(pushed) < CompressAt
    BY <1>2, <1>3, <1>5, <1>6, <1>13 DEF Due
  <2>2. \A v \in Writers : ~ Compressing(v)'
    BY <1>10, <2>1 DEF Compressing
  <2> QED
    BY <1>2, <1>8, <2>1, <2>2 DEF CalmList
<1> QED
  BY <1>12, <1>13

\* What a concatenation holds.
LEMMA ElemsOfConcat ==
  ASSUME NEW S, NEW s \in Seq(S), NEW t \in Seq(S)
  PROVE  /\ s \o t \in Seq(S) /\ Len(s \o t) = Len(s) + Len(t)
         /\ Elems(s \o t) = Elems(s) \cup Elems(t)
<1>1. PICK m \in Nat : m = Len(s)
  BY LenProperties
<1>2. PICK k \in Nat : k = Len(t)
  BY LenProperties
<1>3. s \o t \in Seq(S) /\ Len(s \o t) = m + k
      /\ \A i \in 1 .. m + k : (s \o t)[i] = IF i <= m THEN s[i] ELSE t[i - m]
  BY <1>1, <1>2, ConcatProperties
<1>4. DOMAIN s = 1 .. m /\ DOMAIN t = 1 .. k /\ DOMAIN (s \o t) = 1 .. m + k
  BY <1>1, <1>2, <1>3, LenProperties
<1> DEFINE c == s \o t
<1>5. /\ Elems(s) = {s[i] : i \in 1 .. m} /\ Elems(t) = {t[i] : i \in 1 .. k}
      /\ Elems(c) = {c[i] : i \in 1 .. m + k}
  BY <1>4, Zenon DEF Elems
<1>6. \A i \in 1 .. m : i \in 1 .. m + k /\ c[i] = s[i]
  BY <1>3
<1>7. \A i \in 1 .. k : i + m \in 1 .. m + k /\ c[i + m] = t[i]
  <2>1. \A i \in 1 .. k : i + m \in 1 .. m + k /\ ~(i + m <= m) /\ (i + m) - m = i
    OBVIOUS
  <2> QED
    BY <1>3, <2>1
<1>8. \A i \in 1 .. m + k : i \in 1 .. m \/ (i - m \in 1 .. k /\ c[i] = t[i - m])
  <2>1. \A i \in 1 .. m + k : (i <= m /\ i \in 1 .. m) \/ (~(i <= m) /\ i - m \in 1 .. k)
    OBVIOUS
  <2> QED
    BY <1>3, <2>1
<1> HIDE DEF c
<1>9. {c[i] : i \in 1 .. m + k} = {s[i] : i \in 1 .. m} \cup {t[i] : i \in 1 .. k}
  <2>1. \A i \in 1 .. m + k : c[i] \in {s[j] : j \in 1 .. m} \cup {t[j] : j \in 1 .. k}
    BY <1>6, <1>8
  <2>2. \A i \in 1 .. m : s[i] \in {c[j] : j \in 1 .. m + k}
    BY <1>6
  <2>3. \A i \in 1 .. k : t[i] \in {c[j] : j \in 1 .. m + k}
    BY <1>7
  <2> QED
    BY <2>1, <2>2, <2>3
<1>10. Elems(c) = Elems(s) \cup Elems(t)
  BY <1>5, <1>9
<1> QED
  BY <1>1, <1>2, <1>3, <1>10 DEF c

\* A compression moves the oldest messages of the list to the summary.
LEMMA CompressContinues ==
  ASSUME OrderInv, Calm => CalmList, NEW t \in Writers, Compress(t) \/ CompressFails(t), Calm'
  PROVE  CalmList'
<1>1. ~ Fault
  BY DEF Calm, Fault, OrderInv, TypeOK
<1>2. /\ Compressing(t) /\ summary' = summary \o Old(snapshot[t])
      /\ wm' = Reverse(Kept(snapshot[t]))
      /\ snapshot' = [snapshot EXCEPT ![t] = <<>>] /\ UNCHANGED <<said, cleared, disturbed, faults>>
  BY <1>1 DEF Compress, CompressFails, Summarised, Replaced, NoFault
<1>3. CalmList
  BY <1>2 DEF Calm
<1>4. snapshot[t] = wm
  BY <1>2, <1>3 DEF CalmList
<1>5. wm \in Seq(Messages) /\ Keep < Len(wm) /\ summary \in Seq(Messages)
  BY <1>2, <1>4, SnapshotLong DEF OrderInv, TypeOK
<1>6. PICK k \in Nat : k = Len(wm)
  BY <1>5, LenProperties
<1>7. PICK m \in Nat : m = Len(summary)
  BY <1>5, LenProperties
<1>8. said \in Nat /\ cleared \in Nat /\ Keep \in Nat /\ Keep < CompressAt /\ CompressAt \in Nat
  BY SaidAreMessages, MemoryAssumption DEF OrderInv, TypeOK
<1>9. m + k = said - cleared /\ Elems(summary) \cup Elems(wm) = cleared + 1 .. said
  BY <1>3, <1>6, <1>7 DEF CalmList, Whole
<1>10. /\ Old(wm) \in Seq(Messages) /\ Len(Old(wm)) = k - Keep
       /\ Kept(wm) \in Seq(Messages) /\ Len(Kept(wm)) = Keep
       /\ Elems(wm) = Elems(Old(wm)) \cup Elems(Kept(wm))
  BY <1>5, <1>6, SplitIsWhole
<1>11. Len(wm') = Keep /\ Elems(wm') = Elems(Kept(wm))
  BY <1>2, <1>4, <1>10, ReverseFacts
<1>12. /\ Len(summary \o Old(wm)) = m + (k - Keep)
       /\ Elems(summary \o Old(wm)) = Elems(summary) \cup Elems(Old(wm))
  <2>a. PICK o \in Seq(Messages) : o = Old(wm)
    BY <1>10
  <2>b. /\ Len(summary \o o) = Len(summary) + Len(o)
        /\ Elems(summary \o o) = Elems(summary) \cup Elems(o)
    BY <1>5, ElemsOfConcat
  <2>1. /\ Len(summary \o Old(wm)) = Len(summary) + Len(Old(wm))
        /\ Elems(summary \o Old(wm)) = Elems(summary) \cup Elems(Old(wm))
    BY <2>a, <2>b, Zenon
  <2>2. Len(summary) = m /\ Len(Old(wm)) = k - Keep
    BY <1>7, <1>10
  <2> QED
    BY <2>1, <2>2, Zenon
<1>13. Len(summary') + Len(wm') = said - cleared
  BY <1>2, <1>4, <1>8, <1>9, <1>11, <1>12
<1>14. Elems(summary') \cup Elems(wm') = cleared + 1 .. said
  BY <1>2, <1>4, <1>9, <1>10, <1>11, <1>12
<1>15. Whole(summary', wm', cleared', said')
  BY <1>2, <1>13, <1>14 DEF Whole
<1>16. Len(wm') < CompressAt
  BY <1>8, <1>11
<1>17. \A v \in Writers : ~ Compressing(v)'
  <2>1. \A v \in Writers : snapshot'[v] = IF v = t THEN <<>> ELSE snapshot[v]
    BY <1>2 DEF OrderInv, TypeOK
  <2> QED
    BY <1>2, <1>3, <2>1 DEF CalmList, Compressing
<1> QED
  BY <1>15, <1>16, <1>17 DEF CalmList

\* Every other step clears the conversation, or touches neither the list nor
\* the summary, or disturbs.
LEMMA OthersContinue ==
  ASSUME OrderInv, Calm => CalmList, Calm',
         \/ \E u \in Updaters : StartUpdate(u) \/ FinishUpdate(u)
         \/ ClearWorking \/ ClearEpisodic \/ ClearProfile \/ Expire \/ Restart
         \/ UNCHANGED vars
  PROVE  CalmList'
<1>1. ~ Fault /\ ~ Expire /\ ~ Restart
  BY DEF Calm, Fault, Expire, Restart, OrderInv, TypeOK
<1>2. UNCHANGED snapshot /\ UNCHANGED said
  BY <1>1 DEF StartUpdate, FinishUpdate, ClearWorking, ClearEpisodic, ClearProfile, vars
<1>3. CASE ClearWorking
  <2>1. ~ Busy /\ wm' = <<>> /\ summary' = <<>> /\ cleared' = said
    BY <1>3 DEF Calm, ClearWorking
  <2>2. Len(<<>>) = 0
    BY EmptySeq
  <2>3. said \in Nat /\ CompressAt \in Nat /\ 0 < CompressAt
    BY SaidAreMessages, MemoryAssumption DEF OrderInv
  <2>4. Whole(summary', wm', cleared', said')
    <3>1. Elems(<<>>) = {}
      BY DEF Elems
    <3>2. said + 1 .. said = {}
      BY <2>3
    <3> QED
      BY <1>2, <2>1, <2>2, <2>3, <3>1, <3>2 DEF Whole
  <2>5. \A v \in Writers : ~ Compressing(v)'
    BY <1>2, <2>1 DEF Busy, Compressing
  <2> QED
    BY <2>1, <2>2, <2>3, <2>4, <2>5 DEF CalmList
<1>4. CASE ~ ClearWorking
  <2>1. UNCHANGED <<wm, summary, cleared, disturbed>>
    BY <1>1, <1>4 DEF StartUpdate, FinishUpdate, ClearEpisodic, ClearProfile, vars
  <2>2. Calm
    <3>1. faults \in Nat
      BY DEF OrderInv, TypeOK
    <3>2. UNCHANGED faults \/ Fault
      BY <1>1, <1>4 DEF StartUpdate, FinishUpdate, ClearEpisodic, ClearProfile, NoFault, vars
    <3> QED
      BY <1>1, <2>1, <3>2 DEF Calm
  <2> QED
    BY <1>2, <2>1, <2>2 DEF CalmList, Whole, Busy, Compressing
<1> QED
  BY <1>3, <1>4

\* ContextInv is inductive.
LEMMA ContextStep == ContextInv /\ [Next]_vars => ContextInv'
<1> SUFFICES ASSUME ContextInv, [Next]_vars PROVE ContextInv'
  OBVIOUS
<1>1. OrderInv /\ (Calm => CalmList) /\ OrderInv'
  BY OrderStep DEF ContextInv
<1>2. Calm' => CalmList'
  BY <1>1, AddContinues, CompressContinues, OthersContinue DEF Next
<1> QED
  BY <1>1, <1>2 DEF ContextInv

\* At the start nothing was said.
LEMMA ContextInit == Init => ContextInv
<1> SUFFICES ASSUME Init PROVE ContextInv
  OBVIOUS
<1>1. wm = <<>> /\ summary = <<>> /\ said = 0 /\ cleared = 0 /\ \A t \in Writers : ~ Compressing(t)
  BY DEF Init, Compressing
<1>2. Len(<<>>) = 0
  BY EmptySeq
<1>3. CalmList
  <2>1. Elems(<<>>) = {} /\ 0 + 1 .. 0 = {}
    BY DEF Elems
  <2>2. CompressAt \in Nat /\ 0 < CompressAt
    BY MemoryAssumption
  <2> QED
    BY <1>1, <1>2, <2>1, <2>2 DEF CalmList, Whole
<1> QED
  BY <1>3, OrderInit DEF ContextInv

\* While no message and no clear meets a running compression and nothing fails
\* or expires, the next turn is shown everything said since the last clear,
\* and each message once, in the list or through the summary, however often
\* the list was compressed (add_message, _compress, get_context).
THEOREM ContextIsWhole == Spec => []AllSaidIsInContext
<1>1. ASSUME ContextInv, Calm
      PROVE  Len(Context) = said - cleared /\ Elems(Context) = cleared + 1 .. said
  <2>1. CalmList /\ OrderInv
    BY <1>1 DEF ContextInv
  <2>2. wm \in Seq(Messages) /\ summary \in Seq(Messages) /\ Len(wm) \in Nat
    BY <2>1, LenProperties DEF OrderInv, TypeOK
  <2>3. Len(wm) <= WorkingMax
    <3>1. CASE Busy
      <4>1. PICK t \in Writers : Compressing(t)
        BY <3>1 DEF Busy
      <4>2. snapshot[t] = wm
        BY <2>1, <4>1 DEF CalmList
      <4>3. Len(wm) \in {0} \cup (CompressAt .. WorkingMax)
        BY <2>1, <4>2 DEF OrderInv, TypeOK
      <4> QED
        BY <2>2, <4>3, MemoryAssumption
    <3>2. CASE Len(wm) < CompressAt
      BY <2>2, <3>2, MemoryAssumption
    <3> QED
      BY <2>1, <3>1, <3>2 DEF CalmList
  <2>4. Recent(wm) = wm
    BY <2>2, <2>3 DEF Recent, Newest
  <2>5. /\ Len(summary \o wm) = Len(summary) + Len(wm)
        /\ Elems(summary \o wm) = Elems(summary) \cup Elems(wm)
    BY <2>2, ElemsOfConcat
  <2>6. Context = summary \o wm
    BY <2>4 DEF Context
  <2> QED
    BY <2>1, <2>5, <2>6 DEF CalmList, Whole
<1>2. ContextInv => AllSaidIsInContext
  BY <1>1 DEF AllSaidIsInContext, Calm
<1> QED
  BY <1>2, ContextInit, ContextStep, PTL DEF Spec

-----------------------------------------------------------------------------
(***************************************************************************)
(* What leaves the list                                                    *)
(***************************************************************************)

\* A message that leaves the list is in the summary or the episodic memory,
\* or the whole list left, or a call failed, or a compression dropped it that
\* had not read it: what it read is archived or pushed back (_compress).
THEOREM OnlyUnreadIsDropped == Spec => DroppedWasUnread
<1> DEFINE Step == \/ Dropped = {}
                   \/ wm' = <<>>
                   \/ faults' # faults
                   \/ \E t \in Writers :
                        /\ Compressing(t) /\ snapshot'[t] = <<>>
                        /\ Dropped \cap Elems(snapshot[t]) = {}
<1>1. ASSUME OrderInv, Next PROVE Step
  <2>1. faults \in Nat
    BY <1>1, MemoryAssumption DEF OrderInv, TypeOK
  <2>2. Fault => faults' # faults
    BY <2>1 DEF Fault
  <2>3. ASSUME NEW t \in Writers, Add(t) PROVE Elems(wm) \subseteq Elems(wm')
    <3>1. wm' = wm \/ wm' = Append(wm, said + 1)
      BY <2>3 DEF Add
    <3>2. CASE wm' = Append(wm, said + 1)
      <4>1. wm \in Seq(Nat) /\ said + 1 \in Nat
        <5>1. wm \in Seq(Messages) /\ Messages \subseteq Nat
          BY <1>1 DEF OrderInv, TypeOK, Messages
        <5>2. wm \in Seq(Nat)
          BY <5>1, SeqMonotonic, Zenon
        <5> QED
          BY <1>1, <5>2, SaidAreMessages DEF OrderInv
      <4>2. /\ wm' \in Seq(Nat) /\ Len(wm') = Len(wm) + 1
            /\ \A i \in 1 .. Len(wm) : wm'[i] = wm[i]
        BY <3>2, <4>1, AppendProperties
      <4>3. DOMAIN wm = 1 .. Len(wm) /\ DOMAIN wm' = 1 .. Len(wm') /\ Len(wm) \in Nat
        BY <4>1, <4>2, LenProperties
      <4>4. \A i \in DOMAIN wm : i \in DOMAIN wm' /\ wm'[i] = wm[i]
        BY <4>2, <4>3
      <4> QED
        BY <4>4, Zenon DEF Elems
    <3> QED
      BY <3>1, <3>2
  <2>4. ASSUME NEW t \in Writers, Compress(t), ~ Fault PROVE Step
    <3>1. /\ Compressing(t) /\ wm' = Reverse(Kept(snapshot[t]))
          /\ episodic' = episodic \cup Elems(Old(snapshot[t]))
          /\ snapshot' = [snapshot EXCEPT ![t] = <<>>]
      BY <2>4 DEF Compress, Replaced
    <3>a. snapshot[t] \in Seq(Messages) /\ Keep < Len(snapshot[t])
      BY <1>1, <3>1, SnapshotLong DEF OrderInv
    <3>b. Elems(wm') = Elems(Kept(snapshot[t]))
      BY <3>1, <3>a, SplitIsWhole, ReverseFacts
    <3>2. Elems(snapshot[t]) = Elems(Old(snapshot[t])) \cup Elems(Kept(snapshot[t]))
      BY <3>a, SplitIsWhole
    <3>3. Dropped \cap Elems(snapshot[t]) = {}
      BY <3>1, <3>b, <3>2 DEF Dropped
    <3>4. snapshot'[t] = <<>>
      BY <1>1, <3>1 DEF OrderInv, TypeOK
    <3> QED
      BY <3>1, <3>3, <3>4
  <2>5. ASSUME wm' = wm PROVE Dropped = {}
    BY <2>5 DEF Dropped
  <2>6. CASE \E t \in Writers : Add(t)
    BY <2>3, <2>6 DEF Dropped
  <2>7. CASE \E t \in Writers : Compress(t) \/ CompressFails(t)
    BY <2>2, <2>4, <2>7 DEF CompressFails
  <2>8. CASE \/ \E u \in Updaters : StartUpdate(u) \/ FinishUpdate(u)
             \/ ClearWorking \/ ClearEpisodic \/ ClearProfile \/ Expire \/ Restart
    <3>1. wm' = wm \/ wm' = <<>>
      BY <2>8 DEF StartUpdate, FinishUpdate, ClearWorking, ClearEpisodic, ClearProfile, Expire, Restart
    <3> QED
      BY <2>5, <3>1
  <2> QED
    BY <1>1, <2>6, <2>7, <2>8 DEF Next
<1>2. OrderInv /\ [Next]_vars => [Step]_vars
  BY <1>1
<1> QED
  BY <1>2, OrderInvariant, PTL DEF Spec, DroppedWasUnread

-----------------------------------------------------------------------------
(***************************************************************************)
(* The profile                                                             *)
(***************************************************************************)

\* Nobody updates and the profile is the latest, or one task does and has read
\* the latest.
UpdateInv ==
  /\ OrderInv
  /\ ~ overtaken /\ faults = 0 =>
       \/ (\A u \in Updaters : reading[u] = 0) /\ profile = latest
       \/ \E u \in Updaters : /\ reading[u] # 0 /\ reading[u] = latest
                              /\ \A v \in Updaters : v # u => reading[v] = 0

\* At the start nobody updates the profile.
LEMMA UpdateInit == Init => UpdateInv
  BY OrderInit DEF Init, UpdateInv

\* UpdateInv is inductive.
LEMMA UpdateStep == UpdateInv /\ [Next]_vars => UpdateInv'
<1> SUFFICES ASSUME UpdateInv, [Next]_vars PROVE UpdateInv'
  OBVIOUS
<1>1. OrderInv /\ OrderInv'
  BY OrderStep DEF UpdateInv
<1>2. faults \in Nat /\ faults' \in Nat
  BY <1>1, MemoryAssumption DEF OrderInv, TypeOK
<1>3. reading \in [Updaters -> 0 .. said]
  BY <1>1 DEF OrderInv, TypeOK
<1> SUFFICES ASSUME ~ overtaken', faults' = 0
             PROVE  \/ (\A u \in Updaters : reading'[u] = 0) /\ profile' = latest'
                    \/ \E u \in Updaters : /\ reading'[u] # 0 /\ reading'[u] = latest'
                                           /\ \A v \in Updaters : v # u => reading'[v] = 0
  BY <1>1 DEF UpdateInv
<1>4. ~ Fault
  BY <1>2 DEF Fault
<1>5. NoFault
  BY <1>4 DEF Next, Add, Compress, CompressFails, StartUpdate, FinishUpdate, ClearWorking,
              ClearEpisodic, ClearProfile, Expire, Restart, NoFault, vars
<1>6. ~ overtaken
  BY <1>3, Zenon DEF Next, Add, Compress, CompressFails, StartUpdate, FinishUpdate, ClearWorking,
              ClearEpisodic, ClearProfile, Expire, Restart, profileVars, vars
<1>7. \/ (\A u \in Updaters : reading[u] = 0) /\ profile = latest
      \/ \E u \in Updaters : /\ reading[u] # 0 /\ reading[u] = latest
                             /\ \A v \in Updaters : v # u => reading[v] = 0
  BY <1>5, <1>6 DEF UpdateInv, NoFault
<1>8. ASSUME NEW u \in Updaters, StartUpdate(u)
      PROVE  /\ reading'[u] # 0 /\ reading'[u] = latest'
             /\ \A v \in Updaters : v # u => reading'[v] = 0
  <2>1. wm[Len(wm)] \in 1 .. said
    BY <1>1, <1>8, NewestWasSaid DEF StartUpdate
  <2>2. reading' = [reading EXCEPT ![u] = wm[Len(wm)]] /\ latest' = wm[Len(wm)]
    BY <1>8 DEF StartUpdate
  <2>3. \A v \in Updaters : reading[v] = 0
    <3>1. overtaken' = (overtaken \/ \E v \in Updaters : reading[v] # 0)
      BY <1>8 DEF StartUpdate
    <3> QED
      BY <3>1, Zenon
  <2>4. wm[Len(wm)] # 0
    BY <2>1
  <2> QED
    BY <1>3, <2>2, <2>3, <2>4
<1>9. ASSUME NEW u \in Updaters, FinishUpdate(u)
      PROVE  (\A v \in Updaters : reading'[v] = 0) /\ profile' = latest'
  <2>1. /\ reading[u] # 0 /\ profile' = reading[u] /\ latest' = latest
        /\ reading' = [reading EXCEPT ![u] = 0]
    BY <1>4, <1>9 DEF FinishUpdate
  <2> QED
    BY <1>3, <1>7, <2>1
<1>10. CASE ClearProfile
  <2>1. overtaken' = (overtaken \/ \E v \in Updaters : reading[v] # 0)
        /\ profile' = 0 /\ latest' = 0 /\ reading' = reading
    BY <1>10 DEF ClearProfile
  <2>2. \A v \in Updaters : reading[v] = 0
    BY <2>1, Zenon
  <2> QED
    BY <2>1, <2>2
<1>11. CASE \/ \E t \in Writers : Add(t) \/ Compress(t) \/ CompressFails(t)
            \/ ClearWorking \/ ClearEpisodic \/ Expire \/ UNCHANGED vars
  <2>1. UNCHANGED <<profile, reading, latest>>
    BY <1>11 DEF Add, Compress, CompressFails, ClearWorking, ClearEpisodic, Expire, profileVars, vars
  <2> QED
    BY <1>7, <2>1
<1>12. CASE Restart
  BY <1>4, <1>12 DEF Restart
<1> QED
  BY <1>8, <1>9, <1>10, <1>11, <1>12 DEF Next

\* While updates do not overlap and nothing fails, the profile is the one made
\* from the list the last update has read, for any number of tasks and
\* clears (update_profile, clear_profile).
THEOREM ProfileFollowsReads == Spec => []ProfileIsLatest
<1>1. UpdateInv => ProfileIsLatest
  BY DEF UpdateInv, ProfileIsLatest
<1> QED
  BY <1>1, UpdateInit, UpdateStep, PTL DEF Spec

===============================================================================
