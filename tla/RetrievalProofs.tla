---------------------------- MODULE RetrievalProofs ----------------------------
(***************************************************************************)
(* What a search may show, for every set of queries and documents, every   *)
(* size of the cache and any number of searches, restarts and changes of   *)
(* the knowledge base: deleted documents only as long as a cache entry     *)
(* lives, and nothing at all only if there was nothing to be found.        *)
(***************************************************************************)
EXTENDS Retrieval, KnowledgeProofs

Entries == [query : Queries, data : SUBSET Items, until : Nat]

\* What the proofs need of the types.
CacheShape ==
  /\ clock \in Nat
  /\ fails \in Nat
  /\ cache \in Seq(Entries)
  /\ \A i \in DOMAIN cache : cache[i].until <= clock + CacheTtl

HistoryShape ==
  /\ lastHad \in [Chunks -> 0 .. clock]
  /\ emptyAt \in 0 .. clock

SearchShape ==
  /\ pc \in [Searches -> {"new", "rewriting", "calling", "ranking", "done"}]
  /\ todo \in [Searches -> SUBSET Queries]
  /\ found \in [Searches -> SUBSET Items]
  /\ shown \in [Searches -> SUBSET Items]

\* A result is cached at until - CacheTtl.  At that time or later each of its
\* chunks could be found, and the collection was empty if it has none.
HadAt(c, time) == c \in Servable \/ time <= lastHad[c]
EmptyAt(time) == collection = {} \/ time <= emptyAt

Recent(e) ==
  /\ \A c \in Chunks \cap e.data : HadAt(c, e.until - CacheTtl)
  /\ e.data = {} => EmptyAt(e.until - CacheTtl)

CacheIsRecent == \A i \in DOMAIN cache : Recent(cache[i])

\* The collection is empty, or was within the last CacheTtl.
EmptyLately == collection = {} \/ clock - emptyAt < CacheTtl

\* A search with no result so far still has a query to call, or met emptiness.
SearchKnows ==
  \A s \in Searches :
    /\ pc[s] = "rewriting" => todo[s] # {}
    /\ pc[s] = "calling" => todo[s] # {} \/ found[s] # {} \/ EmptyLately
    /\ pc[s] = "ranking" => Cardinality(found[s]) > TopK

\* The tool's part of the invariant, and all of it.
ToolInv == CacheShape /\ HistoryShape /\ BreakerSettles /\ CacheIsRecent

Inv == ToolInv /\ SearchShape /\ SearchKnows

-----------------------------------------------------------------------------
(***************************************************************************)
(* What the tool and the knowledge base answer                             *)
(***************************************************************************)

\* A search finds only what can be found, and something unless the collection
\* is empty.
LEMMA HybridFinds ==
  ASSUME NEW q, NEW data \in SearchHybrid(q)
  PROVE  data \subseteq Servable /\ (data = {} => collection = {})
<1> DEFINE items == Findable(WordOf[q])
<1>1. items \subseteq Servable /\ (items = {} => collection = {})
  BY DEF Findable, Servable, KeywordHits
<1>2. CASE data = items
  BY <1>1, <1>2
<1>3. CASE data \in kSubset(TopK, items)
  <2>1. data \subseteq items /\ Cardinality(data) = TopK
    BY <1>3 DEF kSubset
  <2>2. data # {}
    BY <2>1, FS_EmptySet, RetrievalAssumption
  <2> QED
    BY <1>1, <2>1, <2>2
<1> QED
  BY <1>2, <1>3 DEF SearchHybrid, Best

\* Cutting a sequence, and cutting one of its elements out.
LEMMA CutKeeps ==
  ASSUME NEW S, NEW seq \in Seq(S), NEW m \in 1 .. Len(seq) + 1
  PROVE  /\ SubSeq(seq, m, Len(seq)) \in Seq(S)
         /\ \A i \in DOMAIN SubSeq(seq, m, Len(seq)) :
              \E j \in DOMAIN seq : SubSeq(seq, m, Len(seq))[i] = seq[j]
<1>1. /\ SubSeq(seq, m, Len(seq)) \in Seq(S)
      /\ Len(SubSeq(seq, m, Len(seq))) = Len(seq) + 1 - m
      /\ \A i \in 1 .. Len(seq) + 1 - m :
           SubSeq(seq, m, Len(seq))[i] = seq[i + m - 1]
  OBVIOUS
<1>2. DOMAIN SubSeq(seq, m, Len(seq)) = 1 .. Len(seq) + 1 - m
  BY <1>1
<1>3. \A i \in 1 .. Len(seq) + 1 - m : i + m - 1 \in DOMAIN seq
  OBVIOUS
<1> QED
  BY <1>1, <1>2, <1>3, Zenon

\* Where the elements of a sequence are once one of them is cut out.
LEMMA RemoveAtIndex ==
  ASSUME NEW S, NEW seq \in Seq(S), NEW k \in 1 .. Len(seq)
  PROVE  /\ RemoveAt(seq, k) \in Seq(S)
         /\ DOMAIN RemoveAt(seq, k) = 1 .. Len(seq) - 1
         /\ Len(RemoveAt(seq, k)) = Len(seq) - 1
         /\ \A i \in 1 .. Len(seq) - 1 :
              RemoveAt(seq, k)[i] = IF i <= k - 1 THEN seq[i] ELSE seq[i + 1]
<1> DEFINE a == SubSeq(seq, 1, k - 1)
           b == SubSeq(seq, k + 1, Len(seq))
<1>1. RemoveAt(seq, k) = a \o b
  BY DEF RemoveAt
<1>2. /\ a \in Seq(S) /\ Len(a) = k - 1
      /\ \A i \in 1 .. k - 1 : a[i] = seq[i]
  OBVIOUS
<1>3. /\ b \in Seq(S) /\ Len(b) = Len(seq) - k
      /\ \A i \in 1 .. Len(seq) - k : b[i] = seq[i + k]
  OBVIOUS
<1> HIDE DEF a, b
<1>4. /\ a \o b \in Seq(S)
      /\ DOMAIN (a \o b) = 1 .. Len(seq) - 1
  BY <1>2, <1>3
<1>5. Len(a \o b) = Len(seq) - 1
  <2>1. a \in Seq(S) /\ b \in Seq(S)
    BY <1>2, <1>3
  <2>2. Len(a \o b) = Len(a) + Len(b)
    BY <2>1
  <2> QED
    BY <1>2, <1>3, <2>2
<1>6. ASSUME NEW i \in 1 .. Len(seq) - 1
      PROVE  (a \o b)[i] = IF i <= k - 1 THEN seq[i] ELSE seq[i + 1]
  <2>1. CASE i <= k - 1
    <3>1. (a \o b)[i] = a[i]
      BY <1>2, <1>3, <2>1
    <3> QED
      BY <1>2, <2>1, <3>1
  <2>2. CASE i > k - 1
    <3>1. i - (k - 1) \in 1 .. Len(seq) - k /\ i - (k - 1) + k = i + 1
      BY <2>2
    <3>2. (a \o b)[i] = b[i - (k - 1)]
      BY <1>2, <1>3, <2>2
    <3>3. b[i - (k - 1)] = seq[i - (k - 1) + k]
      BY <1>3, <3>1
    <3>4. ~ (i <= k - 1)
      BY <2>2
    <3> QED
      BY <3>1, <3>2, <3>3, <3>4
  <2>3. i <= k - 1 \/ i > k - 1
    OBVIOUS
  <2> QED
    BY <2>1, <2>2, <2>3
<1> QED
  BY <1>1, <1>4, <1>5, <1>6

\* Each of them was an element before.
LEMMA RemoveAtKeeps ==
  ASSUME NEW S, NEW seq \in Seq(S), NEW k \in 1 .. Len(seq)
  PROVE  /\ RemoveAt(seq, k) \in Seq(S)
         /\ \A i \in DOMAIN RemoveAt(seq, k) :
              \E j \in DOMAIN seq : RemoveAt(seq, k)[i] = seq[j]
<1>1. /\ RemoveAt(seq, k) \in Seq(S)
      /\ DOMAIN RemoveAt(seq, k) = 1 .. Len(seq) - 1
      /\ \A i \in 1 .. Len(seq) - 1 :
           RemoveAt(seq, k)[i] = IF i <= k - 1 THEN seq[i] ELSE seq[i + 1]
  BY RemoveAtIndex
<1>2. \A i \in 1 .. Len(seq) - 1 : i \in DOMAIN seq /\ i + 1 \in DOMAIN seq
  OBVIOUS
<1> QED
  BY <1>1, <1>2

\* Without(q) and ThinnedOut(entries) keep only entries that were there.
LEMMA WithoutKeeps ==
  ASSUME cache \in Seq(Entries), NEW q
  PROVE  /\ Without(q) \in Seq(Entries)
         /\ \A i \in DOMAIN Without(q) : \E j \in DOMAIN cache : Without(q)[i] = cache[j]
<1>1. CASE ~ \E i \in DOMAIN cache : cache[i].query = q
  BY <1>1 DEF Without
<1>2. CASE \E i \in DOMAIN cache : cache[i].query = q
  <2> DEFINE k == CHOOSE i \in DOMAIN cache : cache[i].query = q
  <2>1. k \in 1 .. Len(cache) /\ cache \in Seq(Entries)
    BY <1>2
  <2>2. Without(q) = RemoveAt(cache, k)
    BY <1>2 DEF Without
  <2> HIDE DEF k
  <2>3. /\ RemoveAt(cache, k) \in Seq(Entries)
        /\ \A i \in DOMAIN RemoveAt(cache, k) :
             \E j \in DOMAIN cache : RemoveAt(cache, k)[i] = cache[j]
    BY <2>1, RemoveAtKeeps
  <2> QED
    BY <2>2, <2>3, Zenon
<1> QED
  BY <1>1, <1>2

\* Making room in the cache adds no entry.
LEMMA ThinnedOutKeeps ==
  ASSUME NEW entries \in Seq(Entries)
  PROVE  /\ ThinnedOut(entries) \in Seq(Entries)
         /\ \A i \in DOMAIN ThinnedOut(entries) :
              \E j \in DOMAIN entries : ThinnedOut(entries)[i] = entries[j]
<1>1. CASE Len(entries) < CacheMax
  BY <1>1, ToolAssumption DEF ThinnedOut
<1>2. CASE Len(entries) >= CacheMax
  <2>1. Evicted + 1 \in 1 .. Len(entries) + 1
    BY <1>2, ToolAssumption
  <2>2. ThinnedOut(entries) = SubSeq(entries, Evicted + 1, Len(entries))
    BY <1>2 DEF ThinnedOut
  <2>3. /\ SubSeq(entries, Evicted + 1, Len(entries)) \in Seq(Entries)
        /\ \A i \in DOMAIN SubSeq(entries, Evicted + 1, Len(entries)) :
             \E j \in DOMAIN entries :
               SubSeq(entries, Evicted + 1, Len(entries))[i] = entries[j]
    BY <2>1, CutKeeps, Zenon
  <2> QED
    BY <2>2, <2>3, Zenon
<1> QED
  BY <1>1, <1>2, ToolAssumption

-----------------------------------------------------------------------------
(***************************************************************************)
(* What a call keeps and what it answers                                   *)
(***************************************************************************)

\* The chunks of an answer could be found lately, and an answer without items
\* means emptiness lately.
Lately(data) ==
  /\ \A c \in Chunks \cap data : c \in Servable \/ clock - lastHad[c] < CacheTtl
  /\ data = {} => EmptyLately

\* What the cache answers could be found lately.
LEMMA HitIsLate ==
  ASSUME ToolInv, NEW q, NEW data, CallHit(q, data)
  PROVE  Lately(data)
<1>1. PICK i \in Live(q) : data = cache[i].data
  BY DEF CallHit
<1>2. /\ i \in DOMAIN cache /\ clock < cache[i].until
      /\ Recent(cache[i])
  BY <1>1 DEF Live, ToolInv, CacheIsRecent
<1>3. cache[i].until \in Nat
  <2>1. cache[i] \in Entries
    BY <1>2 DEF ToolInv, CacheShape
  <2> QED
    BY <2>1 DEF Entries
<1>4. ASSUME NEW c \in Chunks \cap data
      PROVE  c \in Servable \/ clock - lastHad[c] < CacheTtl
  <2>1. c \in Servable \/ cache[i].until - CacheTtl <= lastHad[c]
    BY <1>1, <1>2 DEF Recent, HadAt
  <2>2. lastHad[c] \in Nat /\ clock \in Nat /\ CacheTtl \in Nat
    BY ToolAssumption DEF ToolInv, HistoryShape, CacheShape
  <2> QED
    BY <1>2, <1>3, <2>1, <2>2
<1>5. ASSUME data = {}
      PROVE  EmptyLately
  <2>1. collection = {} \/ cache[i].until - CacheTtl <= emptyAt
    BY <1>1, <1>2, <1>5 DEF Recent, EmptyAt
  <2>2. emptyAt \in Nat /\ clock \in Nat /\ CacheTtl \in Nat
    BY ToolAssumption DEF ToolInv, HistoryShape, CacheShape
  <2> QED
    BY <1>2, <1>3, <2>1, <2>2 DEF EmptyLately
<1> QED
  BY <1>4, <1>5 DEF Lately

\* The fallback item names no chunk.
LEMMA FallbackIsLate ==
  ASSUME NEW q \in Queries \cup {OddQuery}, NEW data, FallbackResult(q, data)
  PROVE  Lately(data)
BY RetrievalAssumption DEF FallbackResult, Lately

\* What the search finds can be found now.
LEMMA HybridIsLate ==
  ASSUME NEW q, NEW data \in SearchHybrid(q)
  PROVE  Lately(data)
BY HybridFinds DEF Lately, EmptyLately

\* A failure that is counted leaves the breaker open or closed.
LEMMA FailureSettles ==
  ASSUME BreakerSettles, fails \in Nat, RecordFailure
  PROVE  BreakerSettles' /\ fails' \in Nat
BY ToolAssumption DEF BreakerSettles, RecordFailure, AfterAllow

\* What is left of the cache is recent, when nothing else changes.
LEMMA SubCacheKeeps ==
  ASSUME ToolInv, UNCHANGED <<kbVars, history, clock>>,
         cache' \in Seq(Entries),
         \A i \in DOMAIN cache' : \E j \in DOMAIN cache : cache'[i] = cache[j],
         BreakerSettles', fails' \in Nat
  PROVE  ToolInv'
<1>1. \A i \in DOMAIN cache : cache[i].until <= clock + CacheTtl /\ Recent(cache[i])
  BY DEF ToolInv, CacheShape, CacheIsRecent
<1>2. \A i \in DOMAIN cache' : cache'[i].until <= clock + CacheTtl /\ Recent(cache'[i])
  BY <1>1
<1>3. \A e : Recent(e) => Recent(e)'
  BY DEF Recent, HadAt, EmptyAt, Servable, kbVars, history
<1>4. CacheIsRecent'
  BY <1>2, <1>3 DEF CacheIsRecent
<1> QED
  BY <1>2, <1>4 DEF ToolInv, CacheShape, HistoryShape, history

\* An answer that is cached could be found when it was made.
LEMMA SuccessKeeps ==
  ASSUME ToolInv, UNCHANGED <<kbVars, history>>,
         NEW q \in Queries, NEW data \in SUBSET Items,
         data \in SearchHybrid(q), CallSucceeds(q, data)
  PROVE  ToolInv'
<1> DEFINE kept == ThinnedOut(Without(q))
           new == [query |-> q, data |-> data, until |-> clock + CacheTtl]
<1>1. /\ clock \in Nat /\ CacheTtl \in Nat /\ cache \in Seq(Entries)
      /\ \A i \in DOMAIN cache : cache[i].until <= clock + CacheTtl /\ Recent(cache[i])
  BY ToolAssumption DEF ToolInv, CacheShape, CacheIsRecent
<1>2. Without(q) \in Seq(Entries)
  BY <1>1, WithoutKeeps
<1>3. kept \in Seq(Entries)
  BY <1>2, ThinnedOutKeeps
<1>4. ASSUME NEW i \in DOMAIN kept
      PROVE  kept[i].until <= clock + CacheTtl /\ Recent(kept[i])
  <2>1. PICK j \in DOMAIN Without(q) : kept[i] = Without(q)[j]
    BY <1>2, <1>4, ThinnedOutKeeps
  <2>2. PICK k \in DOMAIN cache : Without(q)[j] = cache[k]
    BY <1>1, WithoutKeeps
  <2> QED
    BY <1>1, <2>1, <2>2
<1>5. new \in Entries /\ new.until = clock + CacheTtl /\ new.data = data
  BY <1>1 DEF Entries
<1>6. Recent(new)
  <2>1. new.until - CacheTtl = clock
    BY <1>1, <1>5
  <2>2. data \subseteq Servable /\ (data = {} => collection = {})
    BY HybridFinds
  <2> QED
    BY <1>5, <2>1, <2>2 DEF Recent, HadAt, EmptyAt
<1>7. cache' = Append(kept, new) /\ clock' = clock
  BY DEF CallSucceeds
<1> HIDE DEF kept, new
<1>8. /\ cache' \in Seq(Entries)
      /\ DOMAIN cache' = 1 .. Len(kept) + 1
      /\ \A i \in 1 .. Len(kept) : cache'[i] = kept[i]
      /\ cache'[Len(kept) + 1] = new
  BY <1>3, <1>5, <1>7
<1>9. \A i \in DOMAIN cache' : cache'[i].until <= clock + CacheTtl /\ Recent(cache'[i])
  <2>1. Len(kept) \in Nat /\ DOMAIN kept = 1 .. Len(kept)
    BY <1>3
  <2>2. \A i \in 1 .. Len(kept) + 1 : i \in 1 .. Len(kept) \/ i = Len(kept) + 1
    BY <2>1
  <2>3. new.until <= clock + CacheTtl
    BY <1>1, <1>5
  <2> QED
    BY <1>4, <1>6, <1>8, <2>1, <2>2, <2>3, Zenon
<1>10. \A e : Recent(e) => Recent(e)'
  BY DEF Recent, HadAt, EmptyAt, Servable, kbVars, history
<1>11. CacheIsRecent'
  BY <1>9, <1>10 DEF CacheIsRecent
<1>12. BreakerSettles' /\ fails' \in Nat
  BY ToolAssumption DEF CallSucceeds, RecordSuccess, BreakerSettles
<1> QED
  BY <1>1, <1>7, <1>8, <1>9, <1>11, <1>12
     DEF ToolInv, CacheShape, HistoryShape, history

\* Every way a call with a query can end.
LEMMA CallKeeps ==
  ASSUME ToolInv, UNCHANGED <<kbVars, history>>,
         NEW q \in Queries, NEW data \in SUBSET Items,
         \/ CallHit(q, data)
         \/ CallRefused(q, data)
         \/ data \in SearchHybrid(q) /\ CallSucceeds(q, data)
         \/ CallFails(q, data)
  PROVE  ToolInv' /\ clock' = clock /\ Lately(data)
<1> cache \in Seq(Entries) /\ fails \in Nat /\ BreakerSettles
  BY DEF ToolInv, CacheShape
<1>1. CASE CallHit(q, data)
  <2>1. UNCHANGED toolVars
    BY <1>1 DEF CallHit
  <2>2. ToolInv'
    BY <2>1, SubCacheKeeps DEF toolVars, BreakerSettles
  <2> QED
    BY <1>1, <2>1, <2>2, HitIsLate DEF toolVars
<1>2. CASE CallRefused(q, data)
  <2>1. cache' = Without(q) /\ clock' = clock /\ UNCHANGED breakerVars
    BY <1>2 DEF CallRefused
  <2>2. BreakerSettles' /\ fails' \in Nat
    BY <2>1 DEF breakerVars, BreakerSettles
  <2>3. ToolInv'
    BY <2>1, <2>2, WithoutKeeps, SubCacheKeeps
  <2> QED
    BY <1>2, <2>1, <2>3, FallbackIsLate DEF CallRefused
<1>3. CASE data \in SearchHybrid(q) /\ CallSucceeds(q, data)
  BY <1>3, SuccessKeeps, HybridIsLate DEF CallSucceeds
<1>4. CASE CallFails(q, data)
  <2>1. cache' = Without(q) /\ clock' = clock /\ RecordFailure
    BY <1>4 DEF CallFails
  <2>2. BreakerSettles' /\ fails' \in Nat
    BY <2>1, FailureSettles
  <2>3. ToolInv'
    BY <2>1, <2>2, WithoutKeeps, SubCacheKeeps
  <2> QED
    BY <1>4, <2>1, <2>3, FallbackIsLate DEF CallFails
<1> QED
  BY <1>1, <1>2, <1>3, <1>4

-----------------------------------------------------------------------------
(***************************************************************************)
(* Every step keeps the invariant                                          *)
(***************************************************************************)

\* What Remember records: whatever could be found at a time before a change
\* is remembered to have been there at that time.
LEMMA RememberKeeps ==
  ASSUME HistoryShape, clock \in Nat, clock' \in {clock, clock + 1}, Remember
  PROVE  /\ HistoryShape'
         /\ \A c \in Chunks : \A time \in Int :
              time <= clock /\ HadAt(c, time) =>
                c \in Servable' \/ time <= lastHad'[c]
         /\ \A time \in Int :
              time <= clock /\ EmptyAt(time) => collection' = {} \/ time <= emptyAt'
<1>1. /\ lastHad' = [c \in Chunks |->
                      IF c \in Servable \cup Servable' THEN clock ELSE lastHad[c]]
      /\ emptyAt' = IF collection = {} \/ collection' = {} THEN clock ELSE emptyAt
  BY DEF Remember
<1>2. \A c \in Chunks : lastHad[c] \in 0 .. clock
  BY DEF HistoryShape
<1>3. lastHad' \in [Chunks -> 0 .. clock']
  <2>1. \A c \in Chunks : lastHad'[c] \in 0 .. clock'
    BY <1>1, <1>2
  <2> QED
    BY <1>1, <2>1
<1>4. emptyAt' \in 0 .. clock'
  BY <1>1 DEF HistoryShape
<1>5. ASSUME NEW c \in Chunks, NEW time \in Int, time <= clock, HadAt(c, time)
      PROVE  c \in Servable' \/ time <= lastHad'[c]
  <2>1. lastHad'[c] = IF c \in Servable \cup Servable' THEN clock ELSE lastHad[c]
    BY <1>1
  <2> QED
    BY <1>5, <2>1 DEF HadAt
<1>6. ASSUME NEW time \in Int, time <= clock, EmptyAt(time)
      PROVE  collection' = {} \/ time <= emptyAt'
  BY <1>1, <1>6 DEF EmptyAt
<1> QED
  BY <1>3, <1>4, <1>5, <1>6 DEF HistoryShape

\* A change of the knowledge base and the passing of time leave the cache
\* recent.
LEMMA CacheStaysRecent ==
  ASSUME ToolInv, clock' \in {clock, clock + 1}, Remember,
         UNCHANGED <<cache, breakerVars>>
  PROVE  ToolInv'
<1>1. clock \in Nat /\ CacheTtl \in Nat /\ HistoryShape /\ cache \in Seq(Entries)
  BY ToolAssumption DEF ToolInv, CacheShape
<1>2. \A i \in DOMAIN cache : cache[i] \in Entries
  BY <1>1
<1>3. ASSUME NEW i \in DOMAIN cache
      PROVE  Recent(cache[i])'
  <2>1. cache[i].until \in Nat
    BY <1>2 DEF Entries
  <2>2. cache[i].until - CacheTtl \in Int /\ cache[i].until - CacheTtl <= clock
    BY <1>1, <2>1 DEF ToolInv, CacheShape
  <2>3. cache'[i] = cache[i]
    OBVIOUS
  <2>4. Recent(cache[i])
    BY DEF ToolInv, CacheIsRecent
  <2>5. /\ \A c \in Chunks \cap cache[i].data :
             c \in Servable' \/ cache[i].until - CacheTtl <= lastHad'[c]
        /\ cache[i].data = {} =>
             collection' = {} \/ cache[i].until - CacheTtl <= emptyAt'
    BY <1>1, <2>2, <2>4, RememberKeeps DEF Recent
  <2> QED
    BY <2>3, <2>5 DEF Recent, HadAt, EmptyAt
<1>4. CacheIsRecent'
  BY <1>3 DEF CacheIsRecent
<1>5. HistoryShape'
  BY <1>1, RememberKeeps
<1>6. CacheShape'
  <2>1. ASSUME NEW i \in DOMAIN cache
        PROVE  cache[i].until <= clock' + CacheTtl
    <3>1. cache[i].until \in Nat
      BY <1>2 DEF Entries
    <3> QED
      BY <1>1, <3>1 DEF ToolInv, CacheShape
  <2>2. clock' \in Nat /\ fails' \in Nat /\ cache' = cache
    BY <1>1 DEF ToolInv, CacheShape, breakerVars
  <2> QED
    BY <1>1, <2>1, <2>2 DEF CacheShape
<1>7. BreakerSettles'
  BY DEF ToolInv, BreakerSettles, breakerVars
<1> QED
  BY <1>4, <1>5, <1>6, <1>7 DEF ToolInv

\* At the start the cache is empty and the breaker closed.
LEMMA InitHolds == Init => Inv
<1> SUFFICES ASSUME Init PROVE Inv
  OBVIOUS
<1> USE DEF Init, ToolInit, SearchInit
<1>1. CacheShape /\ CacheIsRecent
  BY ToolAssumption DEF CacheShape, CacheIsRecent
<1>2. HistoryShape
  BY ToolAssumption DEF HistoryShape
<1>3. BreakerSettles
  BY ToolAssumption DEF BreakerSettles
<1>4. SearchShape /\ SearchKnows
  BY DEF SearchShape, SearchKnows
<1> QED
  BY <1>1, <1>2, <1>3, <1>4 DEF Inv, ToolInv

\* The steps of a search that await the LLM.
LEMMA WaitsKeep ==
  ASSUME Inv, NEW s \in Searches, Waits(s), UNCHANGED <<kbVars, toolVars, history>>
  PROVE  Inv'
<1>1. ToolInv'
  <2>1. BreakerSettles' /\ fails' \in Nat /\ cache' \in Seq(Entries)
    BY DEF Inv, ToolInv, CacheShape, BreakerSettles, toolVars
  <2> QED
    BY <2>1, SubCacheKeeps DEF Inv, toolVars
<1>2. EmptyLately => EmptyLately'
  BY DEF EmptyLately, kbVars, toolVars, history
<1>3. CASE Start(s)
  <2>1. PICK q \in Queries : todo' = [todo EXCEPT ![s] = {q}]
    BY <1>3 DEF Start
  <2>2. /\ pc' = [pc EXCEPT ![s] = "rewriting"]
        /\ found' = [found EXCEPT ![s] = {}]
        /\ shown' = [shown EXCEPT ![s] = {}]
    BY <1>3 DEF Start
  <2>3. SearchShape'
    BY <2>1, <2>2 DEF Inv, SearchShape
  <2>4. SearchKnows'
    BY <1>2, <2>1, <2>2 DEF Inv, SearchShape, SearchKnows
  <2> QED
    BY <1>1, <2>3, <2>4 DEF Inv
<1>4. CASE Rewrite(s)
  <2>1. PICK more \in SUBSET Queries : todo' = [todo EXCEPT ![s] = @ \cup more]
    BY <1>4 DEF Rewrite
  <2>2. /\ pc[s] = "rewriting" /\ pc' = [pc EXCEPT ![s] = "calling"]
        /\ found' = found /\ shown' = shown
    BY <1>4 DEF Rewrite
  <2>3. SearchShape'
    BY <2>1, <2>2 DEF Inv, SearchShape
  <2>4. SearchKnows'
    BY <1>2, <2>1, <2>2 DEF Inv, SearchShape, SearchKnows
  <2> QED
    BY <1>1, <2>3, <2>4 DEF Inv
<1>5. CASE Merge(s)
  <2>1. todo' = todo /\ found' = found
    BY <1>5 DEF Merge
  <2>2. Cardinality(found[s]) \in Nat
    <3>1. found[s] \subseteq Items
      BY DEF Inv, SearchShape
    <3>2. IsFiniteSet(Items)
      <4>1. IsFiniteSet(Chunks \cup Queries)
        BY RetrievalAssumption, FS_Union
      <4> QED
        BY <4>1, FS_AddElement DEF Items
    <3> QED
      BY <3>1, <3>2, FS_Subset, FS_CardinalityType
  <2>3. \/ pc' = [pc EXCEPT ![s] = "done"]
        \/ pc' = [pc EXCEPT ![s] = "ranking"] /\ Cardinality(found[s]) > TopK
    BY <1>5, <2>2, RetrievalAssumption DEF Merge
  <2>4. SearchShape'
    <3>1. shown' = shown \/ shown' = [shown EXCEPT ![s] = found[s]]
      BY <1>5 DEF Merge
    <3> QED
      BY <2>1, <2>3, <3>1 DEF Inv, SearchShape
  <2>5. SearchKnows'
    BY <1>2, <2>1, <2>3 DEF Inv, SearchShape, SearchKnows
  <2> QED
    BY <1>1, <2>4, <2>5 DEF Inv
<1>6. CASE Rerank(s)
  <2>1. todo' = todo /\ found' = found /\ pc' = [pc EXCEPT ![s] = "done"]
    BY <1>6 DEF Rerank
  <2>2. SearchShape'
    <3>1. PICK ranked \in SUBSET found[s] : shown' = [shown EXCEPT ![s] = ranked]
      BY <1>6 DEF Rerank
    <3>2. ranked \subseteq Items
      BY DEF Inv, SearchShape
    <3> QED
      BY <2>1, <3>1, <3>2 DEF Inv, SearchShape
  <2>3. SearchKnows'
    BY <1>2, <2>1 DEF Inv, SearchShape, SearchKnows
  <2> QED
    BY <1>1, <2>2, <2>3 DEF Inv
<1> QED
  BY <1>3, <1>4, <1>5, <1>6 DEF Waits

\* A call, and what the search adds to its results.
LEMMA RecallKeeps ==
  ASSUME Inv, NEW s \in Searches, NEW q \in Queries, Recall(s, q),
         UNCHANGED <<kbVars, history>>
  PROVE  Inv' /\ \E data \in SUBSET Items :
                   Lately(data) /\ found' = [found EXCEPT ![s] = @ \cup data]
<1>1. PICK data \in SUBSET Items :
        /\ \/ CallHit(q, data)
           \/ CallRefused(q, data)
           \/ data \in SearchHybrid(q) /\ CallSucceeds(q, data)
           \/ CallFails(q, data)
        /\ found' = [found EXCEPT ![s] = @ \cup data]
  BY DEF Recall
<1>2. ToolInv' /\ clock' = clock /\ Lately(data)
  BY <1>1, CallKeeps DEF Inv
<1>3. /\ pc[s] = "calling" /\ pc' = pc
      /\ todo' = [todo EXCEPT ![s] = @ \ {q}]
      /\ shown' = shown
  BY DEF Recall
<1>4. SearchShape'
  BY <1>1, <1>3 DEF Inv, SearchShape
<1>5. EmptyLately => EmptyLately'
  BY <1>2 DEF EmptyLately, kbVars, history
<1>6. data # {} \/ EmptyLately'
  BY <1>2, <1>5 DEF Lately
<1>7. SearchKnows'
  BY <1>1, <1>3, <1>5, <1>6 DEF Inv, SearchShape, SearchKnows
<1> QED
  BY <1>1, <1>2, <1>4, <1>7 DEF Inv

\* A query that is no string.
LEMMA RecallOddKeeps ==
  ASSUME Inv, NEW s \in Searches, RecallOdd(s), UNCHANGED <<kbVars, history>>
  PROVE  Inv' /\ \E data \in SUBSET Items :
                   Lately(data) /\ found' = [found EXCEPT ![s] = @ \cup data]
<1>1. PICK data \in SUBSET Items :
        CallInvalid(data) /\ found' = [found EXCEPT ![s] = @ \cup data]
  BY DEF RecallOdd
<1>2. clock' = clock /\ cache' = cache /\ data = {OddQuery}
  BY <1>1 DEF CallInvalid, FallbackResult
<1>3. Lately(data)
  BY <1>1, FallbackIsLate DEF CallInvalid
<1>4. BreakerSettles' /\ fails' \in Nat
  <2>1. CASE RecordFailure
    BY <2>1, FailureSettles DEF Inv, ToolInv, CacheShape
  <2>2. CASE UNCHANGED breakerVars
    BY <2>2 DEF Inv, ToolInv, CacheShape, BreakerSettles, breakerVars
  <2> QED
    BY <1>1, <2>1, <2>2 DEF CallInvalid
<1>5. ToolInv'
  BY <1>2, <1>4, SubCacheKeeps DEF Inv, ToolInv, CacheShape
<1>6. pc[s] = "calling" /\ pc' = pc /\ todo' = todo /\ shown' = shown
  BY DEF RecallOdd
<1>7. SearchShape'
  BY <1>1, <1>6 DEF Inv, SearchShape
<1>8. EmptyLately => EmptyLately'
  BY <1>2 DEF EmptyLately, kbVars, history
<1>9. SearchKnows'
  BY <1>1, <1>2, <1>6, <1>8 DEF Inv, SearchShape, SearchKnows
<1> QED
  BY <1>1, <1>3, <1>5, <1>7, <1>9 DEF Inv

\* A change of the knowledge base remembers what it takes away.
LEMMA ChangeKeeps ==
  ASSUME Inv, Change
  PROVE  Inv'
<1>1. Remember /\ UNCHANGED <<toolVars, searchVars>>
  BY DEF Change
<1>2. ToolInv'
  BY <1>1, CacheStaysRecent DEF Inv, toolVars, breakerVars
<1>3. EmptyLately => EmptyLately'
  <2>1. emptyAt' = IF collection = {} \/ collection' = {} THEN clock ELSE emptyAt
    BY <1>1 DEF Remember
  <2>2. clock' = clock /\ clock \in Nat
    BY <1>1 DEF toolVars, Inv, ToolInv, CacheShape
  <2> QED
    BY <2>1, <2>2, ToolAssumption DEF EmptyLately
<1>4. SearchShape' /\ SearchKnows'
  BY <1>1, <1>3 DEF Inv, SearchShape, SearchKnows, searchVars
<1> QED
  BY <1>2, <1>4 DEF Inv

\* A start empties the cache and ends the searches.
LEMMA ProcessRestartKeeps ==
  ASSUME Inv, ProcessRestart
  PROVE  Inv'
<1>1. /\ Remember /\ clock' = clock
      /\ cache' = <<>>
      /\ state' = "closed" /\ fails' = 0
      /\ pc' = [s \in Searches |-> "new"]
      /\ todo' = [s \in Searches |-> {}]
      /\ found' = [s \in Searches |-> {}]
      /\ shown' = [s \in Searches |-> {}]
  BY DEF ProcessRestart
<1>2. HistoryShape'
  BY <1>1, RememberKeeps DEF Inv, ToolInv, CacheShape
<1>3. CacheShape' /\ CacheIsRecent'
  BY <1>1 DEF Inv, ToolInv, CacheShape, CacheIsRecent
<1>4. BreakerSettles'
  BY <1>1, ToolAssumption DEF BreakerSettles
<1>5. SearchShape' /\ SearchKnows'
  BY <1>1 DEF SearchShape, SearchKnows
<1> QED
  BY <1>2, <1>3, <1>4, <1>5 DEF Inv, ToolInv

\* No time passes between the calls of a search.
LEMMA TickKeeps ==
  ASSUME Inv, Tick
  PROVE  Inv'
<1>1. /\ Remember /\ clock' = clock + 1
      /\ UNCHANGED <<cache, breakerVars, searchVars>>
      /\ \A s \in Searches : pc[s] # "calling"
  BY DEF Tick
<1>2. ToolInv'
  BY <1>1, CacheStaysRecent DEF Inv
<1>3. SearchShape' /\ SearchKnows'
  BY <1>1 DEF Inv, SearchShape, SearchKnows, searchVars
<1> QED
  BY <1>2, <1>3 DEF Inv

\* Inv is inductive.
LEMMA NextKeeps == Inv /\ [Next]_vars => Inv'
<1> SUFFICES ASSUME Inv, [Next]_vars PROVE Inv'
  OBVIOUS
<1>1. ASSUME NEW s \in Searches, SearchStep(s) PROVE Inv'
  BY <1>1, WaitsKeep, RecallKeeps, RecallOddKeeps DEF SearchStep, Calls
<1>2. CASE Change
  BY <1>2, ChangeKeeps
<1>3. CASE ProcessRestart
  BY <1>3, ProcessRestartKeeps
<1>4. CASE Tick
  BY <1>4, TickKeeps
<1>5. CASE UNCHANGED vars
  <2>1. BreakerSettles' /\ fails' \in Nat /\ cache' \in Seq(Entries)
    BY <1>5 DEF Inv, ToolInv, CacheShape, BreakerSettles, vars, toolVars
  <2>2. ToolInv'
    BY <1>5, <2>1, SubCacheKeeps DEF Inv, vars, toolVars
  <2>3. SearchShape' /\ SearchKnows'
    BY <1>5 DEF Inv, SearchShape, SearchKnows, EmptyLately, vars, searchVars,
                kbVars, toolVars, history
  <2> QED
    BY <2>2, <2>3 DEF Inv
<1> QED
  BY <1>1, <1>2, <1>3, <1>4, <1>5 DEF Next

-----------------------------------------------------------------------------
(***************************************************************************)
(* The theorems                                                            *)
(***************************************************************************)

\* The invariant holds in every state.
THEOREM RetrievalInvariant == Spec => []Inv
BY InitHolds, NextKeeps, PTL DEF Spec

\* Between two calls the breaker is closed or open, never half open, and it is
\* open exactly when the failures were enough (tool_manager.py:84-103).
THEOREM BreakerAlwaysSettles == Spec => []BreakerSettles
<1>1. Inv => BreakerSettles
  BY DEF Inv, ToolInv
<1> QED
  BY <1>1, RetrievalInvariant, PTL

\* Whatever is deleted and whenever the process restarts, a chunk that is
\* served could be found less than the time to live of the cache ago
\* (tool_manager.py:170-176, 367-381).
THEOREM StalenessIsBounded == Spec => StaleAtMostTtl
<1> DEFINE Step == \A s \in Searches : \A c \in Chunks :
                     c \in found'[s] \ found[s] =>
                       c \in Servable \/ clock - lastHad[c] < CacheTtl
<1>1. Inv /\ [Next]_vars => [Step]_vars
  <2> SUFFICES ASSUME Inv, Next,
                      NEW t \in Searches, NEW c \in Chunks,
                      c \in found'[t] \ found[t]
               PROVE  c \in Servable \/ clock - lastHad[c] < CacheTtl
    OBVIOUS
  <2>1. ASSUME NEW s \in Searches, NEW data \in SUBSET Items, Lately(data),
               found' = [found EXCEPT ![s] = @ \cup data]
        PROVE  c \in Servable \/ clock - lastHad[c] < CacheTtl
    <3>1. c \in data
      BY <2>1 DEF Inv, SearchShape
    <3> QED
      BY <2>1, <3>1 DEF Lately
  <2>2. ASSUME NEW s \in Searches, Waits(s)
        PROVE  FALSE
    <3>1. found' = found \/ found' = [found EXCEPT ![s] = {}]
      BY <2>2 DEF Waits, Start, Rewrite, Merge, Rerank
    <3> QED
      BY <3>1 DEF Inv, SearchShape
  <2>3. ASSUME NEW s \in Searches, SearchStep(s)
        PROVE  c \in Servable \/ clock - lastHad[c] < CacheTtl
    BY <2>1, <2>2, <2>3, RecallKeeps, RecallOddKeeps DEF SearchStep, Calls
  <2>4. CASE Change
    BY <2>4 DEF Change, searchVars
  <2>5. CASE ProcessRestart
    BY <2>5 DEF ProcessRestart
  <2>6. CASE Tick
    BY <2>6 DEF Tick, searchVars
  <2> QED
    BY <2>3, <2>4, <2>5, <2>6 DEF Next
<1> QED
  BY <1>1, RetrievalInvariant, PTL DEF Spec, StaleAtMostTtl

\* A search without a result met an empty collection, or a cache entry of one,
\* or a ranking that kept nothing; an error or an open breaker gives the
\* fallback item instead (tool_manager.py:178-181, 210-222, 333, 356).
THEOREM EmptinessIsReal == Spec => NothingMeansNothing
<1> DEFINE Step == \A s \in Searches :
                     pc[s] # "done" /\ pc'[s] = "done" /\ shown'[s] = {} =>
                       \/ collection = {}
                       \/ Cardinality(found[s]) > TopK
                       \/ clock - emptyAt < CacheTtl
<1>1. Inv /\ [Next]_vars => [Step]_vars
  <2> SUFFICES ASSUME Inv, Next, NEW t \in Searches,
                      pc[t] # "done", pc'[t] = "done", shown'[t] = {}
               PROVE  \/ collection = {}
                      \/ Cardinality(found[t]) > TopK
                      \/ clock - emptyAt < CacheTtl
    OBVIOUS
  <2>1. ASSUME NEW s \in Searches, Merge(s)
        PROVE  collection = {} \/ clock - emptyAt < CacheTtl
    <3>1. /\ pc[s] = "calling" /\ todo[s] = {}
          /\ \/ pc' = [pc EXCEPT ![s] = "done"]
                /\ shown' = [shown EXCEPT ![s] = found[s]]
             \/ pc' = [pc EXCEPT ![s] = "ranking"]
      BY <2>1 DEF Merge
    <3>2. s = t /\ found[s] = {}
      BY <3>1 DEF Inv, SearchShape
    <3> QED
      BY <3>1, <3>2 DEF Inv, SearchKnows, EmptyLately
  <2>2. ASSUME NEW s \in Searches, Rerank(s)
        PROVE  Cardinality(found[t]) > TopK
    <3>1. pc[s] = "ranking" /\ pc' = [pc EXCEPT ![s] = "done"]
      BY <2>2 DEF Rerank
    <3>2. s = t
      BY <3>1 DEF Inv, SearchShape
    <3> QED
      BY <3>1, <3>2 DEF Inv, SearchKnows
  <2>3. ASSUME NEW s \in Searches, Start(s) \/ Rewrite(s) \/ Calls(s)
        PROVE  FALSE
    <3>1. \/ pc' = pc
          \/ pc' = [pc EXCEPT ![s] = "rewriting"]
          \/ pc' = [pc EXCEPT ![s] = "calling"]
      BY <2>3 DEF Start, Rewrite, Calls, Recall, RecallOdd
    <3> QED
      BY <3>1 DEF Inv, SearchShape
  <2>4. CASE Change \/ Tick
    BY <2>4 DEF Change, Tick, searchVars
  <2>5. CASE ProcessRestart
    BY <2>5 DEF ProcessRestart
  <2> QED
    BY <2>1, <2>2, <2>3, <2>4, <2>5 DEF Next, SearchStep, Waits
<1> QED
  BY <1>1, RetrievalInvariant, PTL DEF Spec, NothingMeansNothing
-----------------------------------------------------------------------------
(***************************************************************************)
(* The types                                                               *)
(***************************************************************************)

\* No query has two entries.
Once(entries) ==
  \A i, j \in DOMAIN entries : entries[i].query = entries[j].query => i = j

\* What Inv leaves out of the types: the knowledge base, for which CountsInv is
\* proved in KnowledgeProofs, the bound of the cache and the rest of the breaker.
TypesInv ==
  /\ CountsInv
  /\ Once(cache)
  /\ Len(cache) <= CacheMax
  /\ \A i \in DOMAIN cache : cache[i].data \subseteq Chunks
  /\ state \in {"closed", "open"}
  /\ openedAt \in 0 .. clock
  /\ odd \in [Searches -> BOOLEAN]

\* Without(q) has one entry less, none for q and none twice.
LEMMA WithoutOnce ==
  ASSUME cache \in Seq(Entries), Once(cache), NEW q
  PROVE  /\ Len(Without(q)) \in Nat /\ Len(Without(q)) <= Len(cache)
         /\ Once(Without(q))
         /\ \A i \in DOMAIN Without(q) : Without(q)[i].query # q
<1>1. CASE ~ \E i \in DOMAIN cache : cache[i].query = q
  BY <1>1 DEF Without
<1>2. CASE \E i \in DOMAIN cache : cache[i].query = q
  <2> DEFINE k == CHOOSE i \in DOMAIN cache : cache[i].query = q
             rest == RemoveAt(cache, k)
  <2>1. k \in 1 .. Len(cache) /\ cache[k].query = q
    BY <1>2
  <2>2. Without(q) = rest
    BY <1>2 DEF Without
  <2> HIDE DEF k
  <2>3. /\ DOMAIN rest = 1 .. Len(cache) - 1
        /\ Len(rest) = Len(cache) - 1
        /\ \A i \in 1 .. Len(cache) - 1 :
             rest[i] = IF i <= k - 1 THEN cache[i] ELSE cache[i + 1]
    BY <2>1, RemoveAtIndex
  <2> HIDE DEF rest
  <2>4. Len(cache) \in Nat /\ k \in Int /\ DOMAIN cache = 1 .. Len(cache)
    BY <2>1
  <2>5. ASSUME NEW i \in 1 .. Len(cache) - 1
        PROVE  \E m \in DOMAIN cache : /\ rest[i] = cache[m] /\ m # k
                                       /\ m = IF i <= k - 1 THEN i ELSE i + 1
    BY <2>3, <2>4
  <2>6. \A i \in DOMAIN rest : rest[i].query # q
    BY <2>1, <2>3, <2>4, <2>5 DEF Once
  <2>7. ASSUME NEW i \in 1 .. Len(cache) - 1, NEW j \in 1 .. Len(cache) - 1,
               rest[i].query = rest[j].query
        PROVE  i = j
    <3>1. PICK m \in DOMAIN cache : rest[i] = cache[m] /\ m = IF i <= k - 1 THEN i ELSE i + 1
      BY <2>5
    <3>2. PICK n \in DOMAIN cache : rest[j] = cache[n] /\ n = IF j <= k - 1 THEN j ELSE j + 1
      BY <2>5
    <3>3. m = n
      BY <2>7, <3>1, <3>2 DEF Once
    <3>4. m \in Int /\ n \in Int /\ i \in Int /\ j \in Int
      BY <2>4
    <3> QED
      BY <2>4, <3>1, <3>2, <3>3, <3>4
  <2>8. Once(rest)
    BY <2>3, <2>7 DEF Once
  <2> QED
    BY <2>2, <2>3, <2>4, <2>6, <2>8
<1> QED
  BY <1>1, <1>2

\* ThinnedOut(entries) leaves room for an entry.
LEMMA ThinnedOutOnce ==
  ASSUME NEW entries \in Seq(Entries), Once(entries), Len(entries) <= CacheMax,
         NEW q, \A i \in DOMAIN entries : entries[i].query # q
  PROVE  /\ Len(ThinnedOut(entries)) < CacheMax
         /\ Once(ThinnedOut(entries))
         /\ \A i \in DOMAIN ThinnedOut(entries) : ThinnedOut(entries)[i].query # q
<1>1. CASE ~ (Len(entries) >= CacheMax)
  BY <1>1, ToolAssumption DEF ThinnedOut
<1>2. CASE Len(entries) >= CacheMax
  <2> DEFINE rest == SubSeq(entries, Evicted + 1, Len(entries))
             L == Len(entries)
  <2>1. L = CacheMax /\ L \in Nat /\ Evicted \in Nat /\ Evicted >= 1 /\ Evicted <= L
    BY <1>2, ToolAssumption
  <2>2. ThinnedOut(entries) = rest
    BY <1>2 DEF ThinnedOut
  <2>3. /\ Len(rest) = L - Evicted
        /\ DOMAIN rest = 1 .. L - Evicted
        /\ \A i \in 1 .. L - Evicted : rest[i] = entries[i + Evicted]
    <3>1. Evicted + 1 \in 1 .. Len(entries) + 1
      BY <2>1
    <3>2. /\ rest \in Seq(Entries)
          /\ Len(rest) = Len(entries) + 1 - (Evicted + 1)
          /\ \A i \in 1 .. Len(entries) + 1 - (Evicted + 1) :
               rest[i] = entries[i + (Evicted + 1) - 1]
      BY <3>1
    <3>3. /\ L + 1 - (Evicted + 1) = L - Evicted
          /\ \A i \in 1 .. L - Evicted : i + (Evicted + 1) - 1 = i + Evicted
      BY <2>1
    <3> QED
      BY <3>2, <3>3
  <2> HIDE DEF rest
  <2>4. \A i \in 1 .. L - Evicted : i + Evicted \in DOMAIN entries
    BY <2>1
  <2>5. \A i \in DOMAIN rest : rest[i].query # q
    BY <2>3, <2>4
  <2>6. ASSUME NEW i \in 1 .. L - Evicted, NEW j \in 1 .. L - Evicted,
               rest[i].query = rest[j].query
        PROVE  i = j
    <3>1. i + Evicted = j + Evicted
      BY <2>3, <2>4, <2>6 DEF Once
    <3> QED
      BY <2>1, <3>1
  <2>7. Once(rest)
    BY <2>3, <2>6 DEF Once
  <2>8. Len(rest) < CacheMax
    BY <2>1, <2>3
  <2> QED
    BY <2>2, <2>5, <2>7, <2>8
<1> QED
  BY <1>1, <1>2

\* A call keeps the cache within its bound, and caches chunks only.
LEMMA CallBounds ==
  ASSUME Inv, TypesInv, NEW q \in Queries, NEW data \in SUBSET Items,
         \/ CallHit(q, data)
         \/ CallRefused(q, data)
         \/ data \in SearchHybrid(q) /\ CallSucceeds(q, data)
         \/ CallFails(q, data)
  PROVE  /\ Once(cache') /\ Len(cache') <= CacheMax
         /\ \A i \in DOMAIN cache' : cache'[i].data \subseteq Chunks
<1>1. /\ cache \in Seq(Entries) /\ Once(cache) /\ Len(cache) <= CacheMax /\ clock \in Nat
      /\ \A i \in DOMAIN cache : cache[i].data \subseteq Chunks
  BY DEF Inv, ToolInv, CacheShape, TypesInv
<1>2. /\ Without(q) \in Seq(Entries)
      /\ Len(Without(q)) \in Nat /\ Len(Without(q)) <= Len(cache)
      /\ Once(Without(q))
      /\ \A i \in DOMAIN Without(q) : Without(q)[i].query # q
  BY <1>1, WithoutKeeps, WithoutOnce
<1>3. Len(Without(q)) <= CacheMax
  BY <1>1, <1>2, ToolAssumption
<1>4. \A i \in DOMAIN Without(q) : Without(q)[i].data \subseteq Chunks
  <2> SUFFICES ASSUME NEW i \in DOMAIN Without(q) PROVE Without(q)[i].data \subseteq Chunks
    OBVIOUS
  <2>1. PICK j \in DOMAIN cache : Without(q)[i] = cache[j]
    BY <1>1, WithoutKeeps
  <2> QED
    BY <1>1, <2>1
<1>5. CASE cache' = cache \/ cache' = Without(q)
  BY <1>1, <1>2, <1>3, <1>4, <1>5
<1>6. CASE data \in SearchHybrid(q) /\ CallSucceeds(q, data)
  <2> DEFINE kept == ThinnedOut(Without(q))
             new == [query |-> q, data |-> data, until |-> clock + CacheTtl]
  <2>1. kept \in Seq(Entries)
    BY <1>2, ThinnedOutKeeps
  <2>2. /\ Len(kept) < CacheMax /\ Once(kept)
        /\ \A i \in DOMAIN kept : kept[i].query # q
    BY <1>2, <1>3, ThinnedOutOnce
  <2>3. \A i \in DOMAIN kept : kept[i].data \subseteq Chunks
    <3> SUFFICES ASSUME NEW i \in DOMAIN kept PROVE kept[i].data \subseteq Chunks
      OBVIOUS
    <3>1. PICK j \in DOMAIN Without(q) : kept[i] = Without(q)[j]
      BY <1>2, ThinnedOutKeeps
    <3> QED
      BY <1>4, <3>1
  <2>4. data \subseteq Chunks
    <3>1. Servable \subseteq Chunks
      BY DEF Servable, TypesInv, CountsInv, Covers
    <3> QED
      BY <1>6, <3>1, HybridFinds
  <2>5. cache' = Append(kept, new) /\ new.query = q /\ new.data = data
    BY <1>6 DEF CallSucceeds
  <2> HIDE DEF kept, new
  <2>6. /\ DOMAIN cache' = 1 .. Len(kept) + 1 /\ Len(cache') = Len(kept) + 1
        /\ DOMAIN kept = 1 .. Len(kept) /\ Len(kept) \in Nat
        /\ \A i \in 1 .. Len(kept) : cache'[i] = kept[i]
        /\ cache'[Len(kept) + 1] = new
    BY <2>1, <2>5
  <2>7. \A i \in 1 .. Len(kept) + 1 : i \in 1 .. Len(kept) \/ i = Len(kept) + 1
    BY <2>6
  <2>8. Once(cache')
    BY <2>2, <2>5, <2>6, <2>7 DEF Once
  <2>9. \A i \in DOMAIN cache' : cache'[i].data \subseteq Chunks
    BY <2>3, <2>4, <2>5, <2>6, <2>7
  <2>10. Len(cache') <= CacheMax
    BY <2>2, <2>6, ToolAssumption
  <2> QED
    BY <2>8, <2>9, <2>10
<1> QED
  BY <1>5, <1>6 DEF CallHit, CallRefused, CallFails, toolVars

\* What a call does to the breaker.
LEMMA CallBreaker ==
  ASSUME Inv, TypesInv,
         RecordFailure \/ RecordSuccess \/ UNCHANGED breakerVars
  PROVE  state' \in {"closed", "open"} /\ openedAt' \in 0 .. clock
<1>1. clock \in Nat /\ fails \in Nat /\ BreakerSettles
  BY DEF Inv, ToolInv, CacheShape
<1>2. CASE RecordFailure
  <2>1. openedAt' \in 0 .. clock
    BY <1>1, <1>2 DEF RecordFailure, TypesInv
  <2>2. state' \in {"closed", "open"}
    BY <1>1, <1>2, ToolAssumption DEF RecordFailure, AfterAllow, BreakerSettles, TypesInv
  <2> QED
    BY <2>1, <2>2
<1> QED
  BY <1>1, <1>2 DEF RecordSuccess, breakerVars, TypesInv

\* No step of a search breaks a type.
LEMMA SearchKeepsTypes ==
  ASSUME Inv, TypesInv, NEW s \in Searches, SearchStep(s)
  PROVE  TypesInv'
<1>1. UNCHANGED kbVars /\ CountsInv'
  BY StepCounts DEF SearchStep, TypesInv
<1>2. CASE Waits(s) /\ UNCHANGED toolVars
  <2>1. odd' \in [Searches -> BOOLEAN]
    BY <1>2 DEF Waits, Start, Rewrite, Merge, Rerank, TypesInv
  <2> QED
    BY <1>1, <1>2, <2>1 DEF TypesInv, toolVars
<1>3. ASSUME NEW q \in Queries, Recall(s, q)
      PROVE  TypesInv'
  <2>1. PICK data \in SUBSET Items :
          \/ CallHit(q, data)
          \/ CallRefused(q, data)
          \/ data \in SearchHybrid(q) /\ CallSucceeds(q, data)
          \/ CallFails(q, data)
    BY <1>3 DEF Recall
  <2>2. /\ Once(cache') /\ Len(cache') <= CacheMax
        /\ \A i \in DOMAIN cache' : cache'[i].data \subseteq Chunks
    BY <2>1, CallBounds
  <2>3. RecordFailure \/ RecordSuccess \/ UNCHANGED breakerVars
    BY <2>1 DEF CallHit, CallRefused, CallSucceeds, CallFails, toolVars, breakerVars
  <2>4. state' \in {"closed", "open"} /\ openedAt' \in 0 .. clock
    BY <2>3, CallBreaker
  <2>5. clock' = clock
    BY <2>1 DEF CallHit, CallRefused, CallSucceeds, CallFails, toolVars
  <2>6. odd' \in [Searches -> BOOLEAN]
    BY <1>3 DEF Recall, TypesInv
  <2> QED
    BY <1>1, <2>2, <2>4, <2>5, <2>6 DEF TypesInv
<1>4. CASE RecallOdd(s)
  <2>1. PICK data \in SUBSET Items : CallInvalid(data)
    BY <1>4 DEF RecallOdd
  <2>2. /\ RecordFailure \/ UNCHANGED breakerVars
        /\ clock' = clock /\ cache' = cache
    BY <2>1 DEF CallInvalid
  <2>3. state' \in {"closed", "open"} /\ openedAt' \in 0 .. clock
    BY <2>2, CallBreaker
  <2>4. odd' \in [Searches -> BOOLEAN]
    BY <1>4 DEF RecallOdd, TypesInv
  <2> QED
    BY <1>1, <2>2, <2>3, <2>4 DEF TypesInv
<1> QED
  BY <1>2, <1>3, <1>4 DEF SearchStep, Calls

\* TypesInv is inductive beside Inv.
LEMMA StepKeepsTypes == ASSUME Inv, TypesInv, [Next]_vars PROVE TypesInv'
<1>1. ASSUME NEW s \in Searches, SearchStep(s) PROVE TypesInv'
  BY <1>1, SearchKeepsTypes
<1>2. CASE Change
  <2>1. CountsInv'
    BY <1>2, StepCounts DEF Change, KbNext, TypesInv
  <2> QED
    BY <1>2, <2>1 DEF Change, TypesInv, toolVars, searchVars
<1>3. CASE ProcessRestart
  <2>1. CountsInv'
    BY <1>3, StepCounts DEF ProcessRestart, KbNext, TypesInv
  <2>2. /\ cache' = <<>> /\ state' = "closed" /\ openedAt' = 0 /\ clock' = clock
        /\ odd' = [s \in Searches |-> FALSE]
    BY <1>3 DEF ProcessRestart
  <2>3. /\ Once(cache') /\ Len(cache') <= CacheMax
        /\ \A i \in DOMAIN cache' : cache'[i].data \subseteq Chunks
    BY <2>2, ToolAssumption DEF Once
  <2>4. openedAt' \in 0 .. clock'
    BY <2>2 DEF Inv, ToolInv, CacheShape
  <2> QED
    BY <2>1, <2>2, <2>3, <2>4 DEF TypesInv
<1>4. CASE Tick
  <2>1. CountsInv'
    BY <1>4, StepCounts DEF Tick, TypesInv
  <2>2. openedAt' \in 0 .. clock'
    BY <1>4 DEF Tick, breakerVars, TypesInv, Inv, ToolInv, CacheShape
  <2> QED
    BY <1>4, <2>1, <2>2 DEF Tick, TypesInv, breakerVars, searchVars
<1>5. CASE UNCHANGED vars
  <2>1. CountsInv'
    BY <1>5, StepCounts DEF vars, TypesInv
  <2> QED
    BY <1>5, <2>1 DEF vars, TypesInv, toolVars, searchVars
<1> QED
  BY <1>1, <1>2, <1>3, <1>4, <1>5 DEF Next

\* At the start every type holds.
LEMMA InitTypes == ASSUME Init PROVE TypesInv
<1>1. CountsInv
  BY StartCounts DEF Init
<1>2. cache = <<>> /\ state = "closed" /\ openedAt = 0 /\ clock = CacheTtl
  BY DEF Init, ToolInit
<1>3. /\ Once(cache) /\ Len(cache) <= CacheMax
      /\ \A i \in DOMAIN cache : cache[i].data \subseteq Chunks
  BY <1>2, ToolAssumption DEF Once
<1>4. openedAt \in 0 .. clock
  BY <1>2, ToolAssumption
<1>5. odd \in [Searches -> BOOLEAN]
  BY DEF Init, SearchInit
<1> QED
  BY <1>1, <1>2, <1>3, <1>4, <1>5 DEF TypesInv

\* Every variable keeps its type: a query is cached once, and however the calls,
\* the evictions and the failures alternate the cache stays within its bound
\* (tool_manager.py:367-381).
THEOREM RetrievalTypes == Spec => []TypeOK
<1>1. Init => TypesInv
  BY InitTypes
<1>2. Inv /\ TypesInv /\ [Next]_vars => TypesInv'
  BY StepKeepsTypes
<1>3. Inv /\ TypesInv => TypeOK
  <2> SUFFICES ASSUME Inv, TypesInv PROVE TypeOK
    OBVIOUS
  <2>1. KbTypeOK
    BY DEF TypesInv, CountsInv, Covers, KbTypeOK
  <2>2. \A i \in DOMAIN cache :
          cache[i] \in [query : Queries, data : SUBSET Chunks, until : Nat]
    <3>1. \A i \in DOMAIN cache : cache[i] \in Entries /\ cache[i].data \subseteq Chunks
      BY DEF Inv, ToolInv, CacheShape, TypesInv
    <3> QED
      BY <3>1 DEF Entries
  <2>3. ToolTypeOK(SUBSET Chunks)
    BY <2>2 DEF Inv, ToolInv, CacheShape, TypesInv, Once, ToolTypeOK
  <2> QED
    BY <2>1, <2>3 DEF TypeOK, Inv, ToolInv, HistoryShape, SearchShape, TypesInv
<1> QED
  BY <1>1, <1>2, <1>3, RetrievalInvariant, PTL DEF Spec
===============================================================================
