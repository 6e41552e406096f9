---------------------------- MODULE KnowledgeProofs ----------------------------
(***************************************************************************)
(* What holds of the knowledge base for every set of files and documents   *)
(* and any number of failures: a stored chunk is indexed, a file is        *)
(* turned away only while its documents are stored, and words are counted  *)
(* so that the keyword search is exact.                                    *)
(***************************************************************************)
EXTENDS KnowledgeBase, FiniteSetTheorems, TLAPS

\* A document is stored as a whole or not at all: additions bring all chunks
\* of a document, and what deletes one chunk deletes all of them.
StoredWhole == \A d \in Docs : Stored(d) => ChunksOf(d) \subseteq collection

\* The inductive invariant of what is stored.
KbInv == StoredIsIndexed /\ StoredWhole /\ KnownFileIsStored

\* What one request does to collection and index.
Grows(docs, picked) ==
  /\ indexed' = indexed \cup All(docs, picked)
  /\ collection' \in {collection, collection \cup All(docs, picked)}

-----------------------------------------------------------------------------
(***************************************************************************)
(* Chunks of documents                                                     *)
(***************************************************************************)

\* Documents share no chunk: a chunk carries the name of its document.
LEMMA ChunksAreOwned ==
  ASSUME NEW d, NEW e, ChunksOf(d) \cap ChunksOf(e) # {}
  PROVE  d = e
BY DEF ChunksOf

\* The documents that may be picked for an import are no malformed elements.
LEMMA PickedAreDocs ==
  ASSUME NEW f \in Files, NEW i \in WellFormed(f.docs)
  PROVE  i \in DOMAIN f.docs /\ f.docs[i] \in Docs
<1>1. f.docs \in Seq(Docs \cup {Malformed})
  BY KnowledgeAssumption
<1>2. i \in 1 .. Len(f.docs) /\ f.docs[i] # Malformed
  BY <1>1 DEF WellFormed
<1> QED
  BY <1>1, <1>2

\* The default documents are documents.
LEMMA DefaultsAreDocs ==
  ASSUME NEW i \in DOMAIN DefaultDocs
  PROVE  DefaultDocs[i] \in Docs
BY KnowledgeAssumption

\* Adding whole documents to whole documents leaves whole documents.
LEMMA AdditionKeepsWhole ==
  ASSUME StoredWhole, NEW docs, NEW picked,
         collection' = collection \cup All(docs, picked)
  PROVE  StoredWhole'
<1> SUFFICES ASSUME NEW d \in Docs, ChunksOf(d) \cap collection' # {}
             PROVE  ChunksOf(d) \subseteq collection'
  BY DEF StoredWhole, Stored, Docs, ChunksOf
<1>1. CASE ChunksOf(d) \cap collection # {}
  BY <1>1 DEF StoredWhole, Stored
<1>2. CASE ChunksOf(d) \cap All(docs, picked) # {}
  <2>1. PICK i \in picked : ChunksOf(d) \cap ChunksOf(docs[i]) # {}
    BY <1>2 DEF All
  <2>2. docs[i] = d
    BY <2>1, ChunksAreOwned
  <2> QED
    BY <2>1, <2>2 DEF All
<1> QED
  BY <1>1, <1>2

\* A collection that only grows keeps every known file stored.
LEMMA GrowthKeepsKnown ==
  ASSUME KnownFileIsStored, collection \subseteq collection',
         dedup' = dedup, outdated' = outdated
  PROVE  KnownFileIsStored'
BY DEF KnownFileIsStored, All, ChunksOf

-----------------------------------------------------------------------------
(***************************************************************************)
(* Additions                                                               *)
(***************************************************************************)

\* What only grows loses no document.
LEMMA GrowingKeeps ==
  ASSUME KbInv, NEW docs, NEW picked, Grows(docs, picked)
  PROVE  StoredIsIndexed' /\ StoredWhole' /\ collection \subseteq collection'
<1>1. CASE collection' = collection
  <2>1. StoredWhole'
    BY <1>1 DEF KbInv, StoredWhole, Stored, Docs, ChunksOf
  <2> QED
    BY <1>1, <2>1 DEF KbInv, Grows, StoredIsIndexed
<1>2. CASE collection' = collection \cup All(docs, picked)
  BY <1>2, AdditionKeepsWhole DEF KbInv, Grows, StoredIsIndexed
<1> QED
  BY <1>1, <1>2 DEF Grows

\* An addition only grows.
LEMMA ImportsGrow ==
  ASSUME NEW docs, NEW added, Imports(docs, added)
  PROVE  Grows(docs, added)
BY DEF Imports, Index, Grows

\* An addition that breaks off only grows.
LEMMA RaisesGrow ==
  ASSUME NEW docs, ImportRaises(docs)
  PROVE  \E tried : Grows(docs, tried)
<1>1. PICK tried \in {WellFormed(docs), Fresh(docs)} :
         /\ Index(docs, tried)
         /\ collection' \in {collection, collection \cup All(docs, tried)}
  BY DEF ImportRaises
<1>2. Grows(docs, tried)
  BY <1>1 DEF Index, Grows
<1> QED
  BY <1>2

\* Imported, or found stored: either way the whole file is there.
LEMMA ImportStoresFile ==
  ASSUME KbInv, NEW f \in Files,
         \/ Imports(f.docs, Fresh(f.docs))
         \/ Imports(f.docs, DOMAIN f.docs)
  PROVE  All(f.docs, DOMAIN f.docs) \subseteq collection'
<1>1. CASE Imports(f.docs, DOMAIN f.docs)
  BY <1>1 DEF Imports
<1>2. CASE Imports(f.docs, Fresh(f.docs))
  <2> SUFFICES ASSUME NEW i \in DOMAIN f.docs
               PROVE  ChunksOf(f.docs[i]) \subseteq collection'
    BY DEF All
  <2>1. i \in WellFormed(f.docs)
    BY <1>2 DEF Imports
  <2>2. f.docs[i] \in Docs
    BY <2>1, PickedAreDocs
  <2>3. CASE Stored(f.docs[i])
    BY <1>2, <2>2, <2>3 DEF KbInv, StoredWhole, Imports
  <2>4. CASE ~ Stored(f.docs[i])
    <3>1. i \in Fresh(f.docs)
      BY <2>1, <2>4 DEF Fresh
    <3> QED
      BY <1>2, <3>1 DEF Imports, All
  <2> QED
    BY <2>3, <2>4
<1> QED
  BY <1>1, <1>2

\* An addition through the endpoint.
LEMMA AddKeeps ==
  ASSUME KbInv, NEW f \in Files, AddKnowledge(f)
  PROVE  KbInv'
<1>1. \E picked : Grows(f.docs, picked)
  BY ImportsGrow, RaisesGrow DEF AddKnowledge, ImportsBlind
<1>2. StoredIsIndexed' /\ StoredWhole' /\ collection \subseteq collection'
  BY <1>1, GrowingKeeps
<1> QED
  BY <1>2, GrowthKeepsKnown DEF KbInv, AddKnowledge

\* Dedup unchanged, or the key of a file that is stored.
LEMMA UploadKeeps ==
  ASSUME KbInv, NEW f \in Files, Upload(f)
  PROVE  KbInv'
<1>1. \E picked : Grows(f.docs, picked)
  BY ImportsGrow, RaisesGrow DEF Upload, ImportsBlind
<1>2. StoredIsIndexed' /\ StoredWhole' /\ collection \subseteq collection'
  BY <1>1, GrowingKeeps
<1>3. outdated' = outdated
  BY DEF Upload
<1>4. CASE dedup' = dedup
  BY <1>2, <1>3, <1>4, GrowthKeepsKnown DEF KbInv
<1>5. CASE /\ dedup' = dedup \cup {f.key}
           /\ All(f.docs, DOMAIN f.docs) \subseteq collection'
  <2>1. ASSUME ~ outdated, NEW key \in dedup
        PROVE  \E g \in Files :
                 g.key = key /\ All(g.docs, DOMAIN g.docs) \subseteq collection'
    BY <1>2, <2>1 DEF KbInv, KnownFileIsStored
  <2>2. KnownFileIsStored'
    BY <1>3, <1>5, <2>1 DEF KnownFileIsStored, All, ChunksOf
  <2> QED
    BY <1>2, <2>2 DEF KbInv
<1>6. \/ dedup' = dedup
      \/ /\ dedup' = dedup \cup {f.key}
         /\ All(f.docs, DOMAIN f.docs) \subseteq collection'
  <2>1. CASE Imports(f.docs, Fresh(f.docs)) /\ dedup' \in {dedup, dedup \cup {f.key}}
    BY <2>1, ImportStoresFile
  <2>2. CASE ImportsBlind(f.docs) /\ dedup' = dedup \cup {f.key}
    BY <2>2, ImportStoresFile DEF ImportsBlind
  <2>3. CASE dedup' = dedup
    BY <2>3
  <2> QED
    BY <2>1, <2>2, <2>3 DEF Upload
<1> QED
  BY <1>4, <1>5, <1>6

-----------------------------------------------------------------------------
(***************************************************************************)
(* Deletions and restarts                                                  *)
(***************************************************************************)

\* Chunks that leave together: all of a document or all there are.
LEMMA DropKeeps ==
  ASSUME KbInv, NEW chunks, Drop(chunks),
         \A d \in Docs : ChunksOf(d) \cap chunks # {} =>
                           ChunksOf(d) \cap collection \subseteq chunks
  PROVE  KbInv'
<1>1. collection' = collection \ chunks
  BY DEF Drop
<1>2. StoredIsIndexed'
  BY <1>1 DEF KbInv, StoredIsIndexed, Drop, RemoveChunks
<1>3. ASSUME NEW d \in Docs, ChunksOf(d) \cap collection' # {}
      PROVE  ChunksOf(d) \subseteq collection'
  <2>1. ChunksOf(d) \subseteq collection
    BY <1>1, <1>3 DEF KbInv, StoredWhole, Stored
  <2>2. ChunksOf(d) \cap chunks = {}
    BY <1>1, <1>3
  <2> QED
    BY <1>1, <2>1, <2>2
<1>4. StoredWhole'
  BY <1>3 DEF StoredWhole, Stored, Docs, ChunksOf
<1>5. ~ outdated' => dedup' = {}
  BY DEF Drop, KeysDropped
<1> QED
  BY <1>2, <1>4, <1>5 DEF KbInv, KnownFileIsStored

\* A deletion takes a whole document.
LEMMA DeleteKeeps ==
  ASSUME KbInv, NEW d \in Docs, Delete(d)
  PROVE  KbInv'
<1>1. \A e \in Docs : ChunksOf(e) \cap (ChunksOf(d) \cap collection) # {} =>
                        ChunksOf(e) \cap collection \subseteq ChunksOf(d) \cap collection
  BY ChunksAreOwned
<1> QED
  BY <1>1, DropKeeps DEF Delete

\* A clear takes all documents.
LEMMA ClearKeeps ==
  ASSUME KbInv, Clear
  PROVE  KbInv'
<1>1. CASE collection = {}
  <2>1. UNCHANGED <<collection, indexed>> /\ (~ outdated' => dedup' = {})
    BY <1>1 DEF Clear, KeysDropped
  <2>2. StoredWhole'
    BY <2>1 DEF KbInv, StoredWhole, Stored, Docs, ChunksOf
  <2> QED
    BY <2>1, <2>2 DEF KbInv, StoredIsIndexed, KnownFileIsStored
<1>2. CASE collection # {}
  BY <1>2, DropKeeps DEF Clear
<1> QED
  BY <1>1, <1>2

\* The default documents, stored by a start over an empty collection.
LEMMA DefaultsAreWhole ==
  ASSUME NEW d \in Docs, ChunksOf(d) \cap All(DefaultDocs, DOMAIN DefaultDocs) # {}
  PROVE  ChunksOf(d) \subseteq All(DefaultDocs, DOMAIN DefaultDocs)
<1>1. PICK i \in DOMAIN DefaultDocs : ChunksOf(d) \cap ChunksOf(DefaultDocs[i]) # {}
  BY DEF All
<1>2. DefaultDocs[i] = d
  BY <1>1, ChunksAreOwned
<1> QED
  BY <1>1, <1>2 DEF All

\* A start rebuilds the index and may add the default documents.
LEMMA RestartKeeps ==
  ASSUME KbInv, Restart
  PROVE  KbInv'
<1>1. CASE collection' = collection /\ indexed' = collection /\ UNCHANGED <<dedup, outdated>>
  <2>1. StoredWhole'
    BY <1>1 DEF KbInv, StoredWhole, Stored, Docs, ChunksOf
  <2> QED
    BY <1>1, <2>1, GrowthKeepsKnown DEF KbInv, StoredIsIndexed
<1>2. CASE /\ collection' = All(DefaultDocs, DOMAIN DefaultDocs)
           /\ indexed' = All(DefaultDocs, DOMAIN DefaultDocs)
           /\ dedup' = dedup
           /\ \/ collection = {} /\ outdated' = outdated
              \/ outdated' = (dedup # {})
  <2>1. StoredWhole'
    BY <1>2, DefaultsAreWhole DEF StoredWhole, Stored, Docs, ChunksOf
  <2>2. KnownFileIsStored'
    <3>1. CASE collection = {} /\ outdated' = outdated
      BY <1>2, <3>1, GrowthKeepsKnown DEF KbInv
    <3>2. CASE outdated' = (dedup # {})
      BY <1>2, <3>2 DEF KnownFileIsStored
    <3> QED
      BY <1>2, <3>1, <3>2
  <2> QED
    BY <1>2, <2>1, <2>2 DEF KbInv, StoredIsIndexed
<1> QED
  BY <1>1, <1>2 DEF Restart, Rebuild

-----------------------------------------------------------------------------

\* The first start indexes what is stored.
LEMMA KbStart == ASSUME KbInit PROVE KbInv
<1>1. StoredWhole
  BY DefaultsAreWhole DEF KbInit, StoredWhole, Stored
<1> QED
  BY <1>1 DEF KbInit, KbInv, StoredIsIndexed, KnownFileIsStored

\* KbInv is inductive.
LEMMA KbStep == ASSUME KbInv, KbNext \/ UNCHANGED kbVars PROVE KbInv'
<1>1. ASSUME NEW f \in Files, AddKnowledge(f) PROVE KbInv'
  BY <1>1, AddKeeps
<1>2. ASSUME NEW f \in Files, Upload(f) PROVE KbInv'
  BY <1>2, UploadKeeps
<1>3. ASSUME NEW d \in Docs, Delete(d) PROVE KbInv'
  BY <1>3, DeleteKeeps
<1>4. CASE Clear
  BY <1>4, ClearKeeps
<1>5. CASE Restart
  BY <1>5, RestartKeeps
<1>6. CASE UNCHANGED kbVars
  <2>1. UNCHANGED <<collection, indexed, dedup, outdated>>
    BY <1>6 DEF kbVars
  <2>2. StoredWhole'
    BY <2>1 DEF KbInv, StoredWhole, Stored, Docs, ChunksOf
  <2>3. KnownFileIsStored'
    BY <2>1, GrowthKeepsKnown DEF KbInv
  <2> QED
    BY <2>1, <2>2, <2>3 DEF KbInv, StoredIsIndexed
<1> QED
  BY <1>1, <1>2, <1>3, <1>4, <1>5, <1>6 DEF KbNext, KbRequest

\* StoredWhole is what makes the other two invariants inductive.
THEOREM KnowledgeInvariant == KbSpec => []KbInv
BY KbStart, KbStep, PTL DEF KbSpec

\* Whatever fails, a chunk that ChromaDB serves is indexed: it is indexed
\* before it is stored and removed after it was deleted
\* (knowledge_base.py:361-375, 417-419).
THEOREM ServedChunksAreIndexed == KbSpec => []StoredIsIndexed
<1>1. KbInv => StoredIsIndexed
  BY DEF KbInv
<1> QED
  BY <1>1, KnowledgeInvariant, PTL

\* A file is turned away as known only while the documents of a file with its
\* key are stored, unless a failed call left the set of keys behind
\* (main.py:731, 752, 907-909, 918).
THEOREM KnownFilesAreStored == KbSpec => []KnownFileIsStored
<1>1. KbInv => KnownFileIsStored
  BY DEF KbInv
<1> QED
  BY <1>1, KnowledgeInvariant, PTL

-----------------------------------------------------------------------------
(***************************************************************************)
(* How often a word was counted                                            *)
(***************************************************************************)

\* An index and its counts: no word is counted less often than it occurs.
Covers(index, counts) ==
  /\ index \subseteq Chunks
  /\ IsFiniteSet(index)
  /\ counts \in [Words -> Nat]
  /\ \A word \in Words : counts[word] >= Count(index, word)

\* Every word is counted as often as it occurs.
Exact(index, counts) == \A word \in Words : counts[word] = Count(index, word)

\* No count is too low, and all are right while no request broke off.
CountsInv ==
  /\ Covers(indexed, df)
  /\ collection \subseteq Chunks
  /\ IsFiniteSet(collection)
  /\ dedup \subseteq Keys
  /\ broken \in BOOLEAN
  /\ outdated \in BOOLEAN
  /\ failures \in 0 .. MaxFailures
  /\ ~ broken => indexed = collection /\ Exact(indexed, df)

\* Documents that can be indexed.
Picks(docs, picked) ==
  picked \in SUBSET Nat /\ IsFiniteSet(picked) /\ \A i \in picked : docs[i] \in Docs

\* A word occurs in no more chunks than there are.
LEMMA CountType ==
  ASSUME NEW chunks, IsFiniteSet(chunks), NEW word
  PROVE  /\ Count(chunks, word) \in Nat
         /\ Count(chunks, word) <= Cardinality(chunks)
<1>1. {c \in chunks : Has(c, word)} \in SUBSET chunks
  OBVIOUS
<1>2. /\ IsFiniteSet({c \in chunks : Has(c, word)})
      /\ Cardinality({c \in chunks : Has(c, word)}) <= Cardinality(chunks)
  BY <1>1, FS_Subset
<1> QED
  BY <1>2, FS_CardinalityType DEF Count

\* Counts of two sets of chunks add up but for the chunks they share.
LEMMA CountUnion ==
  ASSUME NEW S, IsFiniteSet(S), NEW T, IsFiniteSet(T), NEW word
  PROVE  /\ Count(S \cup T, word) = Count(S, word) + Count(T, word) - Count(S \cap T, word)
         /\ Count(S \cap T, word) \in Nat
<1> DEFINE H(X) == {c \in X : Has(c, word)}
<1>1. H(S) \in SUBSET S /\ H(T) \in SUBSET T
  OBVIOUS
<1>2. IsFiniteSet(H(S)) /\ IsFiniteSet(H(T))
  BY <1>1, FS_Subset
<1>3. H(S \cup T) = H(S) \cup H(T) /\ H(S \cap T) = H(S) \cap H(T)
  OBVIOUS
<1>4. \A X : Count(X, word) = Cardinality(H(X))
  BY DEF Count
<1>5. Count(S \cap T, word) \in Nat
  BY FS_Intersection, CountType
<1> HIDE DEF H
<1>6. Cardinality(H(S) \cup H(T)) = Cardinality(H(S)) + Cardinality(H(T)) - Cardinality(H(S) \cap H(T))
  BY <1>2, FS_Union
<1>7. Count(S \cup T, word) = Count(S, word) + Count(T, word) - Count(S \cap T, word)
  BY <1>3, <1>4, <1>6
<1> QED
  BY <1>5, <1>7

\* Counts of two sets that share no chunk add up.
LEMMA CountDisjoint ==
  ASSUME NEW S, IsFiniteSet(S), NEW T, IsFiniteSet(T), S \cap T = {}, NEW word
  PROVE  Count(S \cup T, word) = Count(S, word) + Count(T, word)
<1>1. Count(S \cap T, word) = 0
  BY FS_EmptySet DEF Count
<1>2. Count(S, word) \in Nat /\ Count(T, word) \in Nat
  BY CountType
<1>3. Count(S \cup T, word) = Count(S, word) + Count(T, word) - Count(S \cap T, word)
  BY CountUnion
<1> QED
  BY <1>1, <1>2, <1>3

\* Removing chunks removes what they count for.
LEMMA CountDifference ==
  ASSUME NEW S, IsFiniteSet(S), NEW T, NEW word
  PROVE  Count(S, word) = Count(S \ T, word) + Count(T \cap S, word)
<1> DEFINE A == S \ T
           B == T \cap S
<1>1. IsFiniteSet(A) /\ IsFiniteSet(B)
  BY FS_Difference, FS_Intersection
<1>2. A \cap B = {} /\ A \cup B = S
  OBVIOUS
<1> HIDE DEF A, B
<1>3. Count(A \cup B, word) = Count(A, word) + Count(B, word)
  BY <1>1, <1>2, CountDisjoint
<1>4. Count(S, word) = Count(A, word) + Count(B, word)
  BY <1>2, <1>3
<1> QED
  BY <1>4 DEF A, B

\* A document has finitely many chunks.
LEMMA ChunksFinite ==
  ASSUME NEW d \in Docs
  PROVE  IsFiniteSet(ChunksOf(d)) /\ ChunksOf(d) \subseteq Chunks
<1>1. WordsOf[d] \in Seq(SUBSET Words)
  BY KnowledgeAssumption
<1> DEFINE D == 1 .. Len(WordsOf[d])
           f == [i \in D |-> <<d, i>>]
<1>2. D = DOMAIN WordsOf[d] /\ Len(WordsOf[d]) \in Nat
  BY <1>1
<1>3. IsFiniteSet(D)
  <2>1. 1 \in Int /\ Len(WordsOf[d]) \in Int
    BY <1>2
  <2> QED
    BY <2>1, FS_Interval
<1>4. ChunksOf(d) = {<<d, i>> : i \in D}
  BY <1>2 DEF ChunksOf
<1> HIDE DEF D
<1>5. f \in Surjection(D, ChunksOf(d))
  BY <1>4 DEF Surjection
<1> HIDE DEF f
<1>6. IsFiniteSet(ChunksOf(d))
  BY <1>3, <1>5, FS_Surjection
<1> QED
  BY <1>6 DEF Chunks

\* The chunks of picked documents are finitely many.
LEMMA AllFinite ==
  ASSUME NEW docs, NEW picked, Picks(docs, picked)
  PROVE  IsFiniteSet(All(docs, picked)) /\ All(docs, picked) \subseteq Chunks
<1> DEFINE S == {ChunksOf(docs[i]) : i \in picked}
           f == [i \in picked |-> ChunksOf(docs[i])]
<1>1. f \in Surjection(picked, S)
  BY DEF Surjection
<1>2. IsFiniteSet(picked)
  BY DEF Picks
<1>3. \A T \in S : IsFiniteSet(T) /\ T \subseteq Chunks
  BY ChunksFinite DEF Picks
<1>4. All(docs, picked) = UNION S
  BY DEF All
<1> HIDE DEF f, S
<1>5. IsFiniteSet(S)
  BY <1>1, <1>2, FS_Surjection
<1>6. IsFiniteSet(UNION S)
  BY <1>3, <1>5, FS_UNION
<1> QED
  BY <1>3, <1>4, <1>6

\* What indexing documents counts: no chunk is left out, and each counts once if
\* no document is there twice.
LEMMA IndexCounts ==
  ASSUME NEW docs, NEW picked, Picks(docs, picked), NEW word
  PROVE  /\ Counted(docs, picked, word) \in Nat
         /\ Count(All(docs, picked), word) <= Counted(docs, picked, word)
         /\ ~ Repeats(docs, picked) =>
              Counted(docs, picked, word) = Count(All(docs, picked), word)
<1> DEFINE P == {p \in picked \X All(docs, picked) :
                   p[2] \in ChunksOf(docs[p[1]]) /\ Has(p[2], word)}
           H == {c \in All(docs, picked) : Has(c, word)}
           f == [p \in P |-> p[2]]
<1>1. IsFiniteSet(P)
  <2>1. IsFiniteSet(picked \X All(docs, picked))
    BY AllFinite, FS_Product DEF Picks
  <2>2. P \in SUBSET (picked \X All(docs, picked))
    OBVIOUS
  <2> HIDE DEF P
  <2> QED
    BY <2>1, <2>2, FS_Subset
<1>2. f \in [P -> H]
  OBVIOUS
<1>3. ASSUME NEW c \in H PROVE \E p \in P : f[p] = c
  <2>1. PICK i \in picked : c \in ChunksOf(docs[i])
    BY DEF All
  <2>2. <<i, c>> \in P
    BY <2>1
  <2> QED
    BY <2>2
<1>4. f \in Surjection(P, H)
  BY <1>2, <1>3 DEF Surjection
<1>5. ASSUME ~ Repeats(docs, picked), NEW p \in P, NEW q \in P, f[p] = f[q] PROVE p = q
  <2>1. /\ p[1] \in picked /\ q[1] \in picked /\ p[2] = q[2]
        /\ p[2] \in ChunksOf(docs[p[1]]) /\ p[2] \in ChunksOf(docs[q[1]])
        /\ p = <<p[1], p[2]>> /\ q = <<q[1], q[2]>>
    BY <1>5
  <2>2. docs[p[1]] = docs[q[1]]
    BY <2>1, ChunksAreOwned
  <2>3. ~ (p[1] < q[1]) /\ ~ (q[1] < p[1])
    BY <1>5, <2>1, <2>2 DEF Repeats
  <2>4. p[1] \in Nat /\ q[1] \in Nat
    BY <2>1 DEF Picks
  <2>5. p[1] = q[1]
    BY <2>3, <2>4
  <2> QED
    BY <2>1, <2>5
<1>6. ~ Repeats(docs, picked) => f \in Injection(P, H)
  BY <1>2, <1>5 DEF Injection, IsInjective
<1>7. Counted(docs, picked, word) = Cardinality(P) /\ Count(All(docs, picked), word) = Cardinality(H)
  BY DEF Counted, Count
<1> HIDE DEF P, H, f
<1>8. /\ Cardinality(H) <= Cardinality(P)
      /\ Cardinality(H) = Cardinality(P) <=> f \in Injection(P, H)
  BY <1>1, <1>4, FS_Surjection
<1>9. Cardinality(P) \in Nat
  BY <1>1, FS_CardinalityType
<1> QED
  BY <1>6, <1>7, <1>8, <1>9

-----------------------------------------------------------------------------
(***************************************************************************)
(* The counts through the calls of the index                               *)
(***************************************************************************)

\* Indexing adds every word of what is new at least once, and of what is new and not
\* repeated exactly once.
LEMMA IndexKeeps ==
  ASSUME Covers(indexed, df), NEW docs, NEW picked, Picks(docs, picked), Index(docs, picked)
  PROVE  /\ Covers(indexed', df')
         /\ /\ Exact(indexed, df)
            /\ ~ Repeats(docs, picked)
            /\ indexed \cap All(docs, picked) = {}
            => Exact(indexed', df')
<1> DEFINE new == All(docs, picked)
<1>1. IsFiniteSet(new) /\ new \subseteq Chunks /\ IsFiniteSet(indexed) /\ indexed \subseteq Chunks
  BY AllFinite DEF Covers
<1>2. /\ indexed' = indexed \cup new
      /\ df' = [word \in Words |-> df[word] + Counted(docs, picked, word)]
  BY DEF Index
<1> HIDE DEF new
<1>3. IsFiniteSet(indexed') /\ indexed' \subseteq Chunks
  BY <1>1, <1>2, FS_Union
<1>4. ASSUME NEW word \in Words
      PROVE  /\ df'[word] \in Nat
             /\ df'[word] >= Count(indexed', word)
             /\ /\ df[word] = Count(indexed, word)
                /\ ~ Repeats(docs, picked)
                /\ indexed \cap new = {}
                => df'[word] = Count(indexed', word)
  <2>1. /\ Counted(docs, picked, word) \in Nat
        /\ Count(new, word) <= Counted(docs, picked, word)
        /\ ~ Repeats(docs, picked) => Counted(docs, picked, word) = Count(new, word)
    BY IndexCounts DEF new
  <2>2. /\ df[word] \in Nat /\ df[word] >= Count(indexed, word)
        /\ df'[word] = df[word] + Counted(docs, picked, word)
    BY <1>2 DEF Covers
  <2>3. /\ Count(indexed', word) = Count(indexed, word) + Count(new, word) - Count(indexed \cap new, word)
        /\ Count(indexed \cap new, word) \in Nat
    <3>1. /\ Count(indexed \cup new, word) = Count(indexed, word) + Count(new, word) - Count(indexed \cap new, word)
          /\ Count(indexed \cap new, word) \in Nat
      BY <1>1, CountUnion
    <3> QED
      BY <1>2, <3>1
  <2>4. ASSUME indexed \cap new = {}
        PROVE  Count(indexed', word) = Count(indexed, word) + Count(new, word)
    <3>1. Count(indexed \cup new, word) = Count(indexed, word) + Count(new, word)
      BY <1>1, <2>4, CountDisjoint
    <3> QED
      BY <1>2, <3>1
  <2>5. Count(indexed, word) \in Nat /\ Count(new, word) \in Nat
    BY <1>1, CountType
  <2> QED
    BY <2>1, <2>2, <2>3, <2>4, <2>5
<1>5. df' \in [Words -> Nat]
  <2>1. df' = [word \in Words |-> df'[word]]
    BY <1>2
  <2> QED
    BY <1>4, <2>1
<1> QED
  BY <1>3, <1>4, <1>5 DEF Covers, Exact, new

\* Removing subtracts the words of the chunks that were indexed.
LEMMA RemoveKeeps ==
  ASSUME Covers(indexed, df), NEW chunks, RemoveChunks(chunks)
  PROVE  /\ Covers(indexed', df')
         /\ Exact(indexed, df) => Exact(indexed', df')
<1>1. IsFiniteSet(indexed) /\ indexed \subseteq Chunks
  BY DEF Covers
<1>2. /\ indexed' = indexed \ chunks
      /\ df' = [word \in Words |-> df[word] - Count(chunks \cap indexed, word)]
  BY DEF RemoveChunks
<1>3. IsFiniteSet(indexed') /\ indexed' \subseteq Chunks
  BY <1>1, <1>2, FS_Difference
<1>4. ASSUME NEW word \in Words
      PROVE  /\ df'[word] \in Nat
             /\ df'[word] >= Count(indexed', word)
             /\ df[word] = Count(indexed, word) => df'[word] = Count(indexed', word)
  <2>1. Count(indexed, word) = Count(indexed', word) + Count(chunks \cap indexed, word)
    BY <1>1, <1>2, CountDifference
  <2>2. IsFiniteSet(chunks \cap indexed)
    BY <1>1, FS_Intersection
  <2>3. Count(indexed', word) \in Nat /\ Count(chunks \cap indexed, word) \in Nat
    BY <1>3, <2>2, CountType
  <2>4. /\ df[word] \in Nat /\ df[word] >= Count(indexed, word)
        /\ df'[word] = df[word] - Count(chunks \cap indexed, word)
    BY <1>2 DEF Covers
  <2> QED
    BY <2>1, <2>3, <2>4
<1>5. df' \in [Words -> Nat]
  <2>1. df' = [word \in Words |-> df'[word]]
    BY <1>2
  <2> QED
    BY <1>4, <2>1
<1> QED
  BY <1>3, <1>4, <1>5 DEF Covers, Exact

\* A rebuild counts from nothing.
LEMMA RebuildKeeps ==
  ASSUME NEW chunks, IsFiniteSet(chunks), chunks \subseteq Chunks, Rebuild(chunks)
  PROVE  Covers(indexed', df') /\ Exact(indexed', df') /\ indexed' = chunks
<1>1. indexed' = chunks /\ df' = [word \in Words |-> Count(chunks, word)]
  BY DEF Rebuild
<1>2. \A word \in Words : Count(chunks, word) \in Nat
  BY CountType
<1> QED
  BY <1>1, <1>2 DEF Covers, Exact

\* The documents a request indexes.
LEMMA RequestPicks ==
  ASSUME NEW f \in Files
  PROVE  Picks(f.docs, WellFormed(f.docs)) /\ Picks(f.docs, Fresh(f.docs))
<1>1. f.docs \in Seq(Docs \cup {Malformed})
  BY KnowledgeAssumption
<1>2. WellFormed(f.docs) \in SUBSET (1 .. Len(f.docs)) /\ Len(f.docs) \in Nat
  BY <1>1 DEF WellFormed
<1>3. Fresh(f.docs) \in SUBSET WellFormed(f.docs)
  BY DEF Fresh
<1>4. IsFiniteSet(1 .. Len(f.docs))
  <2>1. 1 \in Int /\ Len(f.docs) \in Int
    BY <1>2
  <2> QED
    BY <2>1, FS_Interval
<1>5. IsFiniteSet(WellFormed(f.docs)) /\ IsFiniteSet(Fresh(f.docs))
  BY <1>2, <1>3, <1>4, FS_Subset
<1>6. WellFormed(f.docs) \in SUBSET Nat
  BY <1>2
<1> QED
  BY <1>3, <1>5, <1>6, PickedAreDocs DEF Picks

\* The documents that are there from the start.
LEMMA DefaultPicks == Picks(DefaultDocs, DOMAIN DefaultDocs)
<1>1. DefaultDocs \in Seq(Docs)
  BY KnowledgeAssumption
<1>2. DOMAIN DefaultDocs = 1 .. Len(DefaultDocs) /\ Len(DefaultDocs) \in Nat
  BY <1>1
<1>3. IsFiniteSet(DOMAIN DefaultDocs)
  <2>1. 1 \in Int /\ Len(DefaultDocs) \in Int
    BY <1>2
  <2> QED
    BY <1>2, <2>1, FS_Interval
<1>4. DOMAIN DefaultDocs \in SUBSET Nat
  BY <1>2
<1> QED
  BY <1>3, <1>4, DefaultsAreDocs DEF Picks

-----------------------------------------------------------------------------
(***************************************************************************)
(* The counts through the requests                                         *)
(***************************************************************************)

\* The collection stays a finite set of chunks.
LEMMA CollectionGrows ==
  ASSUME CountsInv, NEW docs, NEW picked, Picks(docs, picked),
         collection' \in {collection, collection \cup All(docs, picked)}
  PROVE  collection' \subseteq Chunks /\ IsFiniteSet(collection')
BY AllFinite, FS_Union DEF CountsInv

\* An import of what is not stored yet keeps the counts exact.
LEMMA ImportsKeep ==
  ASSUME CountsInv, NEW f \in Files, Imports(f.docs, Fresh(f.docs)), UNCHANGED broken
  PROVE  /\ Covers(indexed', df') /\ collection' \subseteq Chunks /\ IsFiniteSet(collection')
         /\ ~ broken' => indexed' = collection' /\ Exact(indexed', df')
<1>1. /\ Index(f.docs, Fresh(f.docs)) /\ ~ Repeats(f.docs, Fresh(f.docs))
      /\ collection' = collection \cup All(f.docs, Fresh(f.docs))
      /\ indexed' = indexed \cup All(f.docs, Fresh(f.docs))
  BY DEF Imports, Index
<1>2. Picks(f.docs, Fresh(f.docs))
  BY RequestPicks
<1>3. collection \cap All(f.docs, Fresh(f.docs)) = {}
  BY DEF All, Fresh, Stored
<1>4. /\ Covers(indexed', df')
      /\ /\ Exact(indexed, df) /\ indexed \cap All(f.docs, Fresh(f.docs)) = {}
         => Exact(indexed', df')
  BY <1>1, <1>2, IndexKeeps DEF CountsInv
<1>5. collection' \subseteq Chunks /\ IsFiniteSet(collection')
  BY <1>1, <1>2, CollectionGrows
<1> QED
  BY <1>1, <1>3, <1>4, <1>5 DEF CountsInv

\* A failed or a blind import may count twice, and never too little.
LEMMA BrokenImportKeeps ==
  ASSUME CountsInv, NEW f \in Files, ImportsBlind(f.docs) \/ ImportRaises(f.docs)
  PROVE  /\ Covers(indexed', df') /\ collection' \subseteq Chunks /\ IsFiniteSet(collection')
         /\ broken' = TRUE /\ Fails
<1>1. PICK picked : /\ Picks(f.docs, picked) /\ Index(f.docs, picked)
                    /\ collection' \in {collection, collection \cup All(f.docs, picked)}
  <2>1. CASE ImportsBlind(f.docs)
    <3>1. DOMAIN f.docs = WellFormed(f.docs)
      BY <2>1 DEF ImportsBlind, Imports
    <3> QED
      BY <2>1, <3>1, RequestPicks DEF ImportsBlind, Imports
  <2>2. CASE ImportRaises(f.docs)
    <3>1. PICK tried \in {WellFormed(f.docs), Fresh(f.docs)} :
            /\ Index(f.docs, tried)
            /\ collection' \in {collection, collection \cup All(f.docs, tried)}
      BY <2>2 DEF ImportRaises
    <3> QED
      BY <3>1, RequestPicks
  <2> QED
    BY <2>1, <2>2
<1>2. Covers(indexed', df')
  BY <1>1, IndexKeeps DEF CountsInv
<1>3. collection' \subseteq Chunks /\ IsFiniteSet(collection')
  BY <1>1, CollectionGrows
<1> QED
  BY <1>2, <1>3 DEF ImportsBlind, ImportRaises

\* A failure is counted.
LEMMA FailuresKeep ==
  ASSUME CountsInv, Fails \/ UNCHANGED failures
  PROVE  failures' \in 0 .. MaxFailures
BY KnowledgeAssumption DEF CountsInv, Fails

\* An addition, through either endpoint.
LEMMA AddCounts ==
  ASSUME CountsInv, NEW f \in Files, AddKnowledge(f) \/ Upload(f)
  PROVE  CountsInv'
<1>1. dedup' \subseteq Keys /\ UNCHANGED outdated
  BY DEF CountsInv, AddKnowledge, Upload, Keys
<1>2. CASE Imports(f.docs, Fresh(f.docs)) /\ UNCHANGED broken /\ (Fails \/ UNCHANGED failures)
  BY <1>1, <1>2, ImportsKeep, FailuresKeep DEF CountsInv
<1>3. CASE ImportsBlind(f.docs) \/ ImportRaises(f.docs)
  BY <1>1, <1>3, BrokenImportKeeps, FailuresKeep DEF CountsInv
<1> QED
  BY <1>2, <1>3 DEF AddKnowledge, Upload

\* What the keys and failures become when chunks are deleted.
LEMMA DropTypes ==
  ASSUME CountsInv, KeysDropped
  PROVE  dedup' \subseteq Keys /\ outdated' \in BOOLEAN /\ failures' \in 0 .. MaxFailures
<1>1. Fails \/ UNCHANGED failures
  BY DEF KeysDropped
<1> QED
  BY <1>1, FailuresKeep DEF CountsInv, KeysDropped

\* Chunks that are deleted, from the collection and then from the index.
LEMMA DropCounts ==
  ASSUME CountsInv, NEW chunks, Drop(chunks)
  PROVE  CountsInv'
<1>1. collection' = collection \ chunks
  BY DEF Drop
<1>2. collection' \subseteq Chunks /\ IsFiniteSet(collection')
  BY <1>1, FS_Difference DEF CountsInv
<1>3. CASE RemoveChunks(chunks) /\ KeysDropped /\ UNCHANGED broken
  <2>1. Covers(indexed', df') /\ (Exact(indexed, df) => Exact(indexed', df'))
    BY <1>3, RemoveKeeps DEF CountsInv
  <2>2. indexed' = indexed \ chunks
    BY <1>3 DEF RemoveChunks
  <2> QED
    BY <1>1, <1>2, <1>3, <2>1, <2>2, DropTypes DEF CountsInv
<1>4. CASE broken' = TRUE /\ outdated' = (dedup # {}) /\ Fails /\ UNCHANGED <<indexed, df, dedup>>
  BY <1>2, <1>4, FailuresKeep DEF CountsInv
<1> QED
  BY <1>3, <1>4 DEF Drop

\* A clear empties both, or breaks off.
LEMMA ClearCounts ==
  ASSUME CountsInv, Clear
  PROVE  CountsInv'
<1>1. CASE collection = {}
  <2>1. KeysDropped /\ UNCHANGED <<collection, indexed, df, broken>>
    BY <1>1 DEF Clear
  <2> QED
    BY <2>1, DropTypes DEF CountsInv
<1>2. CASE collection # {}
  BY <1>2, DropCounts DEF Clear
<1> QED
  BY <1>1, <1>2

\* A start counts anew and may add the default documents.
LEMMA RestartCounts ==
  ASSUME CountsInv, Restart
  PROVE  CountsInv'
<1>1. CASE /\ Rebuild(collection) /\ broken' = FALSE
           /\ UNCHANGED <<collection, dedup, outdated, failures>>
  <2>1. Covers(indexed', df') /\ Exact(indexed', df') /\ indexed' = collection
    BY <1>1, RebuildKeeps DEF CountsInv
  <2> QED
    BY <1>1, <2>1 DEF CountsInv
<1>2. CASE /\ \/ UNCHANGED <<outdated, failures>>
              \/ Fails /\ outdated' = (dedup # {})
           /\ collection' = All(DefaultDocs, DOMAIN DefaultDocs)
           /\ Rebuild(All(DefaultDocs, DOMAIN DefaultDocs))
           /\ broken' = FALSE
           /\ UNCHANGED dedup
  <2>1. /\ IsFiniteSet(All(DefaultDocs, DOMAIN DefaultDocs))
        /\ All(DefaultDocs, DOMAIN DefaultDocs) \subseteq Chunks
    BY DefaultPicks, AllFinite
  <2>2. Covers(indexed', df') /\ Exact(indexed', df') /\ indexed' = collection'
    BY <1>2, <2>1, RebuildKeeps
  <2>3. failures' \in 0 .. MaxFailures
    BY <1>2, FailuresKeep
  <2> QED
    BY <1>2, <2>1, <2>2, <2>3 DEF CountsInv
<1> QED
  BY <1>1, <1>2 DEF Restart

\* The first start counts what is stored.
LEMMA StartCounts == ASSUME KbInit PROVE CountsInv
<1>1. IsFiniteSet(collection) /\ collection \subseteq Chunks
  BY DefaultPicks, AllFinite DEF KbInit
<1>2. \A word \in Words : Count(collection, word) \in Nat
  BY <1>1, CountType
<1>3. Covers(indexed, df) /\ Exact(indexed, df)
  BY <1>1, <1>2 DEF KbInit, Covers, Exact
<1>4. dedup \subseteq Keys /\ indexed = collection /\ broken \in BOOLEAN /\ outdated \in BOOLEAN
  BY DEF KbInit
<1>5. failures \in 0 .. MaxFailures
  BY KnowledgeAssumption DEF KbInit
<1> QED
  BY <1>1, <1>3, <1>4, <1>5 DEF CountsInv

\* CountsInv is inductive.
LEMMA StepCounts == ASSUME CountsInv, KbNext \/ UNCHANGED kbVars PROVE CountsInv'
<1>1. ASSUME NEW f \in Files, AddKnowledge(f) \/ Upload(f) PROVE CountsInv'
  BY <1>1, AddCounts
<1>2. ASSUME NEW d \in Docs, Delete(d) PROVE CountsInv'
  BY <1>2, DropCounts DEF Delete
<1>3. CASE Clear
  BY <1>3, ClearCounts
<1>4. CASE Restart
  BY <1>4, RestartCounts
<1>5. CASE UNCHANGED kbVars
  BY <1>5 DEF kbVars, CountsInv
<1> QED
  BY <1>1, <1>2, <1>3, <1>4, <1>5 DEF KbNext, KbRequest

\* The invariant of the counts.
THEOREM CountsInvariant == KbSpec => []CountsInv
BY StartCounts, StepCounts, PTL DEF KbSpec

\* Every variable keeps its type, and whatever fails no word is counted less
\* often than it occurs in the index (knowledge_base.py:113-114, 139-143).
THEOREM KnowledgeTypes == KbSpec => []KbTypeOK
<1>1. CountsInv => KbTypeOK
  BY DEF CountsInv, Covers, KbTypeOK
<1> QED
  BY <1>1, CountsInvariant, PTL

\* Without a failure since the start, a word finds the stored chunks that
\* contain it and no others, through any sequence of requests and restarts.
THEOREM SearchIsExact == KbSpec => []KeywordSearchIsExact
<1>1. CountsInv => KeywordSearchIsExact
  <2> SUFFICES ASSUME CountsInv, ~ broken, NEW word \in Words
               PROVE  KeywordHits(word) = {c \in collection : Has(c, word)}
    BY DEF KeywordSearchIsExact
  <2>1. indexed = collection /\ df[word] = Count(indexed, word) /\ IsFiniteSet(indexed)
    BY DEF CountsInv, Exact
  <2>2. df[word] <= Cardinality(indexed)
    BY <2>1, CountType
  <2> QED
    BY <2>1, <2>2 DEF KeywordHits
<1> QED
  BY <1>1, CountsInvariant, PTL
===============================================================================
