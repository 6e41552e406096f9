----------------------------- MODULE KnowledgeBase -----------------------------
(***************************************************************************)
(* The knowledge base (mcp/knowledge_base.py): chunks in a ChromaDB        *)
(* collection and in a BM25 index held in memory, and the endpoints that   *)
(* write them together with the Redis set of uploaded files (api/main.py). *)
(*                                                                         *)
(* A document is a sequence of chunks, a chunk is the set of words BM25    *)
(* tells apart (the cutting is left out).  A file is the documents that   *)
(* parsing it yields and the key made of its name, its length and its      *)
(* first 500 bytes.  Nothing here awaits after the file was read, so a     *)
(* request is one step; what can come between its calls are errors.        *)
(***************************************************************************)
EXTENDS Naturals, Sequences, FiniteSets

CONSTANTS
  WordsOf,      \* document -> its chunks, each a set of words
  Words,        \* the words of the chunks
  Files,        \* files: records [key, docs]
  DefaultDocs,  \* _load_default_docs: a sequence of documents
  Malformed,    \* an element of a JSON file that is no {title, content} object
  MaxFailures   \* BOUND: requests that fail half-way

Docs == DOMAIN WordsOf
ChunksOf(d) == {<<d, i>> : i \in DOMAIN WordsOf[d]}
Chunks == UNION {ChunksOf(d) : d \in Docs}
Has(c, word) == word \in WordsOf[c[1]][c[2]]

ASSUME KnowledgeAssumption ==
  /\ \A d \in Docs : WordsOf[d] \in Seq(SUBSET Words)
  /\ \A f \in Files : f.docs \in Seq(Docs \cup {Malformed})
  /\ DefaultDocs \in Seq(Docs)
  /\ Malformed \notin Docs
  /\ MaxFailures \in Nat

Keys == {f.key : f \in Files}

VARIABLES
  collection,  \* chunks in ChromaDB
  indexed,     \* chunks in BM25Index._docs and _tokens
  df,          \* BM25Index._df: word -> number
  dedup,       \* the Redis set of file keys
  broken,      \* history: a request failed half-way since the process started
  outdated,    \* history: the set of keys survived a deletion of chunks
  failures     \* requests that failed half-way

kbVars == <<collection, indexed, df, dedup, broken, outdated, failures>>

\* Chunks of a set that contain a word.
Count(chunks, word) == Cardinality({c \in chunks : Has(c, word)})

\* Every variable keeps its type, and _df is never below the number of
\* indexed chunks that contain the word, whatever fails: a chunk indexed twice
\* is counted twice and removed once (knowledge_base.py:113-114, 139-143).
KbTypeOK ==
  /\ collection \subseteq Chunks
  /\ indexed \subseteq Chunks
  /\ df \in [Words -> Nat]
  /\ \A word \in Words : df[word] >= Count(indexed, word)
  /\ dedup \subseteq Keys
  /\ broken \in BOOLEAN
  /\ outdated \in BOOLEAN
  /\ failures \in 0 .. MaxFailures

\* The chunks of some documents of a sequence, given by their positions.
All(docs, picked) == UNION {ChunksOf(docs[i]) : i \in picked}

\* How often indexing them meets a chunk with the word: once for every position
\* of its document.
Counted(docs, picked, word) ==
  Cardinality({p \in picked \X All(docs, picked) :
                 p[2] \in ChunksOf(docs[p[1]]) /\ Has(p[2], word)})

\* An index that counts a word only the first time it meets it.
IndexFirstOnly(docs, picked) ==
  /\ indexed' = indexed \cup All(docs, picked)
  /\ df' = [word \in Words |->
             IF df[word] > 0 THEN df[word] ELSE Count(All(docs, picked), word)]

\* BM25Index.index of every chunk of the documents, in order: a chunk that is
\* there already raises _df again.
Index(docs, picked) ==
  /\ indexed' = indexed \cup All(docs, picked)
  /\ df' = [word \in Words |-> df[word] + Counted(docs, picked, word)]

\* BM25Index.remove of chunks: unknown ones are passed over.
RemoveChunks(chunks) ==
  /\ indexed' = indexed \ chunks
  /\ df' = [word \in Words |-> df[word] - Count(chunks \cap indexed, word)]

\* BM25Index.rebuild.
Rebuild(chunks) ==
  /\ indexed' = chunks
  /\ df' = [word \in Words |-> Count(chunks, word)]

\* KnowledgeBase.__init__ over an empty collection and a fresh Redis.
KbInit ==
  /\ collection = All(DefaultDocs, DOMAIN DefaultDocs)
  /\ indexed = collection
  /\ df = [word \in Words |-> Count(collection, word)]
  /\ dedup = {}
  /\ broken = FALSE
  /\ outdated = FALSE
  /\ failures = 0

Fails == failures < MaxFailures /\ failures' = failures + 1

Stored(d) == ChunksOf(d) \cap collection # {}
Repeats(docs, picked) ==
  \E i, j \in picked : i < j /\ docs[i] = docs[j] /\ ChunksOf(docs[i]) # {}

\* The documents before the first malformed one.
WellFormed(docs) ==
  {i \in DOMAIN docs : \A j \in 1 .. i : docs[j] # Malformed}

\* add_documents: of these, the documents it does not find in the collection.
Fresh(docs) == {i \in WellFormed(docs) : ~ Stored(docs[i])}

\* add_documents returns; added is what it imported.  ChromaDB leaves the
\* chunks it has as they are.
Imports(docs, added) ==
  /\ WellFormed(docs) = DOMAIN docs
  /\ ~ Repeats(docs, added)
  /\ Index(docs, added)
  /\ collection' = collection \cup All(docs, added)

\* The lookup of a stored document fails and the document is imported again:
\* its chunks are counted twice.
ImportsBlind(docs) ==
  /\ Imports(docs, DOMAIN docs)
  /\ Fresh(docs) # DOMAIN docs
  /\ broken' = TRUE
  /\ Fails

\* add_documents raises after it has indexed: at a malformed document, at
\* collection.add because a chunk occurs twice, or because ChromaDB fails,
\* with or without having stored them.
ImportRaises(docs) ==
  /\ \E tried \in {WellFormed(docs), Fresh(docs)} :
       /\ Index(docs, tried)
       /\ IF WellFormed(docs) # DOMAIN docs \/ Repeats(docs, tried)
          THEN UNCHANGED collection
          ELSE collection' \in {collection, collection \cup All(docs, tried)}
  /\ broken' = TRUE
  /\ Fails

\* POST /knowledge/add.
AddKnowledge(f) ==
  /\ \/ Imports(f.docs, Fresh(f.docs)) /\ UNCHANGED <<broken, failures>>
     \/ ImportsBlind(f.docs)
     \/ ImportRaises(f.docs)
  /\ UNCHANGED <<dedup, outdated>>

\* POST /knowledge/upload of a file whose key is not in the set: a known one
\* is turned away.  The key is added when at least one chunk was imported,
\* unless Redis fails.
Upload(f) ==
  /\ f.key \notin dedup
  /\ \/ /\ Imports(f.docs, Fresh(f.docs))
        /\ IF All(f.docs, Fresh(f.docs)) = {}
           THEN UNCHANGED <<dedup, failures>>
           ELSE \/ dedup' = dedup \cup {f.key} /\ UNCHANGED failures
                \/ UNCHANGED dedup /\ Fails
        /\ UNCHANGED broken
     \/ ImportsBlind(f.docs) /\ dedup' = dedup \cup {f.key}
     \/ ImportRaises(f.docs) /\ UNCHANGED dedup
  /\ UNCHANGED outdated

\* A deletion that leaves the set of keys alone.
KeysKept == UNCHANGED <<dedup, outdated, failures>>

\* After a deletion the whole set of keys goes, unless Redis fails.
KeysDropped ==
  \/ dedup' = {} /\ outdated' = FALSE /\ UNCHANGED failures
  \/ UNCHANGED dedup /\ outdated' = (dedup # {}) /\ Fails

\* A deletion that begins with the index.
DropIndexFirst(chunks) ==
  \/ /\ collection' = collection \ chunks
     /\ RemoveChunks(chunks)
     /\ KeysDropped
     /\ UNCHANGED broken
  \/ /\ RemoveChunks(chunks)
     /\ broken' = TRUE
     /\ Fails
     /\ UNCHANGED <<collection, dedup, outdated>>

\* Chunks are deleted from ChromaDB and then from the index; an error of
\* ChromaDB may come after it has deleted them.
Drop(chunks) ==
  \/ /\ collection' = collection \ chunks
     /\ RemoveChunks(chunks)
     /\ KeysDropped
     /\ UNCHANGED broken
  \/ /\ collection' = collection \ chunks
     /\ broken' = TRUE
     /\ outdated' = (dedup # {})
     /\ Fails
     /\ UNCHANGED <<indexed, df, dedup>>

\* DELETE /knowledge/{doc_id}: 404 when ChromaDB has no chunk of it, also when
\* the index or the set of keys still knows it.
Delete(d) ==
  /\ Stored(d)
  /\ Drop(ChunksOf(d) \cap collection)

\* DELETE /knowledge: an empty collection leaves the index alone, and the set
\* of keys goes in either case.
Clear ==
  IF collection = {}
  THEN KeysDropped /\ UNCHANGED <<collection, indexed, df, broken>>
  ELSE Drop(collection)

\* A start that keeps the index it would have to rebuild.
RestartNoRebuild ==
  /\ broken' = FALSE
  /\ UNCHANGED <<collection, indexed, df, dedup, outdated, failures>>

\* KnowledgeBase.__init__ at a start: the index is rebuilt from the collection,
\* and an empty collection gets the default documents.  When ChromaDB reports
\* a conflict of embedding functions the collection is deleted first; the set
\* of keys is not.
Restart ==
  \/ /\ collection # {}
     /\ Rebuild(collection)
     /\ broken' = FALSE
     /\ UNCHANGED <<collection, dedup, outdated, failures>>
  \/ /\ \/ collection = {} /\ UNCHANGED <<outdated, failures>>
        \/ Fails /\ outdated' = (dedup # {})
     /\ collection' = All(DefaultDocs, DOMAIN DefaultDocs)
     /\ Rebuild(All(DefaultDocs, DOMAIN DefaultDocs))
     /\ broken' = FALSE
     /\ UNCHANGED dedup

KbRequest ==
  \/ \E f \in Files : AddKnowledge(f) \/ Upload(f)
  \/ \E d \in Docs : Delete(d)
  \/ Clear

KbNext == KbRequest \/ Restart

KbSpec == KbInit /\ [][KbNext]_kbVars

\* BM25Index.search for one word: the chunks with a positive score.  The
\* inverse document frequency is log((N + 1) / (df + 0.5)), which is not
\* positive once the word was counted more often than there are chunks.
KeywordHits(word) ==
  {c \in indexed : Has(c, word) /\ df[word] <= Cardinality(indexed)}

\* _bm25_lookup gives a chunk that ChromaDB does not have from the index;
\* search_hybrid finds nothing in an empty collection.
Findable(word) ==
  IF collection = {} THEN {} ELSE collection \cup KeywordHits(word)

\* Whatever fails, a chunk that ChromaDB serves can be found by its words as
\* far as the index is concerned: it is indexed before it is stored and
\* removed after it was deleted (knowledge_base.py:361-375, 417-419).
StoredIsIndexed == collection \subseteq indexed

\* As long as no request failed half-way since the start, a word finds exactly
\* the stored chunks that contain it, through any sequence of additions,
\* repeated additions, deletions and restarts (knowledge_base.py:105-147,
\* 294-306, 375, 417-419).
KeywordSearchIsExact ==
  ~ broken => \A word \in Words :
    KeywordHits(word) = {c \in collection : Has(c, word)}

\* A file is turned away as known only if all documents of it, or of a file
\* with the same key, are stored; the exception is a set of keys that survived
\* a deletion because a call failed (main.py:731, 752, 907-909, 918).
KnownFileIsStored ==
  ~ outdated => \A key \in dedup :
    \E f \in Files :
      f.key = key /\ All(f.docs, DOMAIN f.docs) \subseteq collection
================================================================================
