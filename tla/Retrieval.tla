------------------------------- MODULE Retrieval -------------------------------
(***************************************************************************)
(* A knowledge search of the chat (agents/tool_layer.py exec_rag,          *)
(* mcp/tool_manager.py search_with_rewrite) against a knowledge base that  *)
(* changes: the query is rewritten by the LLM, each sub-query is a call of *)
(* the tool, the results are merged and ranked by the LLM.                 *)
(***************************************************************************)
EXTENDS KnowledgeBase, ToolManager

CONSTANTS
  Searches,    \* searches in progress
  WordOf,      \* query -> the word BM25 finds in it
  TopK,        \* results of a call and of a search (5)
  MaxRewrites, \* sub-queries the LLM adds (3)
  MaxClock     \* BOUND: time

\* A fallback item is marked as such, and no chunk is.
ASSUME RetrievalAssumption ==
  /\ TopK \in Nat \ {0}
  /\ MaxRewrites \in Nat
  /\ MaxClock \in Nat
  /\ IsFiniteSet(Chunks) /\ IsFiniteSet(Queries)
  /\ Chunks \cap (Queries \cup {OddQuery}) = {}

VARIABLES
  pc,       \* search -> "new", "rewriting", "calling", "ranking", "done"
  todo,     \* search -> sub-queries not yet called
  odd,      \* search -> the LLM also wrote a sub-query that is no string
  found,    \* search -> merged results
  shown,    \* search -> what exec_rag returned
  lastHad,  \* history: chunk -> when it could last be found
  emptyAt   \* history: when the collection was last empty

searchVars == <<pc, todo, odd, found, shown>>
history == <<lastHad, emptyAt>>
vars == <<kbVars, toolVars, searchVars, history>>

\* Chunks, and a fallback item for each sub-query.
Items == Chunks \cup Queries \cup {OddQuery}

\* Every variable keeps its type, a query is cached once and the cache stays
\* within its bound (tool_manager.py:376-381).
TypeOK ==
  /\ KbTypeOK
  /\ ToolTypeOK(SUBSET Chunks)
  /\ pc \in [Searches -> {"new", "rewriting", "calling", "ranking", "done"}]
  /\ todo \in [Searches -> SUBSET Queries]
  /\ odd \in [Searches -> BOOLEAN]
  /\ found \in [Searches -> SUBSET Items]
  /\ shown \in [Searches -> SUBSET Items]
  /\ lastHad \in [Chunks -> 0 .. clock]
  /\ emptyAt \in 0 .. clock

SearchInit ==
  /\ pc = [s \in Searches |-> "new"]
  /\ todo = [s \in Searches |-> {}]
  /\ odd = [s \in Searches |-> FALSE]
  /\ found = [s \in Searches |-> {}]
  /\ shown = [s \in Searches |-> {}]

Init ==
  /\ KbInit
  /\ ToolInit
  /\ SearchInit
  /\ lastHad = [c \in Chunks |-> 0]
  /\ emptyAt = 0

\* Chunks that some query may find.
Servable == IF collection = {} THEN {} ELSE collection \cup indexed

Remember ==
  /\ lastHad' = [c \in Chunks |->
                  IF c \in Servable \cup Servable' THEN clock ELSE lastHad[c]]
  /\ emptyAt' = IF collection = {} \/ collection' = {} THEN clock ELSE emptyAt

\* At most k of the items: all of them when they are that few.
Best(items, k) ==
  IF Cardinality(items) <= k THEN {items} ELSE kSubset(k, items)

\* search_hybrid: the best of what vector search and BM25 find.
SearchHybrid(q) == Best(Findable(WordOf[q]), TopK)

\* exec_rag and search_with_rewrite up to the await of the LLM; a task that is
\* done goes on to the next search.
Start(s) ==
  /\ pc[s] \in {"new", "done"}
  /\ \E q \in Queries : todo' = [todo EXCEPT ![s] = {q}]
  /\ pc' = [pc EXCEPT ![s] = "rewriting"]
  /\ found' = [found EXCEPT ![s] = {}]
  /\ shown' = [shown EXCEPT ![s] = {}]
  /\ UNCHANGED odd

\* rewrite_query: sub-queries are added to the query; a failure adds none.
Rewrite(s) ==
  /\ pc[s] = "rewriting"
  /\ \E more \in SUBSET Queries :
       /\ Cardinality(more) <= MaxRewrites
       /\ todo' = [todo EXCEPT ![s] = @ \cup more]
  /\ odd' \in {odd, [odd EXCEPT ![s] = TRUE]}
  /\ pc' = [pc EXCEPT ![s] = "calling"]
  /\ UNCHANGED <<found, shown>>

\* search_with_rewrite: one of the gathered calls, and the merge of its items.
Recall(s, q) ==
  /\ pc[s] = "calling"
  /\ q \in todo[s]
  /\ \E data \in SUBSET Items :
       /\ \/ CallHit(q, data)
          \/ CallRefused(q, data)
          \/ data \in SearchHybrid(q) /\ CallSucceeds(q, data)
          \/ CallFails(q, data)
       /\ found' = [found EXCEPT ![s] = @ \cup data]
  /\ todo' = [todo EXCEPT ![s] = @ \ {q}]
  /\ UNCHANGED <<pc, odd, shown>>

RecallOdd(s) ==
  /\ pc[s] = "calling"
  /\ odd[s]
  /\ odd' = [odd EXCEPT ![s] = FALSE]
  /\ \E data \in SUBSET Items :
       CallInvalid(data) /\ found' = [found EXCEPT ![s] = @ \cup data]
  /\ UNCHANGED <<pc, todo, shown>>

\* A merge that goes on only with results.
MergeSomething(s) ==
  /\ pc[s] = "calling"
  /\ todo[s] = {} /\ ~ odd[s]
  /\ found[s] # {}
  /\ shown' = [shown EXCEPT ![s] = found[s]]
  /\ pc' = [pc EXCEPT ![s] = "done"]
  /\ UNCHANGED <<todo, odd, found>>

\* search_with_rewrite after the calls: without a result it returns, and
\* _rerank leaves results that are few enough as they are.
Merge(s) ==
  /\ pc[s] = "calling"
  /\ todo[s] = {} /\ ~ odd[s]
  /\ IF Cardinality(found[s]) <= TopK
     THEN /\ shown' = [shown EXCEPT ![s] = found[s]]
          /\ pc' = [pc EXCEPT ![s] = "done"]
     ELSE /\ pc' = [pc EXCEPT ![s] = "ranking"]
          /\ UNCHANGED shown
  /\ UNCHANGED <<todo, odd, found>>

\* _rerank: the LLM names the items it ranks, which may be fewer, even none;
\* without a usable answer the first ones are taken.
Rerank(s) ==
  /\ pc[s] = "ranking"
  /\ \E ranked \in SUBSET found[s] :
       /\ Cardinality(ranked) <= TopK
       /\ shown' = [shown EXCEPT ![s] = ranked]
  /\ pc' = [pc EXCEPT ![s] = "done"]
  /\ UNCHANGED <<todo, odd, found>>

Waits(s) == Start(s) \/ Rewrite(s) \/ Merge(s) \/ Rerank(s)
Calls(s) == (\E q \in Queries : Recall(s, q)) \/ RecallOdd(s)

SearchStep(s) ==
  \/ Waits(s) /\ UNCHANGED <<kbVars, toolVars, history>>
  \/ Calls(s) /\ UNCHANGED <<kbVars, history>>

\* The knowledge base is changed by the other endpoints.
Change == KbRequest /\ Remember /\ UNCHANGED <<toolVars, searchVars>>

\* The process starts again: cache, breaker and searches are gone.
ProcessRestart ==
  /\ Restart
  /\ Remember
  /\ cache' = <<>>
  /\ state' = "closed" /\ fails' = 0 /\ openedAt' = 0
  /\ pc' = [s \in Searches |-> "new"]
  /\ todo' = [s \in Searches |-> {}]
  /\ odd' = [s \in Searches |-> FALSE]
  /\ found' = [s \in Searches |-> {}]
  /\ shown' = [s \in Searches |-> {}]
  /\ UNCHANGED clock

\* Time passes while searches await the LLM.  The calls of one search and the
\* merge of their results follow each other without an await.
Tick ==
  /\ clock < MaxClock
  /\ \A s \in Searches : pc[s] # "calling"
  /\ clock' = clock + 1
  /\ UNCHANGED <<kbVars, cache, breakerVars, searchVars>>
  /\ Remember

Next ==
  \/ \E s \in Searches : SearchStep(s)
  \/ Change
  \/ ProcessRestart
  \/ Tick

\* The event loop runs the searches, and the LLM answers or fails.
Spec == Init /\ [][Next]_vars /\ \A s \in Searches : WF_vars(SearchStep(s))

\* A search serves a chunk of a deleted document for less than the time to
\* live of the cache: nothing invalidates the cache when the knowledge base
\* changes, only age does (tool_manager.py:170-176, 367-381, main.py:904, 917).
StaleAtMostTtl ==
  [][ \A s \in Searches : \A c \in Chunks :
        c \in found'[s] \ found[s] =>
          c \in Servable \/ clock - lastHad[c] < CacheTtl ]_vars

\* A search that ends with nothing means that the knowledge base was empty
\* within the time to live of the cache, or that the LLM ranked none of more
\* than top_k results; never that the knowledge base could not be searched
\* (tool_manager.py:178-181, 210-222, 317-318, 333, 356; knowledge_base.py:518).
NothingMeansNothing ==
  [][ \A s \in Searches :
        pc[s] # "done" /\ pc'[s] = "done" /\ shown'[s] = {} =>
          \/ collection = {}
          \/ Cardinality(found[s]) > TopK
          \/ clock - emptyAt < CacheTtl ]_vars

\* Every search comes to its end (tool_manager.py:293-322).
EverySearchEnds ==
  \A s \in Searches : pc[s] = "rewriting" ~> pc[s] \in {"done", "new"}
================================================================================
