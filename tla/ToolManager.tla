------------------------------ MODULE ToolManager ------------------------------
(***************************************************************************)
(* MCPToolManager.call for the one tool that is registered,                *)
(* knowledge_search (mcp/tool_manager.py, agents/tool_layer.py): result    *)
(* cache, circuit breaker, parameter check and fallback.                   *)
(*                                                                         *)
(* The tool's handler never suspends, and asyncio.wait_for awaits it       *)
(* within the calling task (Python 3.12, as in the Dockerfile), so a call  *)
(* is one step.  Statistics are left out.  What a call answers is a set of *)
(* chunks, or the one item of knowledge_fallback, which has no id but      *)
(* quotes the query it stands for, and is named by it here.                *)
(***************************************************************************)
EXTENDS Naturals, Sequences, FiniteSets, SequencesExt

CONSTANTS
  Queries,    \* BOUND: sub-queries that are strings
  OddQuery,   \* BOUND: the one sub-query that is no string
  CacheTtl,   \* cache_ttl of the tool (300 s)
  CacheMax,   \* entries at which the cache is thinned out (5000)
  Evicted,    \* oldest entries dropped then (1250)
  Threshold,  \* failure_threshold (5)
  Recovery    \* recovery_s (60 s)

ASSUME ToolAssumption ==
  /\ CacheTtl \in Nat \ {0} /\ CacheMax \in Nat /\ Recovery \in Nat
  /\ Evicted \in 1 .. CacheMax
  /\ Threshold \in Nat \ {0}

VARIABLES
  clock,     \* time.monotonic
  cache,     \* _cache in the order of insertion: [query, data, until]
  state,     \* CircuitBreaker.state
  fails,     \* CircuitBreaker.fail_count
  openedAt   \* CircuitBreaker.opened_at

toolVars == <<clock, cache, state, fails, openedAt>>
breakerVars == <<state, fails, openedAt>>

\* The process has been up for longer than an entry lives.
ToolInit ==
  /\ clock = CacheTtl
  /\ cache = <<>>
  /\ state = "closed"
  /\ fails = 0
  /\ openedAt = 0

ToolTypeOK(Data) ==
  /\ clock \in Nat
  /\ \A i \in DOMAIN cache :
       cache[i] \in [query : Queries, data : Data, until : Nat]
  /\ \A i, j \in DOMAIN cache : cache[i].query = cache[j].query => i = j
  /\ Len(cache) <= CacheMax
  /\ state \in {"closed", "open", "half_open"}
  /\ fails \in Nat
  /\ openedAt \in 0 .. clock

\* del self._cache[key]: the entry of a query, if there is one.
Without(q) ==
  IF \E i \in DOMAIN cache : cache[i].query = q
  THEN RemoveAt(cache, CHOOSE i \in DOMAIN cache : cache[i].query = q)
  ELSE cache

\* A cache that never looks at the age of an entry.
LiveForever(q) == {i \in DOMAIN cache : cache[i].query = q}

\* _get_cache: the entry of a query that has not expired.
Live(q) == {i \in DOMAIN cache : cache[i].query = q /\ clock < cache[i].until}

\* A full cache to which the entry is added all the same.
ThinnedOutLate(entries) ==
  IF Len(entries) > CacheMax
  THEN SubSeq(entries, Evicted + 1, Len(entries)) ELSE entries

\* _set_cache: the oldest entries go when the cache is full.
ThinnedOut(entries) ==
  IF Len(entries) >= CacheMax
  THEN SubSeq(entries, Evicted + 1, Len(entries)) ELSE entries

\* allow(): the state in which the call goes on.
Allowed == state # "open" \/ clock - openedAt >= Recovery
AfterAllow == IF state = "open" THEN "half_open" ELSE state

\* A breaker that begins to count anew when it lets a probe through.
RecordFailureFresh ==
  LET count == IF AfterAllow = "half_open" THEN 1 ELSE fails + 1 IN
  /\ fails' = count
  /\ state' = IF count >= Threshold THEN "open" ELSE AfterAllow
  /\ openedAt' = IF count >= Threshold THEN clock ELSE openedAt

\* record_failure.
RecordFailure ==
  /\ fails' = fails + 1
  /\ state' = IF fails + 1 >= Threshold THEN "open" ELSE AfterAllow
  /\ openedAt' = IF fails + 1 >= Threshold THEN clock ELSE openedAt

\* record_success.
RecordSuccess == state' = "closed" /\ fails' = 0 /\ UNCHANGED openedAt

\* call: the answer comes from the cache.
CallHit(q, data) ==
  /\ \E i \in Live(q) : data = cache[i].data
  /\ UNCHANGED toolVars

\* A refused or failed call without the fallback.
NoFallback(q, data) == data = {}

\* _fallback_result, which calls knowledge_fallback.
FallbackResult(q, data) == data = {q}

\* call: the breaker is open.  An expired entry has been deleted.
CallRefused(q, data) ==
  /\ Live(q) = {}
  /\ ~ Allowed
  /\ cache' = Without(q)
  /\ FallbackResult(q, data)
  /\ UNCHANGED <<clock, breakerVars>>

\* call: the handler returned, and its result is cached.
CallSucceeds(q, data) ==
  /\ Live(q) = {}
  /\ Allowed
  /\ RecordSuccess
  /\ cache' = Append(ThinnedOut(Without(q)),
                     [query |-> q, data |-> data, until |-> clock + CacheTtl])
  /\ UNCHANGED clock

\* call: the handler raised.
CallFails(q, data) ==
  /\ Live(q) = {}
  /\ Allowed
  /\ RecordFailure
  /\ cache' = Without(q)
  /\ FallbackResult(q, data)
  /\ UNCHANGED clock

\* call with a query that is no string: it is refused by the breaker or by
\* _validate_params, and the latter counts as a failure of the tool.
CallInvalid(data) ==
  /\ IF Allowed THEN RecordFailure ELSE UNCHANGED breakerVars
  /\ FallbackResult(OddQuery, data)
  /\ UNCHANGED <<clock, cache>>

\* Between two calls the breaker never stays half open: the call that is let
\* through as a probe closes it or, because the count of failures was not
\* reset, opens it again, whatever made it fail (tool_manager.py:84-103).
BreakerSettles ==
  /\ state # "half_open"
  /\ state = "open" <=> fails >= Threshold
================================================================================
