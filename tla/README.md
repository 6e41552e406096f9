# Formal models of EchoMind

TLA+ models of the program in `src/`: a chat assistant (FastAPI, one asyncio
process) that answers from a knowledge base, keeps a memory of each
conversation and hands out a limited number of test-drive coupons. The coupon
subsystem, whose state spans four places (Redis, MySQL, RabbitMQ and the memory
of running handlers), is modelled in most detail. The path of a chat message is
modelled in five parts, each an instance of its own: from the request to the
worker and back, the memory of the conversation, the knowledge base, the search
in it, and the turn with its planner, slots, skills and coupon decision.

## The system

### Components, their state and how they interact

| component | source | state it keeps | modelled |
|---|---|---|---|
| coupon claim | `agents/coupon_manager.py`, `agents/coupon_db.py`, `api/main.py` | Redis stock, a key per user; MySQL order and outbox row | `CouponClaim` |
| coupon lead | `api/main.py` (`coupon_lead`), `agents/coupon_db.py` | MySQL lead, order status; Redis lead mark | `CouponLead` |
| outbox scanner | `agents/outbox_scanner.py` | outbox status and retry count; the batch in memory | `CouponOutbox` |
| timeout worker, RabbitMQ client | `agents/coupon_worker.py`, `agents/rmq_client.py` | queues, unacknowledged deliveries, one handler per message | `CouponWorker` |
| reconciliation | `agents/coupon_reconcile.py` | snapshot of stuck orders, in a process of its own | `CouponReconcile` |
| process start | `api/main.py` (`lifespan`), `CouponManager.init_stock` | overwrites the Redis stock | `CouponSystem` (partly) |
| chat endpoints | `api/main.py` | none of their own: they order the calls below | `ChatEndpoints` |
| rate limiters | `core/rate_limiter.py` | a token bucket in memory, a sorted set per user in Redis | `RateLimiter` |
| injection detector | `security/injection_detector.py` | the patterns it loaded | in `ChatEndpoints` |
| LLM work queue | `core/work_queue.py` | bounded queue, futures and token queues of the waiters | `WorkQueue`, `BoundedService` |
| conversation memory | `memory/conversation_memory.py` | working memory and summary in Redis, episodic memory and profile in ChromaDB | `ConversationMemory` |
| knowledge base, upload dedup | `mcp/knowledge_base.py`, `api/main.py` | ChromaDB collection, BM25 index, set of uploaded files | `KnowledgeBase` |
| tool manager, circuit breaker | `mcp/tool_manager.py`, `agents/tool_layer.py` | breaker and result cache | `ToolManager`, `Retrieval` |
| orchestrator, coupon decision | `agents/orchestrator.py`, `agents/coupon_decider.py` | what a turn holds across its awaits | `ConversationTurn` |
| slots | `agents/slot_manager.py` | slots of a conversation, in Redis or in memory | `SlotManager` |
| skills | `agents/skill_*.py` | registry of versions with a rollout each | `SkillRegistry` |
| planner, rule fallback | `core/intent_recognizer.py`, `core/planner_fallback.py` | whether the examples could be loaded | `Planner` |
| request dedup, lead file, evaluation, web client | `core/`, `agents/lead_store.py`, `evaluation/`, `static/` | nothing the running program uses, or none | no |

`PROJECT.json` lists every component with the reason where it is left out, and
every hazard of the code at its line.

### The coupon subsystem

1. `POST /coupon/claim` runs a Lua script that takes a unit of
   `coupon:test_drive:stock` and sets `claimed:<user>`. One MySQL transaction then
   looks for an active order of the user, inserts the order and inserts an outbox
   row. If it refuses or fails, a second script undoes the first.
2. The scanner polls the outbox, publishes a timeout message to a delay queue and
   marks the row sent.
3. `POST /coupon/lead` checks the key, finds the user's order, inserts a lead and
   moves the order to `lead_submitted`, in three transactions; then it sets a
   Redis mark.
4. A minute later the message is dead-lettered to `coupon.timeout`. The worker
   looks for a lead: with one it confirms the order and deducts
   `coupon_stock.remaining`; without one it moves the order to `released` and runs
   the release script, which deletes the user's key and returns the unit.
5. `coupon_reconcile`, started by hand, does the same for orders that stayed
   `claimed`.
6. A start of the API process copies `coupon_stock.remaining` to the Redis stock.

What is hard here: every `await` lets other handlers in; the three stores have no
common transaction; a message may come twice, late, or while its first handler is
still running; errors are often logged and swallowed; a release works by user and
not by order; and the process may die between any two steps.

What makes it correct, component by component:

- *claim*: at most one waiting order per user, a rollback returns only what its
  own request took, no unit of stock is lost or invented;
- *lead*: an order that is locked stays locked, and its unit is not sold again;
- *outbox*: every order's timeout is sent at least once, a row is given up only
  after all attempts;
- *worker and reconciliation*: an order is deducted at most once, a timeout is
  never lost, every order is settled in the end, a release in MySQL is followed
  by one in Redis;
- *start*: the stock a start writes is a stock that may be sold.

### The path of a message

1. `POST /chat` and `POST /chat/stream` ask the bucket of the whole service, the
   window of the user and the injection detector, read the memory, and submit the
   call to the queue. A full queue refuses. One of four workers takes the call and
   runs a turn of the engine; the answer comes back through a future or, token by
   token, through a queue of its own that ends with a mark. Question and answer
   are then written to the memory.
2. Every fifteenth message the memory is compressed: the list is read, the LLM
   summarises all but the last five messages, the list is replaced.
3. A turn reads the slots, asks the planner (LLM, once more, a repair, then
   keywords and examples), applies the planner's operations to the slots, resolves
   each task to a version of a skill, checks which skills have their slots, runs
   their tools, writes the reply and decides on a coupon.
4. A knowledge search has the LLM write sub-queries, calls the tool for each
   (cache, circuit breaker, parameter check, handler), merges and has the LLM rank.
5. The knowledge endpoints add, upload, delete and clear documents in ChromaDB, in
   the keyword index and in the set of uploaded files.

What is hard here: everything runs in one event loop and is interrupted only at
an `await`, but there it may meet any other handler; Redis and ChromaDB calls are
made one by one and each may fail after the ones before it took effect; callers
leave; and nearly every error is logged and swallowed.

What makes it correct, component by component:

- *queue*: an accepted call is served to its end whoever leaves, a stream ends and
  loses nothing;
- *limiters*: a burst or an idle time never lets more through than the limit;
- *memory*: nothing said is lost or shown twice while compressions run alone, what
  overlaps may lose is exactly what they had not read, and only the messages a
  compression keeps leave the order in which they were said (they do: see below);
- *knowledge base*: collection, keyword index and set of files stay in step;
- *search*: what is deleted is not served for longer than the cache lives, and
  "nothing found" is never a failure in disguise;
- *turn*: no turn undoes another turn's slots, also when it fails after its write,
  a planner left with keywords only makes small talk, a coupon needs its rounds, a
  version gets its share, a turn ends.

## The modules

| module | content |
|---|---|
| `CouponState` | constants and their assumptions, variables, types, `Init`, the Lua scripts, the SQL transactions several components share, the queue |
| `CouponClaim`, `CouponLead`, `CouponOutbox`, `CouponWorker`, `CouponReconcile` | one component each: an action per step between two awaits, and the faults of that component |
| `CouponSystem` | composes them, adds expiry and restart, fairness, and states the properties |
| `ReservationLedger` | abstract: a pool of reservations, at most one per user |
| `MCCoupon` | bounds on faults and symmetry for TLC |
| `CouponSafetyProofs`, `CouponLedgerProofs`, `CouponRecoveryProofs` | theorems about the coupon subsystem: types and books under every fault, reservations while every timeout is handled once, timeouts that are not lost |
| `RateLimiter`, `WorkQueue` | the two limiters; the queue with its workers |
| `ChatEndpoints` | composes both with the handlers of the two chat endpoints, states fairness and the properties |
| `BoundedService` | abstract: what the queue promises of the calls it accepts |
| `ConversationMemory` | the memory of one conversation and the tasks that write it |
| `KnowledgeBase` | the three stores of documents and the endpoints that change them |
| `ToolManager` | one call of the tool: cache, breaker, fallback |
| `Retrieval` | composes `ToolManager` and `KnowledgeBase` with the steps of a search |
| `SlotManager`, `SkillRegistry`, `Planner` | operations on slots; loading, versions and the slot check; what the LLM and the rules can answer |
| `ConversationTurn` | composes these three with the turn and the coupon decision |
| `MCChat`, `MCMemory`, `MCKnowledge`, `MCRetrieval`, `MCTurns` | values of the constants for TLC |
| `ChatProofs` | theorems about the limiters and the queue, as parts of the chat endpoints |
| `MemoryProofs` | theorems about the memory of a conversation, and about lists in and out of order |
| `KnowledgeProofs`, `RetrievalProofs` | theorems about the knowledge base and the search; the second uses the first |
| `TurnProofs` | theorems about turns, slots, planner and skills |

### State and code

| variable | code |
|---|---|
| `stock`, `claimed`, `leadMark` | Redis keys `stock`, `claimed:<user>`, `lead:<user>` |
| `owner`, `status`, `leads` | `coupon_order.user_id`, `.status`; orders with a `coupon_lead` row |
| `outbox`, `retries` | `coupon_outbox.status`, `.retry_count` of the order's only row |
| `remaining` | `coupon_stock.remaining`; `deducted` is a history variable |
| `queue` | messages in `coupon.delay` and `coupon.timeout`, one bag |
| `claimPc`, `leadPc`, `leadOrder`, `workerPc`, `workerMsg`, `recPc`, `recBatch` | where each handler stands and what it holds across awaits |
| `batch`, `unmarked` | the scanner's batch; the record published and not yet marked |
| `requeued` | handlers whose delivery the broker has put back meanwhile |
| `queue` (`WorkQueue`), `putters`, `job`, `future`, `channel` | `_queue`; callers suspended in `put`; what each worker holds; the future of a plain call; `token_queue` of a stream |
| `tokens`, `last`, `window`, `expires` | the bucket; the sorted set of each user and its TTL |
| `pc`, `text`, `stored`, `answer` (`ChatEndpoints`) | where a handler stands; `full_response`; what it wrote to the memory |
| `wm`, `summary`, `episodic`, `profile` | the Redis list as `_get_working_memory` returns it, and the summary; the two ChromaDB collections |
| `snapshot`, `reading` | what a compression or a profile update read before its await |
| `collection`, `indexed`, `df`, `dedup` | ChromaDB; `_docs`/`_tokens` and `_df` of the BM25 index; the Redis set of uploaded files |
| `cache`, `state`, `fails`, `openedAt` | `_cache` in order of insertion; the circuit breaker |
| `todo`, `odd`, `found`, `shown` | sub-queries to call, whether one is no string; merged results; what the search returned |
| `slots`, `backend`, `registry`, `fewshot` | the slots; Redis or memory; versions of each skill; `intent_map` and `_fs_ready` of the fallback |
| `turn`, `messages`, `notices` | a record per turn (`pc`, slots read, round, plan, completed, pending; a turn that failed after its write keeps the plan it applied); messages in the cut history; notices of the coupon worker among them |

An action is the code between two points at which something else can run. A SQL
transaction is one step: rows are locked (`FOR UPDATE`, `UPDATE ... WHERE`), and
aiomysql closes a connection that goes back to the pool inside a transaction, so
none works on an old snapshot. The exception is `claim_in_transaction`: its
duplicate `SELECT` takes no lock, and another request can run between it and the
`COMMIT` (`ClaimSelect`, `ClaimInsert`). A Lua script is one step; the scripts are
not in the repository and are modelled from their callers and from the comments
on them (marked external in `PROJECT.json`).

The guards of an action come from the code's early returns. A call whose early
return changes nothing (a claim that finds the key, a lead without the key) is a
call that is not made.

### Abstractions

Coupon subsystem:

- No clocks. The delay queue and the timeout queue are one bag; a message is
  delivered at some time. `TimelyTimeouts` says that a timeout (60 s) is handled
  before the user's key (3600 s) expires; the runs that do not need it leave it
  out.
- A second lead row of one order adds nothing the code tells apart.
- `leadMark` is written by several components and read by none of the modelled
  steps; its expiry is left out. So is the notification the worker writes into
  the chat.
- The worker's confirmation and the Redis mark after it are one step.
- A `COMMIT` whose reply is lost is not modelled: a failed transaction is rolled
  back.
- Starting without Redis, MySQL or RabbitMQ (degraded modes), the reconciliation's
  dry run, and operations nothing calls (`set_cooldown`, `sync_stock_from_db`,
  `set_stock`, `reset_stock`, `insert_order`, `insert_outbox`,
  `release_in_transaction`, `deduct_stock`, `restore_stock`) are left out.

Path of a message:

- Text is abstracted to what the properties tell apart: an answer is its number of
  tokens, a message of the memory its number, a summary the messages it
  summarises, a chunk the set of words the keyword index tells apart, a message to
  the planner the keywords, the similarity and the slot values found in it.
- Calls of Redis and ChromaDB block the event loop, so they do not interleave with
  other handlers; where one of several can fail, the action has a disjunct for
  each prefix that took effect (the pushes of a compression, the requests of the
  knowledge base, the write and the read back of a turn's slots).
- A fallback item of the tool is the sub-query it quotes: it has no id, so several
  of them count against `top_k` and may be ranked like chunks.
- The bucket and the window read one clock. A wall clock that is set back is left
  out.
- The search of `Retrieval` runs all sub-queries without letting others in:
  `asyncio.gather` starts them in turn and the tool's handler never suspends
  (`asyncio.wait_for` awaits it in the calling task since Python 3.12, the version
  of the Dockerfile).
- The search in vectors is any choice of the best; the keyword index gives what it
  can score above zero.
- Similarities are hundredths; the planner's constants (weights, thresholds,
  keyword intents) are those of the code.
- Wording of prompts and answers, intent log, statistics and metrics are left out.
- The operations of a plan are carried out in turn by the code; `SlotManager` says
  what is left of them: the last operation on a slot decides. `MCTurns` assumes
  `LastOperationDecides`, that this is what the operations do one by one, and TLC
  evaluates it for every list of up to three operations. Versions of a skill that
  compare as equal may come in any order. `NoBucket` stands for a caller without
  `user_id`, who gets the newest version.

### Bounds

`MaxOrders` bounds the orders of a coupon behaviour: a request starts only while
there is room for the order it may insert (`RoomForOrder`). `FaultBound` bounds the
faults of each kind and `MaxKinds` the kinds one behaviour mixes. Because of these
bounds the system stops at the end of a behaviour, so deadlock is not checked. Two
orders, two copies of a request and two handlers are what the races need: one to
decide, one to interfere, and the user's next order after the first is settled.

| run | bound | why it is enough |
|---|---|---|
| `chat` | 2 calls, 1 worker, 1 place, answers up to 2 tokens, gaps of 1 to 3 time units, a window of 3 | one call is served or waits while the other is refused, waits behind it, or meets a worker whose caller has left; the gaps lie inside, at the edge of and beyond the window, and refill the bucket by a part, fully and past its capacity |
| `memory` | 6 messages, compression at 4 of a window of 5 keeping 2, 2 writers, 2 updates, 1 fault | two compressions overlap, with a message pushed between them and one beyond the window; two kept messages are the fewest that can be turned, and a second compression meets those the first one turned; a fault falls into each prefix of a compression |
| `memory_order` | the code's 15, 20 and 5; 1 writer, 15 messages, no fault | the first compression of a conversation |
| `knowledge` | 5 files over 3 documents (4 chunks), 3 failures | a document twice in one file, two files with one key, a malformed element behind a good one; three failures leave chunks in each store and let a clear fail after them; requests are unbounded |
| `retrieval` | 1 search, 2 sub-queries, a cache of one entry living 2 ticks, clock up to 4, threshold 2 | an entry is made, served stale, expires or is evicted; the breaker opens, refuses, probes and opens again. Searches share only cache and breaker and their calls do not interleave, so one search that starts over again and again meets what a second would leave |
| `turns` | 2 turns, 2 workers, 2 slots, 2 versions of a skill, 4 buckets, history of 5, 2 earlier answers, 1 notice | both turns stand between their read and their write at the same time; the rounds 1 to 3 the history can give all occur. No turn waits for a worker here: waiting in the queue, behind another call or a caller that left, is what `chat` runs |

The clocks and counters of these modules stop at their bounds, and so may the
system; only `chat` and `knowledge` go on for ever and are checked for deadlock
(the end of all calls is the explicit step `Quiet`).

## The runs

| run | instance | checks |
|---|---|---|
| `handled_once` | 2 users with 2 concurrent requests each, 2 handlers, stock 2; MySQL error, Redis error, publish error, expiry; no crash or duplicate | `StockConserved`, `WaitingOrderHoldsKey`, `OneOpenOrderPerUser`, refinement `ImplementsLedger` |
| `all_faults` | 1 user, 2 requests, 2 handlers, stock 1; every kind of fault, two kinds mixed | `TypeOK`, `LedgerBalanced`, `StockNeverNegative`, `LockedForGood`, `OutboxGivesUpLate` |
| `recovery` | 1 user, 1 handler; restart, lost connection, lost mark, publish error; with fairness | `ClaimedOrderIsTracked`, `EveryClaimResolved`, `EveryReleaseReturnsStock` |
| `chat` | 1 user, 2 calls, plain or streamed, clients that leave, failing engine and Redis; with fairness | `TypeOK`, `WindowLimit`, `BurstBound`, `AnswerIsWhole`, `EveryCallEnds`, refinement `ImplementsBoundedService` |
| `memory` | 2 writers, 2 profile updates, clears, expiry, a failure or restart; with fairness | `TypeOK`, `OnlyKeptAreTurned`, `AllSaidIsInContext`, `ProfileIsLatest`, `DroppedWasUnread`, `ListIsCutBack` |
| `knowledge` | 5 files, 3 requests that fail half-way, restarts | `KbTypeOK`, `StoredIsIndexed`, `KeywordSearchIsExact`, `KnownFileIsStored` |
| `retrieval` | 1 search over a knowledge base that changes, time, restarts; with fairness | `TypeOK`, `BreakerSettles`, `StaleAtMostTtl`, `NothingMeansNothing`, `EverySearchEnds` |
| `turns` | 2 turns of one conversation, failing and garbling LLM, notices, clears, expiry, restarts; with fairness | `TypeOK`, `CouponAfterTwoRounds`, `KeywordsDecideNothing`, `RolloutIsShare`, `NoLostSlot`, `EveryTurnEnds` |
| `lead_not_deducted`, `lead_race`, `restart`, `memory_order` | the smallest instances that show it | one statement of the repository each, violated (see below) |

*While every timeout is handled once* (`handled_once`), the Redis side refines
`ReservationLedger`: each unit is free, held by exactly one user, or lapsed with
its key. This holds although the rollback does not look for the key it deletes,
and although the duplicate check in MySQL does not lock: the Redis key is what
serialises a user's requests, as long as nobody takes it away too early. A MySQL
error during the release does take it away (the worker runs the release script
although the order stays `claimed`); the next order of the user is then refused by
MySQL, so the books still balance.

*Under every fault* (`all_faults`), the MySQL ledger balances, locks are final,
and the Redis stock is never negative (it may be too large, see `restart`).

*Recovery* (`recovery`): no timeout is lost, and every claimed order is settled,
with two named exceptions that are in the property: the outbox row was given up
after `max_retries`, or the confirmation found the MySQL stock exhausted (the
worker logs it and acknowledges the message). The publish errors of this run stay
below `max_retries`.

*Chat.* The check for a full queue and the `put` are one step, since nothing is
awaited between them (`work_queue.py:100`, 104). A worker survives a caller
that left, and an accepted call is served to its end: the queue refines
`BoundedService` with at most `QueueMax` calls waiting and one per worker in
service. What is stored as a streamed answer is everything the engine yielded.
The window counts what Redis recorded; while Redis fails it lets everything
through, which `WindowLimit` leaves out by name.

*Memory.* While a compression runs alone and nothing fails, the next turn is shown
everything said since the last clear, each message once, as itself or through the
summary. It is not shown in order: a compression pushes the messages it keeps back
the wrong way round (`memory_order`). `OnlyKeptAreTurned` bounds the damage, with
overlaps and failures too: only messages one compression kept run backwards, at the
start of the list, and they are not kept again. A message leaves the list without a
trace only if a compression had not read it.

*Knowledge base.* A served chunk is always indexed. The exactness of the keyword
search needs that no request failed half-way since the last start (a start
rebuilds the index from ChromaDB).

*Search.* The cache is the only way a deleted chunk is served, for less than its
time to live; an empty answer is an empty collection or a ranking that kept
nothing, since every failure yields the fallback item.

*Turns.* Slots are read before the planner's await and changed after it, one
operation at a time against what is stored then, so overlapping turns do not undo
each other; a turn whose read back fails has written its slots all the same, and
nothing else. Without LLM and without similar examples, keywords never reach the
threshold of the fallback: such a turn only runs `GREETING`, `WEATHER` and the
skills that are always evaluated. The cut history can show too few rounds, never too
many, except that notices of the coupon worker are counted as messages.

Fairness: in the coupon subsystem, weak fairness on each claim and lead request in
progress, the scanner, the broker's delivery, each timeout handler and the
reconciliation. The event loop runs every ready task, the scanner's loop does not
end on errors, and the broker delivers what it holds to a connected consumer. In
the other modules, weak fairness on each handler, worker, compression, search and
turn: the event loop runs what can go on, and the LLM client and the tools have
time-outs, so that an await of them ends. Nothing is assumed of users and clients,
and no fault has to happen.

### Where the code differs from what is said of it

- `lead_not_deducted`: `coupon_worker.py:13` says that a timeout with a lead is the
  first and only deduction of `coupon_stock`. The lead handler has already moved
  the order to `lead_submitted`, so `confirm_lead_and_deduct` finds it past
  `claimed` and deducts nothing. No fault is needed.
- `lead_race`: `api/main.py:595` says that a lead locks the coupon and its stock is
  not returned. `update_order_status` has no condition on the status, so a lead
  that looked the order up before its release turns `released` into
  `lead_submitted` after the unit went back.
- `restart`: `README.md:1057` says that Redis alone does not oversell. Every start
  overwrites the stock with `coupon_stock.remaining`, which open reservations have
  not reduced.
- `memory_order`: `conversation_memory.py:436` says that the working memory is read
  in the order of time, and 448 turns the list round for it. `_compress` pushes the
  kept messages back from the newest to the oldest (416-420), so that the oldest
  comes to lie where the newest is expected. With the code's numbers and no failure,
  history and context show five messages backwards after the first compression.

Met while modelling, in the models as the code has it, and without a run of
their own:

- *Redelivery.* `coupon_worker.py:227` calls a repeated message an idempotent skip.
  The release (215) is by user: a repeated message of an old order releases the key
  of the user's next order. `WaitingOrderHoldsKey` fails in the instance of
  `handled_once` as soon as `FaultBound` admits one lost connection.
- *Chat.* `main.py:294` announces 429 for a full queue; `QueueFullError` leaves
  `/chat` as a server error, and a stream ends without an event.
- *Memory.* `docs/interview-review.md` (94, 602) says that at most some tokens are
  wasted by concurrent compressions: messages pushed during the await are deleted
  unread, two compressions append both their summaries, and a clear during one is
  undone. When the LLM fails, a fixed sentence takes the place of the summary and
  the old messages are gone from the context.
- *Knowledge base.* The key of an uploaded file uses its first 500 bytes, so two
  files may share it. A failed Redis delete leaves the set of keys behind after a
  clear. A cleared knowledge base is filled with the default documents by the next
  start.
- *Search.* A sub-query that is no string counts as a failure of the tool and can
  open the breaker; a ranking `[]` drops every result. The query is the name of the
  intent (`orchestrator.py:166`), though `tool_layer.py` speaks of the user's text.
- *Turn.* The round limit in `coupon_decider.py` (8, 20) and `README.md` (557, 602)
  is 5; the code has `MIN_ROUNDS` 2, and a history cut to five messages never gives
  more than round 3. `planner_fallback.py` announces a fallback to pure keyword
  matching (138, 232, 401), but keywords alone score at most 0.4 of the 0.55 that
  are needed, so that every message becomes small talk. `_fs_ready` is set before
  the examples are read, so one failure leaves the fallback without them for the
  life of the process. A null from the LLM is stored as an empty text by Redis and
  counts as a filled slot; in memory mode it counts as missing, and there the slots
  do not outlive the turn.
- *Skills.* Versions are compared as texts; users outside every rollout get the
  newest version; the status `deprecated` is read by nothing; `SkillWatcher` is
  never started.

## The proofs

Every safety invariant and every action property of the passing runs is proved for
every value of the constants that satisfies the assumptions, and so are the two
refinements but for the fairness of one. The assumptions:

- *coupons*: `ConstantsOK` (finite sets of users and handlers, any stock, any
  bounds); that is, any number of users, requests, handlers, orders and faults of
  every kind. `NoTimeoutIsLost` and the theorems of `CouponLedgerProofs` name the
  faults they exclude.
- *chat*: `LimiterAssumption`, `QueueAssumption` and `EndpointAssumption`: any
  capacity, refill, limit and window, any number of calls and places, answers of any
  length, finitely many workers, and requests that never read the same time.
- *memory*: `MemoryAssumption`: twice the messages kept are no more than start a
  compression, and no more start one than the window shows, as with the code's 5,
  15 and 20.
- *knowledge base and search*: `KnowledgeAssumption`, `ToolAssumption` and
  `RetrievalAssumption`: any documents, files, queries and searches, any size and age
  of the cache, any threshold, and finitely many chunks and sub-queries, none of
  which is both.
- *turns*: `SkillAssumption`, `PlannerAssumption` and `TurnAssumption`: finite sets of
  skill files with any versions and rollouts, any texts with any keyword hits and
  similarities between 0 and 100, any answers of the LLM, any number of turns and
  notices, any history and minimum of rounds.

| theorem | module | statement |
|---|---|---|
| `TypeInvariant`, `TypeCorrect` | `CouponSafetyProofs` | `Spec => []TypeOK` |
| `LedgerAlwaysBalanced` | `CouponSafetyProofs` | `Spec => []LedgerBalanced` |
| `StockStaysNonNegative` | `CouponSafetyProofs` | `Spec => []StockNeverNegative` |
| `LockIsFinal` | `CouponSafetyProofs` | `Spec => LockedForGood` |
| `OutboxIsFinal` | `CouponSafetyProofs` | `Spec => OutboxGivesUpLate` |
| `NoUnitIsLost` | `CouponLedgerProofs` | `HandledOnce` implies `Spec => []StockConserved` |
| `RedisImplementsLedger` | `CouponLedgerProofs` | `HandledOnce` implies `Spec => ImplementsLedger` |
| `WaitingOrderKeepsKey` | `CouponLedgerProofs` | `HandledOnce` implies `Spec => []WaitingOrderHoldsKey` |
| `OneOrderWaits` | `CouponLedgerProofs` | `HandledOnce` implies `Spec => []OneOpenOrderPerUser` |
| `RedisDoesNotOversell` | `CouponLedgerProofs` | `HandledOnce` implies `Spec => []NeverOversold` |
| `NoTimeoutIsLost` | `CouponRecoveryProofs` | `FaultBound["db"] = 0` implies `Spec => []ClaimedOrderIsTracked` |
| `BurstsAreBounded` | `ChatProofs` | `Spec => []BurstBound` |
| `WindowsAreBounded` | `ChatProofs` | `Spec => []WindowLimit` |
| `QueueInvariant` | `ChatProofs` | `Spec => []QueueInv` |
| `StreamedAnswersAreWhole` | `ChatProofs` | `Spec => []AnswerIsWhole` |
| `QueueServesAsPromised` | `ChatProofs` | `Spec => Service!Init /\ [][Service!Next]_(Service!vars)` |
| `ChatTypes` | `ChatProofs` | `Spec => []TypeOK` |
| `MemoryTypes` | `MemoryProofs` | `Spec => []TypeOK` |
| `OneCompressionIsTurned` | `MemoryProofs` | `Spec => []OnlyKeptAreTurned` |
| `ContextIsWhole` | `MemoryProofs` | `Spec => []AllSaidIsInContext` |
| `OnlyUnreadIsDropped` | `MemoryProofs` | `Spec => DroppedWasUnread` |
| `ProfileFollowsReads` | `MemoryProofs` | `Spec => []ProfileIsLatest` |
| `ServedChunksAreIndexed` | `KnowledgeProofs` | `KbSpec => []StoredIsIndexed` |
| `KnownFilesAreStored` | `KnowledgeProofs` | `KbSpec => []KnownFileIsStored` |
| `CountsInvariant`, `KnowledgeTypes` | `KnowledgeProofs` | `KbSpec => []KbTypeOK` |
| `SearchIsExact` | `KnowledgeProofs` | `KbSpec => []KeywordSearchIsExact` |
| `BreakerAlwaysSettles` | `RetrievalProofs` | `Spec => []BreakerSettles` |
| `StalenessIsBounded` | `RetrievalProofs` | `Spec => StaleAtMostTtl` |
| `EmptinessIsReal` | `RetrievalProofs` | `Spec => NothingMeansNothing` |
| `RetrievalTypes` | `RetrievalProofs` | `Spec => []TypeOK` |
| `TurnInvariant`, `TurnTypes` | `TurnProofs` | `Spec => []TypeOK` |
| `CouponsWait` | `TurnProofs` | `Spec => []CouponAfterTwoRounds` |
| `KeywordsAloneAreHarmless` | `TurnProofs` | `Spec => []KeywordsDecideNothing` |
| `RolloutsAreShares` | `TurnProofs` | `Spec => []RolloutIsShare` |
| `NoTurnUndoesAnother` | `TurnProofs` | `Spec => NoLostSlot` |

*Types.* `TypeOK` alone is not inductive. A handler writes `status[leadOrder[u]]`
or `status[OrderOf(w)]`, which keeps "an order with a status has an owner" only if
that order was inserted (`NoDanglingOrder`), and the scanner's increment stays
within `max_retries` only if the rows of its batch are still `init` with attempts
left (`BatchIsPending`). `TypeInv` is the conjunction, proved component by
component.

*Books, locks, rows.* `StepMoves` says once what a step may do to an order's
status, the MySQL ledger, an outbox row and the Redis stock. The four theorems
follow from it and `TypeInv`; `SafeInv` is the inductive invariant.

*Reservations.* Three scripts delete or set the key of a user without looking at
orders, so why is a key never taken from a waiting order? Because at most one thing
answers for it: a request between its two scripts, an outbox row that was not
published, a message, or a handler. `OneHolder` says so, `HoldersHaveKey` that the
key is there; a step keeps the holders, passes one on, admits one with a unit of
stock, or takes one away with its unit (`HolderMove`), and each of these is a step
of `ReservationLedger` (`HolderLedger`). `OneOpenOrderPerUser` needs `InsertIsClear`
too: between the duplicate check and the insert no order of the user can appear,
since only the holder of the key could insert it. `HandledOnce` excludes exactly
what makes a second holder or takes a key without one: a restart, a lost connection
(a message comes again), a lost mark (a row is published again), a reconciliation
beside the worker, and a key that expires before its timeout. These are the
conditions of normal operation, and of the run `handled_once`; `restart` and the
redelivery described above show what happens without them. Errors of MySQL, Redis
and publishing, and keys that expire afterwards, are unrestricted.

*No timeout is lost.* `ClaimedOrderIsTracked` counts a busy handler as carrying
the timeout. That is not inductive: a handler may end without settling its order,
and the acknowledgement of a handler whose delivery was taken back is worth
nothing. `TrackInv` therefore ignores handlers in `requeued`, and adds what a
handler knows while it goes on (`WorkerKnows`): before a confirmation the order has
a lead, before the release script the order is no longer claimed. The assumption
on MySQL is needed: with an error the worker may acknowledge a message whose order
stays `claimed` (`coupon_worker.py:163`, `rmq_client.py:196`), which is what the
reconciliation is for. Restarts, lost connections, lost marks, failed publishes,
Redis errors, expiries and reconciliations are unrestricted.

*Limiters.* `BurstBound` compares two requests that passed and forgets what is in the
bucket between them. `Balance` remembers it: the tokens spent since any request
that passed, with those left, are at most the capacity and the refill until now.
`WindowLimit` counts what was let through and the code counts what is in the sorted
set; `RecordsLast` says that a record that still counts is there, whatever TTL its
key was left with by a failed EXPIRE.

*Queue.* `OneHolder`: a call is at one place of the queue or with one worker, and
only after it was submitted. `StreamOK` says for a streamed call what is left in
its token queue and how much its reader has gathered: the engine is at work
(`Running`), done and end mark are still to come (`Finished`), it raised
(`Raised`), or only the end mark is left (`AtEnd`). `AnswerIsWhole` is the last
case; the refinement needs `OneHolder` and that a queue of n places holds no more
than n calls (`SubmitIsAccept`), and that a worker without a job leaves fewer calls
served than there are workers (`TakeIsServe`).

*Lengths.* `ChatTypes` bounds what grows. A stream may gather as many tokens as were
put in its queue, so that `SizeInv` bounds what the engine yields (`progress`) by
where the call stands, and `StreamOK` hands the bound on to the reader.

*Memory.* `OnlyKeptAreTurned` is not inductive, since a compression pushes back what
it has read: `OrderInv` says the same of every snapshot. What is kept are the last
messages of a snapshot; because they are at most half of what is read, none of them
was turned before, so that they run forwards, run backwards once pushed, and are
older than what is said later (also when the pushes break off). That what is replaced
was read follows from the snapshot alone (`DroppedWasUnread`), whatever the list has
become. `AllSaidIsInContext` is about undisturbed conversations, which the invariant
has to describe while a compression runs (`CalmList`): summary and list together hold
what was said since the last clear, each message once (`Whole`), the only compression
has read the list as it is, and a list long enough to be compressed is being
compressed, so that it never outgrows the window. `UpdateInv` says the same of the
profile: the latest is stored, or in the hands of the one update.

*Knowledge base.* `KnownFileIsStored` is not inductive: an upload passes over the
documents it finds in the collection, and it finds a document by any of its chunks.
`KbInv` adds `StoredWhole`, that a document of which a chunk is stored is stored
with all of them (a call of ChromaDB adds or deletes whole documents), and
`StoredIsIndexed`. The exactness of the search is a matter of counting: the index
adds and subtracts the words of each chunk by hand (`_df`), and a count above the
number of chunks hides all of them, while one that is too low becomes negative.
`CountsInv` says that no word is ever counted less often than it occurs in the
index, also after a request broke off (`Covers`), and exactly as often while none
did (`Exact`).

*Search.* The statements about staleness and emptiness are about the past: they
need to know what an entry of the cache was when it was made. An entry was made at
`until - CacheTtl`; `CacheIsRecent` says that each of its chunks could be found then
or later, and that the collection was empty then or later if it has none. Changes
of the knowledge base keep this because what they take away is remembered with
the present time (`RememberKeeps`), and a hit turns it into the bound because the
clock has not reached `until`. `SearchKnows` carries emptiness from a call to the
end of its search: while calls are made, a search has a query left, has found
something, or met emptiness lately. This needs that time does not pass between
the calls and the merge, which the code ensures by not awaiting there. The types
(`TypesInv`) need that the cache has one entry per query, so that an entry that
is written again makes no room for two, and `CountsInv` of the knowledge base,
whose steps are taken over as they are.

*Turns.* A turn counts its rounds from the messages it was shown, and the property
speaks of answers. `TurnInv` relates them: two messages for an answer while there
was no notice (`MessagesCounted`), and no more answers than turns that are done, with
the earlier ones (`AnswersCounted`), which also bounds the counters. A blind planner
gives `Harmless` plans because a score of keywords alone is at most 40 of the
55 it needs (`MedConf`), for every combination of hits; that such a turn attempts no
skill but small talk and those always evaluated is a part of the invariant of its
own (`Small`), carried from the plan to the check of the skills. `NoLostSlot` follows
from the closed form of the operations, `Applied` differs from what it was given only
in slots the operations name, and from the turn keeping its plan when it fails after
its write (`FailWrittenMoves`). `RolloutIsShare` does not depend on the steps: it is proved of
every list of two versions, because the buckets a version serves form an
interval.

Only model-checked: the liveness properties `EveryClaimResolved`,
`EveryReleaseReturnsStock`, `EveryCallEnds`, `ListIsCutBack`, `EverySearchEnds` and
`EveryTurnEnds`, and the fairness of `ImplementsBoundedService` (its initial states and
steps are proved). Liveness under fairness needs ENABLED, which is out of the
prover's reach. That the closed form of the slots' operations is what they do one by
one is an induction over the list and is checked for lists of up to three
operations.

## Not modelled

- *Operations nothing calls*: the unused coupon operations (see Abstractions),
  `RequestDedup`, `SkillWatcher`, the `LeadStore` file, `reset`, `set` and `delete`
  of the slots.
- *Evaluation, web client, deployment*: offline metrics, user interface and
  scripts, without state of the program.
- *Reading operations*: listing and statistics endpoints, similarity search in the
  episodic memory, profile endpoints that only read.
- *Starts without a service*: a chat endpoint without engine or memory, a coupon
  manager without Redis or MySQL. Only the slots' memory mode is modelled, since a
  turn behaves differently in it.
- *Text*: prompts, parsing of what the LLM writes beyond "usable, garbled or
  absent", cutting a document into chunks, the regular expressions of the rules.

## Plan

Done: the modules and runs above, and a proof of every safety invariant, action
property and step refinement they check. What is left:

1. Weaker hypotheses where the code is better than the theorem: `NoTimeoutIsLost`
   with MySQL errors outside the handlers, `HandledOnce` for one user at a time.
2. Facts that hold across modules and that no run states yet, for instance that the
   stock in MySQL and the reservations in Redis agree once everything is settled and
   nothing failed.
