------------------------------ MODULE WorkQueue ------------------------------
(***************************************************************************)
(* The queue between the chat endpoints and the engine                     *)
(* (core/work_queue.py): a bounded asyncio.Queue, a fixed set of worker    *)
(* coroutines, a Future per plain call and an unbounded token queue per    *)
(* streamed call.                                                          *)
(*                                                                         *)
(* One action is one stretch of code between two awaits.  The engine is    *)
(* what AgentEngine.run and run_stream show of themselves: run returns or  *)
(* raises; run_stream yields meta, tokens and done, and may raise before   *)
(* the first token (generate_stream turns later errors into a token).      *)
(***************************************************************************)
EXTENDS Naturals, Sequences, FiniteSets

CONSTANTS
  NumCalls,   \* BOUND: requests to the chat endpoints
  Workers,    \* worker coroutines (4 in api/main.py)
  QueueMax,   \* max_size (50 in api/main.py)
  MaxTokens,  \* BOUND: tokens of one streamed answer
  Idle        \* a worker without a job

Calls == 1 .. NumCalls

ASSUME QueueAssumption ==
  /\ NumCalls \in Nat
  /\ IsFiniteSet(Workers)
  /\ QueueMax \in Nat \ {0}
  /\ MaxTokens \in Nat
  /\ Idle \notin Calls

VARIABLES
  mode,      \* call -> "chat" (submit) or "stream" (submit_stream)
  queue,     \* the asyncio.Queue: calls in order
  putters,   \* calls suspended inside put() on a full queue
  job,       \* worker -> the call it works on, or Idle
  future,    \* call -> state of the Future of a plain call
  channel,   \* call -> its token queue: events not yet read
  progress   \* call -> events run_stream has yielded for it

queueVars == <<mode, queue, putters, job, future, channel, progress>>

Events == {"meta", "token", "done", "END"}
FutureStates == {"none", "pending", "result", "error", "cancelled"}

QueueTypeOK ==
  /\ mode \in [Calls -> {"chat", "stream"}]
  /\ queue \in Seq(Calls)
  /\ Len(queue) <= QueueMax
  /\ putters \subseteq Calls
  /\ job \in [Workers -> Calls \cup {Idle}]
  /\ future \in [Calls -> FutureStates]
  /\ channel \in [Calls -> Seq(Events)]
  /\ progress \in [Calls -> 0 .. MaxTokens + 2]

QueueInit ==
  /\ mode \in [Calls -> {"chat", "stream"}]
  /\ queue = <<>>
  /\ putters = {}
  /\ job = [w \in Workers |-> Idle]
  /\ future = [c \in Calls |-> "none"]
  /\ channel = [c \in Calls |-> <<>>]
  /\ progress = [c \in Calls |-> 0]

\* The check submit() and submit_stream() begin with.
QueueFull == Len(queue) >= QueueMax

\* await self._queue.put(...): suspends the caller when the queue is full.
Put(c) ==
  IF Len(queue) < QueueMax
  THEN queue' = Append(queue, c) /\ UNCHANGED putters
  ELSE putters' = putters \cup {c} /\ UNCHANGED queue

\* submit() and submit_stream() past the check: nothing is awaited between
\* the check and the put, so the caller runs both without an interruption.
Submit(c) ==
  /\ ~ QueueFull
  /\ Put(c)
  /\ future' = IF mode[c] = "chat"
               THEN [future EXCEPT ![c] = "pending"] ELSE future
  /\ UNCHANGED <<mode, job, channel, progress>>

\* The task that awaits the Future is cancelled, and the Future with it.
CancelFuture(c) ==
  /\ future' = IF future[c] = "pending"
               THEN [future EXCEPT ![c] = "cancelled"] ELSE future
  /\ UNCHANGED <<mode, queue, putters, job, channel, progress>>

\* _run_worker: await self._queue.get().
Take(w) ==
  /\ job[w] = Idle
  /\ queue # <<>>
  /\ job' = [job EXCEPT ![w] = Head(queue)]
  /\ queue' = Tail(queue)
  /\ UNCHANGED <<mode, putters, future, channel, progress>>

\* A worker that does not survive the InvalidStateError of a cancelled Future.
HandleChatUncaught(w) ==
  /\ job[w] # Idle
  /\ mode[job[w]] = "chat"
  /\ future[job[w]] = "pending"
  /\ \E outcome \in {"result", "error"} :
       future' = [future EXCEPT ![job[w]] = outcome]
  /\ job' = [job EXCEPT ![w] = Idle]
  /\ UNCHANGED <<mode, queue, putters, channel, progress>>

\* _handle_chat: the engine returned or raised.  On a cancelled Future both
\* set_result and set_exception raise InvalidStateError; _run_worker logs it
\* and goes on.
HandleChat(w) ==
  /\ job[w] # Idle
  /\ mode[job[w]] = "chat"
  /\ \E outcome \in {"result", "error"} :
       future' = IF future[job[w]] = "pending"
                 THEN [future EXCEPT ![job[w]] = outcome] ELSE future
  /\ job' = [job EXCEPT ![w] = Idle]
  /\ UNCHANGED <<mode, queue, putters, channel, progress>>

\* The next event run_stream may yield after n of them, "done" being last.
NextEvents(n) ==
  IF n = 0 THEN {"meta"}
  ELSE {"done"} \cup (IF n <= MaxTokens THEN {"token"} ELSE {})

\* _handle_stream: one event of run_stream goes to the token queue.  After
\* done the generator is exhausted and the finally clause adds the end mark.
HandleEvent(w) ==
  /\ job[w] # Idle
  /\ mode[job[w]] = "stream"
  /\ \E e \in NextEvents(progress[job[w]]) :
       IF e = "done"
       THEN /\ channel' = [channel EXCEPT ![job[w]] = @ \o <<e, "END">>]
            /\ job' = [job EXCEPT ![w] = Idle]
       ELSE /\ channel' = [channel EXCEPT ![job[w]] = Append(@, e)]
            /\ UNCHANGED job
  /\ progress' = [progress EXCEPT ![job[w]] = @ + 1]
  /\ UNCHANGED <<mode, queue, putters, future>>

\* An end mark that is sent only when the engine did not raise.
HandleStreamErrorNoMark(w) ==
  /\ job[w] # Idle
  /\ mode[job[w]] = "stream"
  /\ progress[job[w]] <= 1
  /\ job' = [job EXCEPT ![w] = Idle]
  /\ UNCHANGED <<mode, queue, putters, future, channel, progress>>

\* _handle_stream: run_stream raised; the end mark is sent all the same.
HandleStreamError(w) ==
  /\ job[w] # Idle
  /\ mode[job[w]] = "stream"
  /\ progress[job[w]] <= 1
  /\ channel' = [channel EXCEPT ![job[w]] = Append(@, "END")]
  /\ job' = [job EXCEPT ![w] = Idle]
  /\ UNCHANGED <<mode, queue, putters, future, progress>>

\* submit_stream: event = await token_queue.get().
Read(c) ==
  /\ channel[c] # <<>>
  /\ channel' = [channel EXCEPT ![c] = Tail(@)]
  /\ UNCHANGED <<mode, queue, putters, job, future, progress>>

Worker(w) ==
  Take(w) \/ HandleChat(w) \/ HandleEvent(w) \/ HandleStreamError(w)

\* The promise of the queue, stated without its order and its channels.
Service ==
  INSTANCE BoundedService WITH
    waiting <- {queue[i] : i \in DOMAIN queue},
    serving <- {job[w] : w \in Workers} \ {Idle},
    MaxWaiting <- QueueMax,
    Servers <- Workers
==============================================================================
