---------------------------- MODULE ChatEndpoints ----------------------------
(***************************************************************************)
(* POST /chat and POST /chat/stream (api/main.py): the limiters, the       *)
(* injection check, the memory read, the work queue and the two messages   *)
(* written to the working memory, composed with RateLimiter and WorkQueue. *)
(*                                                                         *)
(* The text of an answer is its number of tokens.  The intent log and the  *)
(* wording of the answers are left out.  The working memory itself is the  *)
(* module ConversationMemory; here it is what each call stored in it.      *)
(***************************************************************************)
EXTENDS RateLimiter, WorkQueue

CONSTANTS
  Gaps,          \* BOUND: times that may pass between two requests
  PatternsLoaded \* whether the file of injection patterns could be read

\* Two requests never read the same time.
ASSUME EndpointAssumption ==
  /\ Gaps \subseteq Nat \ {0}
  /\ PatternsLoaded \in BOOLEAN

VARIABLES
  pc,        \* call -> where its handler stands
  text,      \* call -> tokens gathered in full_response
  stored,    \* call -> what it has written to the working memory
  answer     \* call -> the text stored as its answer

endpointVars == <<pc, text, stored, answer>>
vars == <<limiterVars, queueVars, endpointVars>>

Open == {"context", "opening", "waiting", "reading", "answered",
         "done_read", "question_saved"}
Closed == {"refused", "failed", "dropped", "gone", "ended"}

EndpointTypeOK ==
  /\ pc \in [Calls -> {"new"} \cup Open \cup Closed]
  /\ text \in [Calls -> 0 .. MaxTokens]
  /\ stored \in [Calls -> {"nothing", "question", "both"}]
  /\ answer \in [Calls -> 0 .. MaxTokens]

\* Every variable of the three modules keeps its type.
TypeOK == LimiterTypeOK /\ QueueTypeOK /\ EndpointTypeOK

Init ==
  /\ LimiterInit
  /\ QueueInit
  /\ pc = [c \in Calls |-> "new"]
  /\ text = [c \in Calls |-> 0]
  /\ stored = [c \in Calls |-> "nothing"]
  /\ answer = [c \in Calls |-> 0]

Goto(c, place) == pc' = [pc EXCEPT ![c] = place]

\* InjectionDetector.check: no pattern was loaded, or none is in the message.
Clean(suspicious) == ~ (PatternsLoaded /\ suspicious)

\* The checks at the head of both handlers, up to the read of the memory: the
\* bucket, then the window of the user, then the patterns.  A refused request
\* has still taken what the checks before the refusal record.
Arrive(c) ==
  /\ pc[c] = "new"
  /\ \A d \in 1 .. c - 1 : pc[d] # "new"
  /\ \E gap \in Gaps, u \in Users, suspicious \in BOOLEAN :
       LET now == clock + gap IN
       /\ clock' = now
       /\ \/ /\ BucketRefuses(now)
             /\ UNCHANGED <<window, expires, admitted>>
             /\ Goto(c, "refused")
          \/ /\ BucketPasses(now)
             /\ WindowRefuses(u, now)
             /\ Goto(c, "refused")
          \/ /\ BucketPasses(now)
             /\ \/ WindowPasses(u, now)
                \/ WindowUnchecked(u, now)
                \/ WindowUnexpired(u, now)
             /\ Goto(c, IF Clean(suspicious) THEN "context" ELSE "refused")
  /\ UNCHANGED <<queueVars, text, stored, answer>>

\* chat: get_context answered; the handler goes on to submit() at once.  The
\* QueueFullError of a full queue leaves the handler as a server error.
ChatSubmit(c) ==
  /\ pc[c] = "context"
  /\ mode[c] = "chat"
  /\ \/ Submit(c) /\ Goto(c, "waiting")
     \/ QueueFull /\ Goto(c, "failed") /\ UNCHANGED queueVars
  /\ UNCHANGED <<limiterVars, text, stored, answer>>

\* chat: the Future was resolved.  An error of the engine is raised to the
\* caller and nothing is stored.
ChatAnswer(c) ==
  /\ pc[c] = "waiting"
  /\ \/ future[c] = "result" /\ Goto(c, "answered")
     \/ future[c] = "error" /\ Goto(c, "failed")
  /\ text' = [text EXCEPT ![c] = IF future[c] = "result" THEN MaxTokens ELSE 0]
  /\ UNCHANGED <<limiterVars, queueVars, stored, answer>>

\* chat_stream: get_context answered and the response object is returned; its
\* generator is first run later.
StreamReturn(c) ==
  /\ pc[c] = "context"
  /\ mode[c] = "stream"
  /\ Goto(c, "opening")
  /\ UNCHANGED <<limiterVars, queueVars, text, stored, answer>>

\* event_generator: the first iteration of submit_stream checks the queue.  A
\* full queue is caught and logged, and the stream ends without an event.
StreamSubmit(c) ==
  /\ pc[c] = "opening"
  /\ \/ Submit(c) /\ Goto(c, "reading")
     \/ QueueFull /\ Goto(c, "dropped") /\ UNCHANGED queueVars
  /\ UNCHANGED <<limiterVars, text, stored, answer>>

\* A generator that counts a token only after it was sent on.
TextAfterLate(c, event) == text[c]

\* full_response after an event.
TextAfter(c, event) == IF event = "token" THEN text[c] + 1 ELSE text[c]

\* event_generator: one event of the token queue.
StreamRead(c) ==
  /\ pc[c] = "reading"
  /\ Read(c)
  /\ text' = [text EXCEPT ![c] = TextAfter(c, Head(channel[c]))]
  /\ Goto(c, CASE Head(channel[c]) = "done" -> "done_read"
               [] Head(channel[c]) = "END" -> "ended"
               [] OTHER -> "reading")
  /\ UNCHANGED <<limiterVars, stored, answer>>

\* Both: add_message of the user's message.  It may await a compression.
SaveQuestion(c) ==
  /\ pc[c] \in {"answered", "done_read"}
  /\ stored' = [stored EXCEPT ![c] = "question"]
  /\ Goto(c, "question_saved")
  /\ UNCHANGED <<limiterVars, queueVars, text, answer>>

\* Both: add_message of the answer, and the task that updates the profile.  A
\* plain call returns; a stream sends done on and waits for the end mark.
SaveAnswer(c) ==
  /\ pc[c] = "question_saved"
  /\ stored' = [stored EXCEPT ![c] = "both"]
  /\ answer' = [answer EXCEPT ![c] = text[c]]
  /\ Goto(c, IF mode[c] = "chat" THEN "ended" ELSE "reading")
  /\ UNCHANGED <<limiterVars, queueVars, text>>

\* The handler is cancelled where it awaits: a stream when its client closes
\* the connection, a plain call when the server shuts down.
Leave(c) ==
  /\ pc[c] \in Open
  /\ Goto(c, "gone")
  /\ IF pc[c] = "waiting" THEN CancelFuture(c) ELSE UNCHANGED queueVars
  /\ UNCHANGED <<limiterVars, text, stored, answer>>

Handler(c) ==
  \/ ChatSubmit(c) \/ ChatAnswer(c)
  \/ StreamReturn(c) \/ StreamSubmit(c) \/ StreamRead(c)
  \/ SaveQuestion(c) \/ SaveAnswer(c)

WorkerStep(w) == Worker(w) /\ UNCHANGED <<limiterVars, endpointVars>>

\* No request is left and no worker has work: the service waits for more.
Quiet ==
  /\ \A c \in Calls : pc[c] \in Closed
  /\ queue = <<>>
  /\ \A w \in Workers : job[w] = Idle
  /\ UNCHANGED vars

Next ==
  \/ \E c \in Calls : Arrive(c) \/ Handler(c) \/ Leave(c)
  \/ \E w \in Workers : WorkerStep(w)
  \/ Quiet

\* The event loop runs every coroutine that can go on, and the engine returns
\* or raises: its LLM calls have a timeout.  Clients owe the service nothing.
Fairness ==
  /\ \A c \in Calls : WF_vars(Handler(c))
  /\ \A w \in Workers : WF_vars(WorkerStep(w))

Spec == Init /\ [][Next]_vars /\ Fairness

\* What is stored as the answer of a streamed call is the whole of what the
\* engine produced for it, with nothing lost between the worker, the token
\* queue and the generator (work_queue.py:168-181, main.py:502-522); progress
\* counts meta and done besides the tokens.
AnswerIsWhole ==
  \A c \in Calls : stored[c] = "both" /\ mode[c] = "stream" =>
    answer[c] + 2 = progress[c]

\* Every request that passed the checks comes to its end: the engine raising,
\* a full queue or other callers leaving cannot keep it waiting
\* (work_queue.py:129-133, 162-181).
EveryCallEnds ==
  \A c \in Calls : pc[c] \in Open ~> pc[c] \in Closed

\* The queue keeps the promise of BoundedService, whoever leaves.
ImplementsBoundedService == Service!Spec
==============================================================================
