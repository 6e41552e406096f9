---------------------------- MODULE ConversationTurn ----------------------------
(***************************************************************************)
(* The turns of one conversation: AgentEngine.run and run_stream           *)
(* (agents/orchestrator.py:452-585), from the reading of the history to    *)
(* the writing of the answer (api/main.py:348-395), with the planner, the  *)
(* slots, the skills and the coupon decision.                              *)
(*                                                                         *)
(* Turns of one conversation run in several workers of one event loop.  A  *)
(* turn is interrupted only where it awaits the LLM or its tools; Redis    *)
(* and ChromaDB are called without suspending, so that everything from the *)
(* planner's answer to the tools is one step.                              *)
(***************************************************************************)
EXTENDS SlotManager, SkillRegistry, Planner

CONSTANTS
  MaxTurns,     \* BOUND: messages of the conversation, numbered as they come in
  Workers,      \* workers of the queue
  Bucket,       \* the user's bucket, md5(user_id) % 100, or NoBucket
  HistoryMax,   \* messages of the history a turn is given (5)
  MinRounds,    \* MIN_ROUNDS (2)
  Earlier,      \* BOUND: answers recorded before these turns
  MaxNotices    \* BOUND: coupon time-out notices in this conversation

ASSUME TurnAssumption ==
  /\ MaxTurns \in Nat /\ Workers \in Nat \ {0} /\ Bucket \in 0 .. NoBucket
  /\ HistoryMax \in Nat /\ MinRounds \in Nat
  /\ Earlier \in Nat /\ MaxNotices \in Nat
  /\ \A x \in Texts : x.ops \in Seq(Ops)
  /\ \A p \in LlmAnswers :
       /\ {"intent", "tasks", "ops", "emotion"} = DOMAIN p
       /\ p.ops \in Seq(Ops)

VARIABLES
  turn,       \* the turns; history: a failed one keeps the plan whose slots it wrote
  messages,   \* messages in the working memory, up to HistoryMax
  notices,    \* notices among them, ever
  answered    \* history: turns recorded, in part at least, since the memory
              \* was last emptied

vars == <<slotVars, registry, fewshot, turn, messages, notices, answered>>

Turns == 1 .. MaxTurns
NoPlan == [intent |-> "", tasks |-> {}, ops |-> <<>>, emotion |-> ""]
Idle ==
  [pc |-> "idle", seen |-> Unset, round |-> 0, before |-> 0, plan |-> NoPlan,
   completed |-> {}, pending |-> {}, blind |-> FALSE, coupon |-> FALSE]
Capped(n) == IF n > HistoryMax THEN HistoryMax ELSE n
Thinking == {"call", "retry", "fix"}
Running(t) == turn[t].pc \notin {"idle", "done", "failed"}

\* Every variable keeps its type.  A plan names a known intent and a known
\* emotion (to_planner_output, intent_recognizer.py:123-153), and a turn
\* completes or postpones skills of its plan or of the auto-evaluated ones only.
TypeOK ==
  /\ IsHash(slots)
  /\ backend \in {"redis", "memory"}
  /\ RegistryTypeOK
  /\ fewshot \in FewshotStates
  /\ messages \in 0 .. HistoryMax
  /\ notices \in 0 .. MaxNotices
  /\ answered \in 0 .. Earlier + MaxTurns
  /\ \A t \in Turns :
       /\ turn[t].pc \in Thinking \cup {"idle", "queued", "tools", "reply", "done", "failed"}
       /\ IsHash(turn[t].seen)
       /\ turn[t].round \in 0 .. HistoryMax + 1
       /\ turn[t].plan # NoPlan =>
            turn[t].plan.intent \in KeywordIntents /\ turn[t].plan.emotion \in Emotions
       /\ turn[t].completed \cap turn[t].pending = {}
       /\ turn[t].completed \cup turn[t].pending \subseteq SkillNames

Init ==
  /\ slots = Unset
  /\ backend \in {"redis", "memory"}
  /\ registry \in Registries
  /\ fewshot = "unset"
  /\ turn = [t \in Turns |-> Idle]
  /\ answered \in 0 .. Earlier
  /\ messages = Capped(2 * answered)
  /\ notices = 0

\* A message comes in: its history is read, and it waits for a worker.
Arrive(t) ==
  /\ turn[t].pc = "idle"
  /\ \A u \in Turns : u < t => turn[u].pc # "idle"
  /\ turn' = [turn EXCEPT ![t].pc = "queued",
                          ![t].round = (messages \div 2) + 1,
                          ![t].before = answered]
  /\ UNCHANGED <<slotVars, registry, fewshot, messages, notices, answered>>

Fail(t) == turn' = [turn EXCEPT ![t] = [Idle EXCEPT !.pc = "failed"]]

\* A worker takes the turn, reads the slots for the prompt and calls the LLM; a
\* failure of Redis ends the turn.
Begin(t) ==
  /\ turn[t].pc = "queued"
  /\ Cardinality({u \in Turns : Running(u) /\ turn[u].pc # "queued"}) < Workers
  /\ \/ turn' = [turn EXCEPT ![t].pc = "call", ![t].seen = AllSlots]
     \/ backend = "redis" /\ Fail(t)
  /\ UNCHANGED <<slotVars, registry, fewshot, messages, notices, answered>>

\* Operations applied to the slots read for the prompt.
SlotsAfterStale(t, ops) ==
  IF backend = "redis" THEN ApplyRedis(turn[t].seen, ops) ELSE ApplyMemory(ops)

\* The slots a turn works with once its operations are applied.
SlotsAfter(t, ops) == IF backend = "redis" THEN ApplyRedis(slots, ops) ELSE ApplyMemory(ops)

\* Orchestrator.orchestrate up to its await: apply the operations, read the
\* slots back, resolve and check every task, and go on to the tools if a
\* completed skill needs any.
Orchestrate(t, plan, blind) ==
  LET after == SlotsAfter(t, plan.ops)
      tasks == (plan.tasks \cup AutoEvaluated) \cap DOMAIN registry
      skill(n) == Resolve(registry[n], Bucket)
      completed == {n \in tasks : Check(skill(n), after, Null)}
  IN  /\ UNCHANGED backend
      /\ slots' = IF backend = "redis" THEN after ELSE slots
      /\ turn' = [turn EXCEPT ![t] = [@ EXCEPT
           !.pc = IF \E n \in completed : skill(n).tools # {} THEN "tools" ELSE "reply",
           !.seen = Unset, !.plan = plan, !.completed = completed,
           !.pending = tasks \ completed, !.blind = blind]]

\* Redis fails once it has the operations, at its answer or when the slots are
\* read back: the error leaves the turn, its slots are written.
FailWritten(t, plan) ==
  /\ backend = "redis"
  /\ slots' = SlotsAfter(t, plan.ops)
  /\ turn' = [turn EXCEPT ![t] = [Idle EXCEPT !.pc = "failed", !.plan = plan]]
  /\ UNCHANGED backend

\* The rules take over.  A failure of ChromaDB outside its try blocks, or of
\* Redis before it has the operations, ends the turn with an error.
FallBack(t) ==
  \/ /\ fewshot' \in Prepared
     /\ \E x \in Texts, state \in {fewshot', "off"} :
          \E plan \in FallbackPlans[x][state] :
            Orchestrate(t, plan, state = "off") \/ FailWritten(t, plan)
  \/ /\ fewshot' \in Broken
     /\ Fail(t)
     /\ UNCHANGED slotVars

\* The LLM's plan is carried out, or Redis fails before it has the operations.
Planned(t) ==
  /\ UNCHANGED fewshot
  /\ \/ \E p \in LlmAnswers :
          Orchestrate(t, Coerced(p), FALSE) \/ FailWritten(t, Coerced(p))
     \/ backend = "redis" /\ Fail(t) /\ UNCHANGED slotVars

\* The first call fails: once more, with the whole context.
CallFails(t) ==
  /\ turn[t].pc = "call"
  /\ turn' = [turn EXCEPT ![t].pc = "retry"]
  /\ UNCHANGED <<slotVars, fewshot>>

CallAnswers(t) == turn[t].pc \in {"call", "retry"} /\ Planned(t)

\* The answer is not the JSON it should be: the LLM is asked to mend it.
CallGarbles(t) ==
  /\ turn[t].pc \in {"call", "retry"}
  /\ turn' = [turn EXCEPT ![t].pc = "fix"]
  /\ UNCHANGED <<slotVars, fewshot>>

RetryFails(t) == turn[t].pc = "retry" /\ FallBack(t)

FixAnswers(t) == turn[t].pc = "fix" /\ Planned(t)

\* A failed repair starts the planning again.
FixFailsReplans(t) ==
  /\ turn[t].pc = "fix"
  /\ turn' = [turn EXCEPT ![t].pc = "call"]
  /\ UNCHANGED <<slotVars, fewshot>>

FixFails(t) == turn[t].pc = "fix" /\ FallBack(t)

Plans(t) ==
  /\ turn[t].pc \in Thinking
  /\ UNCHANGED <<registry, messages, notices, answered>>
  /\ \/ CallAnswers(t) \/ CallFails(t) \/ CallGarbles(t) \/ RetryFails(t)
     \/ FixAnswers(t) \/ FixFails(t)

\* One round too early.
ShouldIssueSooner(round, plan) ==
  /\ round >= MinRounds
  /\ plan.tasks \cap {"PRICE", "PRODUCT"} # {}
  /\ plan.emotion \in {"positive", "neutral"}

\* CouponDecider.should_issue.
ShouldIssue(round, plan) ==
  /\ round > MinRounds
  /\ plan.tasks \cap {"PRICE", "PRODUCT"} # {}
  /\ plan.emotion \in {"positive", "neutral"}

\* The tools have answered, with or without a result, or one of them raised
\* where nothing catches it: on a slot value or a weather report of another form.
ToolsEnd(t) ==
  /\ turn[t].pc = "tools"
  /\ turn' = [turn EXCEPT ![t].pc = "reply"] \/ Fail(t)
  /\ UNCHANGED <<slotVars, registry, fewshot, messages, notices, answered>>

\* The reply, or the apology for it, is there; the coupon is shown with it if
\* the rule says so.  The message and the reply are recorded, but a failure of
\* the memory, which nobody sees, may lose one of them or both.
Reply(t) ==
  /\ turn[t].pc = "reply"
  /\ turn' = [turn EXCEPT ![t] = [Idle EXCEPT
       !.pc = "done", !.before = turn[t].before, !.blind = turn[t].blind,
       !.coupon = ShouldIssue(turn[t].round, turn[t].plan)]]
  /\ \/ /\ \E recorded \in {1, 2} : messages' = Capped(messages + recorded)
        /\ answered' = answered + 1
     \/ UNCHANGED <<messages, answered>>
  /\ UNCHANGED <<slotVars, registry, fewshot, notices>>

\* The worker writes a notice for a coupon that timed out (coupon_worker.py:271-297).
Notice ==
  /\ notices < MaxNotices
  /\ notices' = notices + 1
  /\ messages' = Capped(messages + 1)
  /\ UNCHANGED <<slotVars, registry, fewshot, turn, answered>>

\* The conversation's memory is cleared, or a day passes without a message.
Forget ==
  /\ messages > 0
  /\ messages' = 0
  /\ answered' = 0
  /\ UNCHANGED <<slotVars, registry, fewshot, turn, notices>>

Expire ==
  /\ SlotsExpire
  /\ UNCHANGED <<registry, fewshot, turn, messages, notices, answered>>

\* The process starts again: its turns are gone, the skill files are read anew.
Restart ==
  /\ turn' = [t \in Turns |-> IF Running(t) THEN [Idle EXCEPT !.pc = "failed"] ELSE turn[t]]
  /\ registry' \in Registries
  /\ backend' \in {"redis", "memory"}
  /\ fewshot' = "unset"
  /\ UNCHANGED <<slots, messages, notices, answered>>

TurnStep(t) == Begin(t) \/ Plans(t) \/ ToolsEnd(t) \/ Reply(t)

Next ==
  \/ \E t \in Turns : Arrive(t) \/ TurnStep(t)
  \/ Notice \/ Forget \/ Expire \/ Restart

\* The LLM client and the tools have time-outs, and the workers take the queue
\* in turn, so that no turn waits for ever.
Fairness == \A t \in Turns : WF_vars(TurnStep(t))

Spec == Init /\ [][Next]_vars /\ Fairness

\* orchestrator.py:469-479 reads the slots for the prompt, awaits the planner and
\* writes afterwards: a turn may change only the slots its own plan names, also
\* when it fails after the write (127-129), so that what another turn has set
\* meanwhile is never lost.
NoLostSlot ==
  [][\A s \in Slots :
       LET value(h) == IF s \in DOMAIN h THEN <<h[s]>> ELSE <<>>
       IN  value(slots) # value(slots') =>
             \/ slots' = Unset /\ turn' = turn
             \/ \E t \in Turns :
                  /\ turn[t].pc \in Thinking /\ turn'[t].pc \in {"tools", "reply", "failed"}
                  /\ \E k \in DOMAIN turn'[t].plan.ops : turn'[t].plan.ops[k].slot = s]_vars

\* coupon_decider.py:73 with orchestrator.py:476 and the cut history: a coupon is
\* shown only if MIN_ROUNDS turns had been answered and remembered before this
\* one began, whatever turns overlapped, failed or were forgotten; only notices of
\* the coupon worker may take the place of answers.
CouponAfterTwoRounds ==
  \A t \in Turns : turn[t].coupon => turn[t].before >= MinRounds \/ notices > 0

\* planner_fallback.py:169-182 with 204-281: when the LLM fails and there are no
\* examples to compare with, keywords alone never reach the threshold, however
\* many of them a message holds, although 138, 232 and 401 announce a fallback to
\* keywords.  Such a turn is small talk: it attempts nothing but the skills of
\* small talk and those that are attempted always, and offers no coupon.
KeywordsDecideNothing ==
  \A t \in Turns : turn[t].blind =>
    /\ turn[t].plan.intent \in {"", "greeting", "chitchat"}
    /\ turn[t].completed \cup turn[t].pending \subseteq {"GREETING", "WEATHER"} \cup AutoEvaluated
    /\ ~turn[t].coupon

\* Planner.plan and the orchestrator: whatever the LLM answers, and however often
\* the process fails, a turn that has come in ends.
EveryTurnEnds == \A t \in Turns : Running(t) ~> ~Running(t)
================================================================================
