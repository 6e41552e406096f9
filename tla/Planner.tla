-------------------------------- MODULE Planner --------------------------------
(***************************************************************************)
(* What a turn may be understood as (core/intent_recognizer.py), and the   *)
(* rules that stand in for the LLM (core/planner_fallback.py).             *)
(*                                                                         *)
(* A text is what those rules can see of a message: how many keywords of   *)
(* an intent it holds, how similar (in percent) it is to the examples of   *)
(* an intent, the slots its patterns find, and whether it is a short       *)
(* greeting.                                                               *)
(***************************************************************************)
EXTENDS Naturals, Sequences, FiniteSets

CONSTANTS
  Texts,      \* BOUND: messages, as the rules see them
  LlmAnswers  \* BOUND: well-formed answers of the planning LLM

Intents == {"greeting", "product_inq", "price_inq", "purchase", "complaint", "chitchat"}
KeywordIntents == Intents \cup {"contact_give", "contact_no"}
Emotions == {"positive", "neutral", "skeptical", "anxious", "negative"}

\* What the keyword lists, the embeddings and the LLM's JSON can be.
ASSUME PlannerAssumption ==
  /\ \A x \in Texts :
       /\ x.hits \in [KeywordIntents -> Nat]
       /\ x.similar \in [Intents -> 0 .. 100]
       /\ x.hello \in BOOLEAN

SimWeight == 60
KwWeight == 40
MedConf == 55

VARIABLE fewshot   \* the fallback's examples: "unset" before its first use,
                   \* "off", "unmapped" or "ready" after it

FewshotStates == {"unset", "off", "unmapped", "ready"}

\* The emotion is taken as it comes.
CoercedIntentOnly(p) ==
  [p EXCEPT !.intent = IF @ \in Intents THEN @ ELSE "chitchat"]

\* to_planner_output: an unknown intent or emotion becomes the harmless one.
Coerced(p) ==
  [p EXCEPT !.intent = IF @ \in Intents THEN @ ELSE "chitchat",
            !.emotion = IF @ \in Emotions THEN @ ELSE "neutral"]

SubTasks(i) ==
  CASE i = "product_inq" -> {"PRODUCT"}
    [] i = "price_inq" -> {"PRICE"}
    [] i = "purchase" -> {"PURCHASE"}
    [] i = "complaint" -> {"COMPLAINT"}
    [] i = "chitchat" -> {"GREETING", "WEATHER"}
    [] OTHER -> {"GREETING"}

\* _ensure_fewshot at the first use: no client or nothing written, or the
\* examples with their intents.  A read that raises leaves the examples of an
\* earlier process without their intents, and is not repeated; the count before
\* a comparison raises whatever the first use has prepared.
Prepared == IF fewshot = "unset" THEN {"off", "ready"} ELSE {fewshot}
Broken == IF fewshot = "unset" THEN FewshotStates \ {"unset"} ELSE {fewshot}

\* _semantic_scores: the best similarity per intent; examples whose intent is
\* unknown all count for "chitchat".
Similarity(x, state, i) ==
  CASE state = "ready" -> x.similar[i]
    [] state = "unmapped" /\ i = "chitchat" ->
         CHOOSE s \in {x.similar[j] : j \in Intents} : \A j \in Intents : x.similar[j] <= s
    [] OTHER -> 0

\* _keyword_scores: one hit is half the score, two are all of it.
KeywordScore(x, i) == IF x.hits[i] >= 2 THEN 100 ELSE 50 * x.hits[i]

\* The two weights exchanged.
ScoreSwapped(x, state, i) ==
  KwWeight * (IF i \in Intents THEN Similarity(x, state, i) ELSE 0)
    + SimWeight * KeywordScore(x, i)

\* _fuse, in hundredths of a percent.
Score(x, state, i) ==
  SimWeight * (IF i \in Intents THEN Similarity(x, state, i) ELSE 0)
    + KwWeight * KeywordScore(x, i)

Scores(x, state) == [i \in KeywordIntents |-> Score(x, state, i)]

\* The intents that may come first; equal scores come in any order.
Leaders(scores) == {i \in KeywordIntents : \A j \in KeywordIntents : scores[j] <= scores[i]}

Plan(i, ops) ==
  [intent |-> i, tasks |-> SubTasks(i), ops |-> ops, emotion |-> "neutral"]

\* PlannerFallback.plan: the leading intent if its score is high enough, else a
\* short greeting, else a city (weather), else a greeting without any slot.
FallbackPlans ==
  [x \in Texts |-> [state \in FewshotStates |->
    LET scores == Scores(x, state)
        sure(i) == scores[i] >= 100 * MedConf
        city == \E k \in DOMAIN x.ops : x.ops[k].slot = "location"
    IN  {CASE sure(i) -> Plan(i, x.ops)
           [] ~sure(i) /\ x.hello -> Plan("greeting", x.ops)
           [] ~sure(i) /\ ~x.hello /\ city -> Plan("chitchat", x.ops)
           [] OTHER -> Plan("greeting", <<>>) : i \in Leaders(scores)}]]
================================================================================
