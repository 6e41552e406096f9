-------------------------------- MODULE MCTurns --------------------------------
\* Instance of ConversationTurn: two messages of one conversation, two workers,
\* two slots, and a skill PRICE whose second version is rolled out.
EXTENDS ConversationTurn

Skill(n, v, r, needs, tools, auto) ==
  [name |-> n, version |-> v, rollout |-> r, needs |-> needs, tools |-> tools, auto |-> auto]
Greeting == Skill("GREETING", 1, 4, {}, {}, FALSE)
Price(v, r, needs) == Skill("PRICE", v, r, needs, {"rag"}, FALSE)
MCFileSets ==
  {{},
   {Greeting, Price(1, 3, {"model"}), Price(2, 2, {}),
    Skill("HELP", 1, 4, {}, {}, TRUE)}}

None == [i \in Intents |-> 0]
NoHits == [i \in KeywordIntents |-> 0]
Text(hits, similar, ops, hello) ==
  [hits |-> hits, similar |-> similar, ops |-> ops, hello |-> hello]
SetTo(s, v) == [op |-> "SET", slot |-> s, value |-> v]
MCTexts ==
  {Text([NoHits EXCEPT !["price_inq"] = 2], [None EXCEPT !["price_inq"] = 60],
        <<SetTo("model", "M9")>>, FALSE),
   Text([NoHits EXCEPT !["contact_no"] = 1], None, <<SetTo("location", "M9")>>, FALSE)}
MCLlmAnswers ==
  {[intent |-> "price_inq", tasks |-> {"PRICE"}, ops |-> <<SetTo("model", "M9")>>,
    emotion |-> "positive"],
   [intent |-> "refund", tasks |-> {"PRICE", "FINANCE"}, emotion |-> "furious",
    ops |-> <<[op |-> "DELETE", slot |-> "location", value |-> Null], SetTo("model", Null)>>]}

\* Whatever its first use has prepared, the fallback makes plans of known
\* intents with an emotion the coupon rule accepts.
ASSUME RulesMakePlans ==
  FallbackPlans \in
    [Texts -> [FewshotStates ->
       SUBSET [intent : KeywordIntents, tasks : SUBSET STRING, ops : Seq(Ops),
               emotion : {"neutral"}]]]

\* SlotManager._apply_redis one operation after the other.
OneByOne(h, ops) ==
  FoldLeft(LAMBDA g, o :
             IF o.op = "SET"
             THEN [s \in DOMAIN g \cup {o.slot} |-> IF s = o.slot THEN Serialized(o.value) ELSE g[s]]
             ELSE [s \in DOMAIN g \ {o.slot} |-> g[s]],
           h, ops)
Hashes == UNION {[d -> Values \cup {Blank}] : d \in SUBSET Slots}

\* The last operation on a slot decides, as when they are carried out in turn.
ASSUME LastOperationDecides ==
  \A h \in Hashes, ops \in BoundedSeq(Ops, 3) : ApplyRedis(h, ops) = OneByOne(h, ops)
================================================================================
