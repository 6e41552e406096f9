------------------------------ MODULE MCKnowledge ------------------------------
(* Instances of KnowledgeBase for TLC. *)
EXTENDS KnowledgeBase, TLC
CONSTANTS a, b, d1, d2, d3
MCWords == {a, b}
MCWordsOf == (d1 :> <<{a}, {a, b}>>) @@ (d2 :> <<{b}>>) @@ (d3 :> <<{a}>>)
MCDefaults == <<d3>>
MCFiles == {
  [key |-> "one", docs |-> <<d1>>],
  [key |-> "one", docs |-> <<d2>>],
  [key |-> "both", docs |-> <<d1, d2>>],
  [key |-> "twice", docs |-> <<d2, d2>>],
  [key |-> "bad", docs |-> <<d1, Malformed>>]}
================================================================================
