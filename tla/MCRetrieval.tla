------------------------------ MODULE MCRetrieval ------------------------------
(* Instances of Retrieval for TLC. *)
EXTENDS Retrieval, TLC
CONSTANTS a, b, d1, d2, s1, s2, q1, q2
MCWords == {a}
MCWordsOf == (d1 :> <<{a}>>) @@ (d2 :> <<{a}>>)
MCDefaults == <<d1>>
MCFiles == {[key |-> "two", docs |-> <<d2>>]}
MCSearches == {s1}
MCQueries == {q1, q2}
MCWordOf == (q1 :> a) @@ (q2 :> a)
================================================================================
