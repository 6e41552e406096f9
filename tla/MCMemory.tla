------------------------------- MODULE MCMemory -------------------------------
(* Instances of ConversationMemory for TLC. *)
EXTENDS ConversationMemory
CONSTANTS t1, t2, p1, p2
MCWriters == {t1, t2}
MCUpdaters == {p1, p2}
===============================================================================
