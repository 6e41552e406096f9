-------------------------------- MODULE MCChat --------------------------------
(* Instances of ChatEndpoints for TLC. *)
EXTENDS ChatEndpoints
CONSTANTS u1, w1
MCUsers == {u1}
MCWorkers == {w1}
MCGaps == {1, 2, 3}
===============================================================================
