---------------------------- MODULE BoundedService ----------------------------
(***************************************************************************)
(* What core/work_queue.py promises of every call it accepts: at most      *)
(* MaxWaiting calls wait, at most one per worker is served at a time, no   *)
(* call is in two hands, and an accepted call is served to its end         *)
(* whatever its caller does meanwhile.                                     *)
(***************************************************************************)
EXTENDS Naturals, FiniteSets

CONSTANTS Calls, Servers, MaxWaiting

VARIABLES
  waiting,  \* accepted calls that no worker has taken
  serving   \* calls in the hands of a worker

vars == <<waiting, serving>>

Init == waiting = {} /\ serving = {}

Accept(c) ==
  /\ c \notin waiting \cup serving
  /\ Cardinality(waiting) < MaxWaiting
  /\ waiting' = waiting \cup {c}
  /\ UNCHANGED serving

Serve(c) ==
  /\ c \in waiting
  /\ Cardinality(serving) < Cardinality(Servers)
  /\ waiting' = waiting \ {c}
  /\ serving' = serving \cup {c}

Finish(c) ==
  /\ c \in serving
  /\ serving' = serving \ {c}
  /\ UNCHANGED waiting

Next == \E c \in Calls : Accept(c) \/ Serve(c) \/ Finish(c)

Spec == Init /\ [][Next]_vars /\ \A c \in Calls : WF_vars(Finish(c))
===============================================================================
