--------------------------- MODULE ReservationLedger ---------------------------
(***************************************************************************)
(* What the Redis side of the coupon system promises, without orders,      *)
(* messages or handlers: a pool of Total reservations, of which a user     *)
(* holds at most one.  A unit is free, held by a user, or lapsed (its key  *)
(* expired and nobody returned the unit).                                  *)
(***************************************************************************)
EXTENDS Integers, FiniteSets

CONSTANTS Users, Total

VARIABLES free, held, lapsed

ledger == <<free, held, lapsed>>

Init == free = Total /\ held = {} /\ lapsed = 0

Reserve(u) ==
    /\ u \notin held /\ free > 0
    /\ free' = free - 1
    /\ held' = held \cup {u}
    /\ UNCHANGED lapsed

Return(u) ==
    /\ u \in held
    /\ free' = free + 1
    /\ held' = held \ {u}
    /\ UNCHANGED lapsed

Lapse(u) ==
    /\ u \in held
    /\ held' = held \ {u}
    /\ lapsed' = lapsed + 1
    /\ UNCHANGED free

Next == \E u \in Users : Reserve(u) \/ Return(u) \/ Lapse(u)

Spec == Init /\ [][Next]_ledger

=============================================================================
