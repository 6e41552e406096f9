---------------------------- MODULE CouponReconcile ----------------------------
(***************************************************************************)
(* coupon_reconcile, run by hand as a process of its own: a snapshot of    *)
(* the orders stuck in 'claimed', then for each in id order the same       *)
(* confirmation or release as the worker, while the API process, the       *)
(* scanner and the worker keep running.                                    *)
(***************************************************************************)
EXTENDS CouponState

recFrame == <<owner, leads, outboxVars, queue, claimVars, leadVars, scanVars, workerVars>>

IsCurrent(o) == o \in recBatch /\ \A p \in recBatch : o <= p

\* On to the next order of the snapshot, or the end.
NextOfBatch(o) ==
    /\ recBatch' = recBatch \ {o}
    /\ recPc' = IF recBatch = {o} THEN "idle" ELSE "check"

\* find_stuck_orders; how old an order is, is left open.
RecStart ==
    /\ recPc = "idle"
    /\ Spend({"reconcile"})
    /\ recBatch' = {o \in Orders : status[o] = "claimed"}
    /\ recBatch' # {}
    /\ recPc' = "check"
    /\ UNCHANGED <<recFrame, redisVars, status, ledgerVars>>

RecCheck ==
    /\ recPc = "check"
    /\ \E o \in recBatch :
         IsCurrent(o) /\ recPc' = IF HasLead(o) THEN "confirm" ELSE "release"
    /\ UNCHANGED <<recFrame, redisVars, status, ledgerVars, recBatch, faults>>

\* _reconcile_lead.
RecConfirm ==
    /\ recPc = "confirm"
    /\ \E o \in recBatch :
         /\ IsCurrent(o)
         /\ ConfirmLeadAndDeduct(o)
         /\ leadMark' = IF ConfirmSucceeds(o) THEN leadMark \cup {owner[o]} ELSE leadMark
         /\ NextOfBatch(o)
    /\ UNCHANGED <<recFrame, stock, claimed, faults>>

\* _reconcile_release, the MySQL half: unlike the worker, it stops when
\* release_order_only returns False.
RecRelease ==
    /\ recPc = "release"
    /\ \E o \in recBatch :
         /\ IsCurrent(o)
         /\ ReleaseOrderOnly(o)
         /\ \/ ReleaseSucceeds(o) /\ recPc' = "lua" /\ UNCHANGED recBatch
            \/ ~ReleaseSucceeds(o) /\ NextOfBatch(o)
    /\ UNCHANGED <<recFrame, redisVars, ledgerVars, faults>>

\* _reconcile_release, the Redis half.
RecLua ==
    /\ recPc = "lua"
    /\ \E o \in recBatch : IsCurrent(o) /\ LuaRelease(owner[o]) /\ NextOfBatch(o)
    /\ UNCHANGED <<recFrame, leadMark, status, ledgerVars, faults>>

\* A transaction returns False ("db_error") or the script fails: next order.
RecSkip ==
    /\ \/ recPc \in {"confirm", "release"} /\ Spend({"db"})
       \/ recPc = "lua" /\ Spend({"redis"})
    /\ \E o \in recBatch : IsCurrent(o) /\ NextOfBatch(o)
    /\ UNCHANGED <<recFrame, redisVars, status, ledgerVars>>

\* A query raises (or the operator interrupts): the process ends.
RecDies ==
    /\ recPc # "idle"
    /\ Spend({"db"})
    /\ recPc' = "idle" /\ recBatch' = {}
    /\ UNCHANGED <<recFrame, redisVars, status, ledgerVars>>

RecStep == RecCheck \/ RecConfirm \/ RecRelease \/ RecLua

RecFault == RecSkip \/ RecDies

=============================================================================
