----------------------------- MODULE CouponClaim -----------------------------
(***************************************************************************)
(* POST /coupon/claim: CouponManager.claim.  A request reserves in Redis,  *)
(* then inserts the order and its outbox row in MySQL, and rolls Redis     *)
(* back when MySQL refuses.  Other handlers run at every await: before the *)
(* duplicate SELECT, between it and the COMMIT, and before the rollback.   *)
(***************************************************************************)
EXTENDS CouponState

claimFrame == <<leadMark, leads, ledgerVars, queue, leadVars, scanVars, workerVars, recVars>>

\* BOUND: requests in flight can all still insert their order.
RoomForOrder ==
    Cardinality({o \in Orders : status[o] # "none"})
      + Cardinality({r \in Requests : claimPc[r] # "idle"}) < MaxOrders

Goto(r, pc) == claimPc' = [claimPc EXCEPT ![r] = pc]

\* _lua_claim.  A request that finds the key or no stock returns unchanged.
ClaimReserve(r) ==
    /\ claimPc[r] = "idle"
    /\ RoomForOrder
    /\ LuaClaim(r[1])
    /\ Goto(r, "select")
    /\ UNCHANGED <<claimFrame, owner, status, outboxVars, faults>>

\* MUTANT: no duplicate check in MySQL.
ClaimSelectBlind(r) ==
    /\ claimPc[r] = "select"
    /\ Goto(r, "insert")
    /\ UNCHANGED <<claimFrame, stock, claimed, owner, status, outboxVars, faults>>

\* claim_in_transaction: SELECT ... WHERE status IN ('claimed', 'lead_submitted').
ClaimSelect(r) ==
    /\ claimPc[r] = "select"
    /\ Goto(r, IF ActiveOrders(r[1]) = {} THEN "insert" ELSE "rollback")
    /\ UNCHANGED <<claimFrame, stock, claimed, owner, status, outboxVars, faults>>

\* claim_in_transaction: both INSERTs and the COMMIT that publishes them.
ClaimInsert(r) ==
    /\ claimPc[r] = "insert"
    /\ \E o \in Orders :
         /\ NextOrder(o)
         /\ owner' = [owner EXCEPT ![o] = r[1]]
         /\ status' = [status EXCEPT ![o] = "claimed"]
         /\ outbox' = [outbox EXCEPT ![o] = "init"]
    /\ Goto(r, "idle")
    /\ UNCHANGED <<claimFrame, stock, claimed, retries, faults>>

\* The transaction raises and is rolled back: ("db_error").
ClaimDbError(r) ==
    /\ claimPc[r] \in {"select", "insert"}
    /\ Spend({"db"})
    /\ Goto(r, "rollback")
    /\ UNCHANGED <<claimFrame, stock, claimed, owner, status, outboxVars>>

\* _lua_rollback after "duplicate" or "db_error".
ClaimRollback(r) ==
    /\ claimPc[r] = "rollback"
    /\ LuaRollback(r[1])
    /\ Goto(r, "idle")
    /\ UNCHANGED <<claimFrame, owner, status, outboxVars, faults>>

\* The reservation is left behind: no connection from the pool (raised outside
\* the transaction's try), or the rollback script fails (logged only).
ClaimAbandon(r) ==
    /\ \/ claimPc[r] = "select" /\ Spend({"db"})
       \/ claimPc[r] = "rollback" /\ Spend({"redis"})
    /\ Goto(r, "idle")
    /\ UNCHANGED <<claimFrame, stock, claimed, owner, status, outboxVars>>

ClaimStep(r) == ClaimSelect(r) \/ ClaimInsert(r) \/ ClaimRollback(r)

ClaimFault(r) == ClaimDbError(r) \/ ClaimAbandon(r)

=============================================================================
