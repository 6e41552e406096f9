------------------------------ MODULE CouponLead ------------------------------
(***************************************************************************)
(* POST /coupon/lead: the user leaves name and phone.  The handler checks  *)
(* the Redis key, looks the order up, inserts the lead and moves the order *)
(* in three separate transactions, then sets the Redis mark and answers    *)
(* "locked".  Every MySQL failure is logged and the handler goes on.       *)
(***************************************************************************)
EXTENDS CouponState

leadFrame == <<stock, claimed, owner, outboxVars, ledgerVars, queue, claimVars,
            scanVars, workerVars, recVars>>

LeadGoto(u, pc, o) ==
    /\ leadPc' = [leadPc EXCEPT ![u] = pc]
    /\ leadOrder' = [leadOrder EXCEPT ![u] = o]

\* check_claimed; without the key the answer is 400.
LeadCheck(u) ==
    /\ leadPc[u] = "idle"
    /\ u \in claimed
    /\ LeadGoto(u, "find", 0)
    /\ UNCHANGED <<leadFrame, leadMark, status, leads, faults>>

\* MUTANT: the handler does not look whether an order was found.
LeadFindUnchecked(u) ==
    /\ leadPc[u] = "find"
    /\ \/ \E o \in ActiveOrders(u) : LeadGoto(u, "insert", o)
       \/ ActiveOrders(u) = {} /\ LeadGoto(u, "insert", 0)
    /\ UNCHANGED <<leadFrame, leadMark, status, leads, faults>>

\* find_order_by_user_id returns one active order, or none: then MySQL is
\* left alone and the handler goes straight to the Redis mark.
LeadFind(u) ==
    /\ leadPc[u] = "find"
    /\ \/ \E o \in ActiveOrders(u) : LeadGoto(u, "insert", o)
       \/ ActiveOrders(u) = {} /\ LeadGoto(u, "mark", 0)
    /\ UNCHANGED <<leadFrame, leadMark, status, leads, faults>>

\* insert_lead, its own transaction.  A second row of the order adds nothing
\* the code tells apart.
LeadInsert(u) ==
    /\ leadPc[u] = "insert"
    /\ leads' = leads \cup {leadOrder[u]}
    /\ LeadGoto(u, "update", leadOrder[u])
    /\ UNCHANGED <<leadFrame, leadMark, status, faults>>

\* update_order_status(order_id, "lead_submitted"): WHERE id only, whatever
\* the order's status has become.
LeadUpdate(u) ==
    /\ leadPc[u] = "update"
    /\ status' = [status EXCEPT ![leadOrder[u]] = "lead_submitted"]
    /\ LeadGoto(u, "mark", 0)
    /\ UNCHANGED <<leadFrame, leadMark, leads, faults>>

\* Any of the three MySQL calls raises; the except clause logs and goes on.
LeadDbError(u) ==
    /\ leadPc[u] \in {"find", "insert", "update"}
    /\ Spend({"db"})
    /\ LeadGoto(u, "mark", 0)
    /\ UNCHANGED <<leadFrame, leadMark, status, leads>>

\* set_lead_submitted and the answer "locked".
LeadMark(u) ==
    /\ leadPc[u] = "mark"
    /\ leadMark' = leadMark \cup {u}
    /\ LeadGoto(u, "idle", 0)
    /\ UNCHANGED <<leadFrame, status, leads, faults>>

\* set_lead_submitted returns False: the answer is 500.
LeadMarkFails(u) ==
    /\ leadPc[u] = "mark"
    /\ Spend({"redis"})
    /\ LeadGoto(u, "idle", 0)
    /\ UNCHANGED <<leadFrame, leadMark, status, leads>>

LeadStep(u) == LeadFind(u) \/ LeadInsert(u) \/ LeadUpdate(u) \/ LeadMark(u)

LeadFault(u) == LeadDbError(u) \/ LeadMarkFails(u)

=============================================================================
