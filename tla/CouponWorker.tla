----------------------------- MODULE CouponWorker -----------------------------
(***************************************************************************)
(* The consumer of coupon.timeout: RmqClient.consume_timeout hands every   *)
(* message to CouponWorker._handle_timeout in a task of its own (there is  *)
(* no prefetch limit), so several are handled at the same time.  A message *)
(* is acknowledged when its handler ends, by whatever path.                *)
(***************************************************************************)
EXTENDS CouponState

workFrame == <<owner, leads, outboxVars, claimVars, leadVars, scanVars, recVars>>

OrderOf(w) == workerMsg[w].order

UserOf(w) == owner[OrderOf(w)]

WorkerGoto(w, pc) ==
    /\ workerPc' = [workerPc EXCEPT ![w] = pc]
    /\ UNCHANGED <<workerMsg, requeued>>

\* The handler returns: message.process acknowledges.
Ack(w) ==
    /\ workerPc' = [workerPc EXCEPT ![w] = "idle"]
    /\ workerMsg' = [workerMsg EXCEPT ![w] = NoMessage]
    /\ requeued' = requeued \ {w}

\* The broker delivers a message to a free handler.
Deliver(w) ==
    /\ workerPc[w] = "idle"
    /\ \E m \in Messages :
         /\ queue[m] > 0
         /\ queue' = [queue EXCEPT ![m] = @ - 1]
         /\ workerMsg' = [workerMsg EXCEPT ![w] = m]
    /\ workerPc' = [workerPc EXCEPT ![w] = "check"]
    /\ UNCHANGED <<workFrame, redisVars, status, ledgerVars, requeued, faults>>

\* _check_lead_direct.
WorkerCheck(w) ==
    /\ workerPc[w] = "check"
    /\ WorkerGoto(w, IF HasLead(OrderOf(w)) THEN "confirm" ELSE "release")
    /\ UNCHANGED <<workFrame, redisVars, status, ledgerVars, queue, faults>>

\* _handle_with_lead: a failed confirmation is logged, and the message is gone.
WorkerConfirm(w) ==
    /\ workerPc[w] = "confirm"
    /\ ConfirmLeadAndDeduct(OrderOf(w))
    /\ leadMark' = IF ConfirmSucceeds(OrderOf(w)) THEN leadMark \cup {UserOf(w)} ELSE leadMark
    /\ Ack(w)
    /\ UNCHANGED <<workFrame, stock, claimed, queue, faults>>

\* MUTANT: an order that is released already counts as done.
WorkerReleaseSkipsReleased(w) ==
    /\ workerPc[w] = "release"
    /\ ReleaseOrderOnly(OrderOf(w))
    /\ IF status[OrderOf(w)] = "released"
       THEN Ack(w)
       ELSE WorkerGoto(w, IF ReleaseSucceeds(OrderOf(w)) THEN "lua" ELSE "recheck")
    /\ UNCHANGED <<workFrame, redisVars, ledgerVars, queue, faults>>

\* _handle_without_lead: release_order_only; when it returns False the leads
\* are looked at once more.
WorkerRelease(w) ==
    /\ workerPc[w] = "release"
    /\ ReleaseOrderOnly(OrderOf(w))
    /\ WorkerGoto(w, IF ReleaseSucceeds(OrderOf(w)) THEN "lua" ELSE "recheck")
    /\ UNCHANGED <<workFrame, redisVars, ledgerVars, queue, faults>>

\* The second look: with a lead the release is skipped, without one it goes
\* on, although the order was not released in MySQL.
WorkerRecheck(w) ==
    /\ workerPc[w] = "recheck"
    /\ \/ /\ HasLead(OrderOf(w))
          /\ leadMark' = leadMark \cup {UserOf(w)}
          /\ Ack(w)
       \/ /\ ~HasLead(OrderOf(w))
          /\ WorkerGoto(w, "lua")
          /\ UNCHANGED leadMark
    /\ UNCHANGED <<workFrame, stock, claimed, status, ledgerVars, queue, faults>>

\* CouponManager.release(user_id), by user and not by order.
WorkerLua(w) ==
    /\ workerPc[w] = "lua"
    /\ LuaRelease(UserOf(w))
    /\ Ack(w)
    /\ UNCHANGED <<workFrame, leadMark, status, ledgerVars, queue, faults>>

\* The release script fails: logged, and the message is acknowledged.
WorkerLuaFails(w) ==
    /\ workerPc[w] = "lua"
    /\ Spend({"redis"})
    /\ Ack(w)
    /\ UNCHANGED <<workFrame, redisVars, status, ledgerVars, queue>>

\* A transaction rolls back and returns False ("db_error").
WorkerDbError(w) ==
    /\ Spend({"db"})
    /\ \/ workerPc[w] = "confirm" /\ Ack(w)
       \/ workerPc[w] = "release" /\ WorkerGoto(w, "recheck")
    /\ UNCHANGED <<workFrame, redisVars, status, ledgerVars, queue>>

\* The pool has no connection: the callback raises, and on_message publishes
\* the body again with x-retry-count + 1, up to MAX_RETRIES.  A publish that
\* returns False goes unnoticed; the old message is acknowledged anyway.
WorkerRaises(w) ==
    /\ workerPc[w] \in {"check", "confirm", "release", "recheck"}
    /\ \/ /\ workerMsg[w].retry < MaxMsgRetries
          /\ Put([workerMsg[w] EXCEPT !.retry = @ + 1])
          /\ Spend({"db"})
       \/ /\ workerMsg[w].retry < MaxMsgRetries
          /\ Spend({"db", "publish"})
          /\ UNCHANGED queue
       \/ /\ workerMsg[w].retry >= MaxMsgRetries
          /\ Spend({"db"})
          /\ UNCHANGED queue
    /\ Ack(w)
    /\ UNCHANGED <<workFrame, redisVars, status, ledgerVars>>

\* Messages that a lost channel puts back: unacknowledged and not back already.
Unacked(m) == {w \in Workers \ requeued : workerPc[w] # "idle" /\ workerMsg[w] = m}

\* The connection drops and connect_robust restores it.  The broker delivers
\* the unacknowledged messages again while their handlers are still running.
ConnectionLost ==
    /\ Spend({"connection"})
    /\ queue' = [m \in Messages |-> queue[m] + Cardinality(Unacked(m))]
    /\ requeued' = {w \in Workers : workerPc[w] # "idle"}
    /\ UNCHANGED <<workFrame, redisVars, status, ledgerVars, workerPc, workerMsg>>

WorkerStep(w) ==
    \/ WorkerCheck(w) \/ WorkerConfirm(w) \/ WorkerRelease(w)
    \/ WorkerRecheck(w) \/ WorkerLua(w)

WorkerFault(w) == WorkerLuaFails(w) \/ WorkerDbError(w) \/ WorkerRaises(w)

=============================================================================
