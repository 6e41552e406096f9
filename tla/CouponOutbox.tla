----------------------------- MODULE CouponOutbox -----------------------------
(***************************************************************************)
(* OutboxScanner: every two seconds it fetches the 'init' rows of          *)
(* coupon_outbox and, one by one in id order, publishes the timeout        *)
(* message and then marks the row.  The publish and the mark are separate  *)
(* awaits on two systems: what happens between them decides between a      *)
(* message sent once and one sent twice.                                   *)
(***************************************************************************)
EXTENDS CouponState

scanFrame == <<redisVars, orderVars, ledgerVars, claimVars, leadVars, workerVars, recVars>>

Pending == {o \in Orders : outbox[o] = "init"}

IsFirst(o) == o \in batch /\ \A p \in batch : o <= p

\* fetch_pending_outbox; its limit of 50 is above MaxOrders.
ScanFetch ==
    /\ batch = {} /\ unmarked = 0
    /\ Pending # {}
    /\ batch' = Pending
    /\ UNCHANGED <<scanFrame, outboxVars, queue, unmarked, faults>>

\* _process_record: publish_delay succeeds.
ScanPublish ==
    /\ unmarked = 0
    /\ \E o \in batch : IsFirst(o) /\ Put(Timeout(o)) /\ unmarked' = o
    /\ UNCHANGED <<scanFrame, outboxVars, batch, faults>>

\* mark_outbox_sent.
ScanMarkSent ==
    /\ unmarked # 0
    /\ outbox' = [outbox EXCEPT ![unmarked] = "sent"]
    /\ batch' = batch \ {unmarked} /\ unmarked' = 0
    /\ UNCHANGED <<scanFrame, retries, queue, faults>>

\* mark_outbox_sent raises: _run_loop logs it, the scan is over and the row,
\* already published, is still 'init'.
ScanMarkFails ==
    /\ unmarked # 0
    /\ Spend({"mark"})
    /\ batch' = {} /\ unmarked' = 0
    /\ UNCHANGED <<scanFrame, outboxVars, queue>>

\* MUTANT: the limit on the attempts is off by one.
ScanPublishFailsEarly ==
    /\ unmarked = 0
    /\ Spend({"publish"})
    /\ \E o \in batch :
         /\ IsFirst(o)
         /\ retries' = [retries EXCEPT ![o] = @ + 1]
         /\ outbox' = IF retries[o] + 2 >= MaxOutboxRetries
                      THEN [outbox EXCEPT ![o] = "failed"] ELSE outbox
         /\ batch' = batch \ {o}
    /\ UNCHANGED <<scanFrame, queue, unmarked>>

\* publish_delay returns False: mark_outbox_retry, or mark_outbox_failed when
\* the attempts are used up.
ScanPublishFails ==
    /\ unmarked = 0
    /\ Spend({"publish"})
    /\ \E o \in batch :
         /\ IsFirst(o)
         /\ retries' = [retries EXCEPT ![o] = @ + 1]
         /\ outbox' = IF retries[o] + 1 >= MaxOutboxRetries
                      THEN [outbox EXCEPT ![o] = "failed"] ELSE outbox
         /\ batch' = batch \ {o}
    /\ UNCHANGED <<scanFrame, queue, unmarked>>

ScanStep == ScanFetch \/ ScanPublish \/ ScanMarkSent

ScanFault == ScanMarkFails \/ ScanPublishFails

=============================================================================
