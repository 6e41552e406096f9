----------------------------- MODULE CouponSystem -----------------------------
(***************************************************************************)
(* The coupon system: claims, leads, outbox scanner, timeout worker and    *)
(* reconciliation over the shared state of Redis, MySQL and RabbitMQ, with *)
(* the faults of the environment; and what must be true of the whole.      *)
(***************************************************************************)
EXTENDS CouponClaim, CouponLead, CouponOutbox, CouponWorker, CouponReconcile

-----------------------------------------------------------------------------
(***************************************************************************)
(* Environment                                                             *)
(***************************************************************************)

\* A timeout message of order o is still to come, in the outbox, in a queue
\* or in a handler.
Underway(o) ==
    \/ outbox[o] = "init" /\ unmarked # o
    \/ \E m \in Messages : m.order = o /\ queue[m] > 0
    \/ \E w \in Workers : workerPc[w] # "idle" /\ OrderOf(w) = o

\* No request and no timeout of the user is in progress.
Settled(u) ==
    /\ \A c \in Copies : claimPc[<<u, c>>] = "idle"
    /\ \A o \in OrdersOf(u) : ~Underway(o)

\* _CLAIM_TTL_SEC ends for a claimed key.  Requests take milliseconds and
\* timeouts 60 seconds against its hour: with TimelyTimeouts the key outlives
\* them.
ClaimedKeyExpires(u) ==
    /\ u \in claimed
    /\ Spend({"expiry"})
    /\ TimelyTimeouts => Settled(u)
    /\ claimed' = claimed \ {u}
    /\ UNCHANGED <<stock, leadMark, dbVars, queue, claimVars, leadVars,
                   scanVars, workerVars, recVars>>

\* lifespan on a new process: CouponManager.init_stock finds the coupon_stock
\* row and overwrites the Redis stock with it; if the query fails, SETNX
\* leaves the Redis stock as it is.
InitStock ==
    \/ Spend({"restart"}) /\ stock' = remaining
    \/ Spend({"restart", "db"}) /\ UNCHANGED stock

\* MUTANT: messages are consumed without acknowledgements.
RestartAutoAck ==
    /\ InitStock
    /\ claimPc' = [r \in Requests |-> "idle"]
    /\ leadPc' = [u \in Users |-> "idle"] /\ leadOrder' = [u \in Users |-> 0]
    /\ batch' = {} /\ unmarked' = 0
    /\ workerPc' = [w \in Workers |-> "idle"]
    /\ workerMsg' = [w \in Workers |-> NoMessage]
    /\ requeued' = {}
    /\ UNCHANGED <<claimed, leadMark, dbVars, queue, recVars>>

\* The API process dies with all its handlers, the scanner and the worker, and
\* starts again.  The broker takes back what was not acknowledged; Redis,
\* MySQL and the reconciliation process live on.
Restart ==
    /\ InitStock
    /\ queue' = [m \in Messages |-> queue[m] + Cardinality(Unacked(m))]
    /\ claimPc' = [r \in Requests |-> "idle"]
    /\ leadPc' = [u \in Users |-> "idle"] /\ leadOrder' = [u \in Users |-> 0]
    /\ batch' = {} /\ unmarked' = 0
    /\ workerPc' = [w \in Workers |-> "idle"]
    /\ workerMsg' = [w \in Workers |-> NoMessage]
    /\ requeued' = {}
    /\ UNCHANGED <<claimed, leadMark, dbVars, recVars>>

-----------------------------------------------------------------------------
(***************************************************************************)
(* Specification                                                           *)
(***************************************************************************)

Requested ==
    \/ \E r \in Requests : ClaimReserve(r)
    \/ \E u \in Users : LeadCheck(u)
    \/ RecStart

System ==
    \/ \E r \in Requests : ClaimStep(r)
    \/ \E u \in Users : LeadStep(u)
    \/ ScanStep
    \/ \E w \in Workers : Deliver(w) \/ WorkerStep(w)
    \/ RecStep

Failure ==
    \/ \E r \in Requests : ClaimFault(r)
    \/ \E u \in Users : LeadFault(u) \/ ClaimedKeyExpires(u)
    \/ ScanFault
    \/ \E w \in Workers : WorkerFault(w)
    \/ ConnectionLost
    \/ RecFault
    \/ Restart

Next == Requested \/ System \/ Failure

Spec == Init /\ [][Next]_vars

\* The event loop runs every task that is ready, the scanner never ends, and
\* the broker delivers what it holds.  Users and failures owe nothing.
Fairness ==
    /\ \A r \in Requests : WF_vars(ClaimStep(r))
    /\ \A u \in Users : WF_vars(LeadStep(u))
    /\ WF_vars(ScanStep)
    /\ WF_vars(\E w \in Workers : Deliver(w))
    /\ \A w \in Workers : WF_vars(WorkerStep(w))
    /\ WF_vars(RecStep)

FairSpec == Spec /\ Fairness

-----------------------------------------------------------------------------
(***************************************************************************)
(* Under every fault                                                       *)
(***************************************************************************)

\* The MySQL stock is exactly the total minus the orders that were confirmed
\* with a deduction, each of them deducted once and locked for good, however
\* often the worker, a redelivery and the reconciliation confirm it
\* (confirm_lead_and_deduct).
LedgerBalanced ==
    /\ remaining = Total - Cardinality(deducted)
    /\ remaining >= 0
    /\ \A o \in deducted : status[o] = "lead_submitted"

\* The sellable stock in Redis is never negative, whatever the releases,
\* rollbacks and the resynchronisation at start did to it (coupon_claim.lua,
\* init_stock).
StockNeverNegative == stock >= 0

\* A locked order stays locked: no worker, redelivered message or
\* reconciliation that decided earlier moves it (release_order_only's WHERE).
LockedForGood ==
    [][\A o \in Orders : status[o] = "lead_submitted" => status'[o] = "lead_submitted"]_vars

\* The scanner gives a row up only after max_retries failed publishes, and a
\* row it gave up or sent is never taken up again.
OutboxGivesUpLate ==
    [][\A o \in Orders :
         /\ outbox'[o] = "failed" => retries'[o] = MaxOutboxRetries
         /\ outbox[o] \in {"sent", "failed"} => outbox'[o] \in {outbox[o], "sent"}]_vars

-----------------------------------------------------------------------------
(***************************************************************************)
(* While every timeout is handled once: no restart, lost connection, lost  *)
(* mark or reconciliation, and keys that outlive their timeout.            *)
(***************************************************************************)

Ledger == INSTANCE ReservationLedger
          WITH free <- stock, held <- claimed, lapsed <- faults["expiry"]

\* The Redis side implements the ledger of reservations: whatever the handlers
\* interleave, a rollback or a release returns a unit some user holds, and
\* returns it once (_lua_rollback does not look for the key it deletes).
ImplementsLedger == Ledger!Spec

\* No unit of stock is lost or invented.
StockConserved == stock + Cardinality(claimed) + faults["expiry"] = Total

\* An order that still waits for its timeout holds the Redis key of its user:
\* the key is not taken away under it, not even by a concurrent request of the
\* same user that MySQL refuses.
WaitingOrderHoldsKey ==
    \A o \in Orders : status[o] = "claimed" /\ Underway(o) => owner[o] \in claimed

\* A user never has two orders waiting, although coupon_order has no unique key
\* and the duplicate check does not lock.
OneOpenOrderPerUser ==
    \A o, p \in Orders :
        status[o] = "claimed" /\ status[p] = "claimed" /\ owner[o] = owner[p] => o = p

-----------------------------------------------------------------------------
(***************************************************************************)
(* Recovery                                                                *)
(***************************************************************************)

\* The lead of a claimed order cannot be confirmed: MySQL has no unit left.
Exhausted(o) == HasLead(o) /\ remaining = 0

\* No crash, redelivery or failed attempt loses the timeout of an order that
\* is still claimed, short of the two ways the code gives up: the outbox row
\* failed, or the lead could not be confirmed for lack of MySQL stock.
ClaimedOrderIsTracked ==
    \A o \in Orders :
        status[o] = "claimed" => Underway(o) \/ outbox[o] = "failed" \/ Exhausted(o)

\* Every claimed order is released or locked in the end (or meets an exhausted
\* stock), through crashes and redeliveries, while the publish attempts stay
\* below max_retries.
EveryClaimResolved ==
    \A o \in Orders : status[o] = "claimed" ~> (status[o] # "claimed" \/ Exhausted(o))

\* A release in MySQL is followed by the release of the user's key in Redis,
\* even if the process dies between the two: the redelivered message goes the
\* same way again, unless a lead of the user keeps the key meanwhile.
EveryReleaseReturnsStock ==
    \A o \in Orders :
        (status[o] = "released" /\ Underway(o)) ~> (owner[o] \notin claimed \/ HasLead(o))

-----------------------------------------------------------------------------
(***************************************************************************)
(* What the repository says and the code does not do                       *)
(***************************************************************************)

\* "With a lead: the first and only deduction of MySQL coupon_stock"
\* (coupon_worker.py:13): once the timeout of a locked order was handled, the
\* order has taken its unit.
HandledLeadIsDeducted ==
    \A o \in Orders :
        status[o] = "lead_submitted" /\ outbox[o] = "sent" /\ ~Underway(o) => o \in deducted

\* "Lock the coupon (its stock is not returned by the release any more)"
\* (api/main.py:595, coupon_lead): the coupons given out, claimed or locked,
\* never exceed the total.
LockedUnitIsKept ==
    Cardinality({o \in Orders : status[o] \in {"claimed", "lead_submitted"}}) <= Total

\* "Redis alone does not oversell" (README.md:1057): the users that hold a
\* reservation never outnumber the coupons.
NeverOversold == Cardinality(claimed) <= Total

=============================================================================
