----------------------------- MODULE CouponState -----------------------------
(***************************************************************************)
(* The state the coupon system keeps, in the four places it keeps it:      *)
(* Redis (the sellable stock and one key per user that holds a             *)
(* reservation), MySQL (orders, leads, outbox, authoritative stock),       *)
(* RabbitMQ (timeout messages) and the memory of the running handlers.     *)
(* The Lua scripts and the SQL transactions several components share are   *)
(* defined here; the components' own steps are in the modules that extend  *)
(* this one.                                                               *)
(***************************************************************************)
EXTENDS Integers, FiniteSets

CONSTANTS
    Users,              \* the users of the chat
    NoUser,             \* the owner of an order id that is not allocated yet
    Copies,             \* concurrent /coupon/claim requests of one user
    Workers,            \* timeout messages handled at the same time
    Total,              \* coupon_stock.total
    MaxOrders,          \* BOUND on the orders a behaviour inserts
    MaxOutboxRetries,   \* coupon_outbox.max_retries
    MaxMsgRetries,      \* rmq_client.MAX_RETRIES
    FaultBound,         \* BOUND on the faults of each kind
    MaxKinds,           \* BOUND on the kinds of faults that one behaviour mixes
    TimelyTimeouts      \* do timeout messages beat the 1h TTL of claimed keys?

\* What the environment may do to the system, each a bounded number of times.
Fault ==
    { "restart",      \* the API process dies and starts again
      "connection",   \* the RabbitMQ connection drops and is restored
      "expiry",       \* the TTL of a claimed key ends
      "db",           \* MySQL (or its pool) answers with an error
      "mark",         \* mark_outbox_sent fails after the publish
      "redis",        \* a Redis call fails
      "publish",      \* publish_delay returns False
      "reconcile" }   \* an operator runs coupon_reconcile

ASSUME ConstantsOK ==
    /\ NoUser \notin Users
    /\ IsFiniteSet(Users) /\ IsFiniteSet(Workers)
    /\ Total \in Nat
    /\ MaxOrders \in Nat
    /\ MaxOutboxRetries \in Nat \ {0}
    /\ MaxMsgRetries \in Nat
    /\ FaultBound \in [Fault -> Nat] /\ MaxKinds \in Nat
    /\ TimelyTimeouts \in BOOLEAN

Orders   == 1..MaxOrders
Requests == Users \X Copies
Messages == [order: Orders, retry: 0..MaxMsgRetries]
NoMessage == [order |-> 0, retry |-> 0]

Status == {"none", "claimed", "lead_submitted", "released"}

VARIABLES
    \* Redis
    stock,        \* coupon:test_drive:stock
    claimed,      \* users whose coupon:test_drive:claimed:<user> key exists
    leadMark,     \* users whose coupon:test_drive:lead:<user> key exists
    \* MySQL
    owner,        \* coupon_order.user_id
    status,       \* coupon_order.status
    leads,        \* orders with a coupon_lead row
    outbox,       \* coupon_outbox.status of the order's one row
    retries,      \* coupon_outbox.retry_count
    remaining,    \* coupon_stock.remaining
    deducted,     \* history: the orders that took one unit of remaining
    \* RabbitMQ: messages in coupon.delay or coupon.timeout
    queue,
    \* handlers in progress
    claimPc,      \* POST /coupon/claim
    leadPc,       \* POST /coupon/lead
    leadOrder,    \* the order id the lead handler holds
    batch,        \* OutboxScanner: records of the current scan still to process
    unmarked,     \* OutboxScanner: published and not yet marked sent (0: none)
    workerPc,     \* CouponWorker: one timeout message each
    workerMsg,
    requeued,     \* workers whose delivery went back to the queue meanwhile
    recPc,        \* coupon_reconcile
    recBatch,     \* orders of its snapshot still to process
    \* BOUND bookkeeping: the faults spent so far
    faults

redisVars  == <<stock, claimed, leadMark>>
orderVars  == <<owner, status, leads>>
outboxVars == <<outbox, retries>>
ledgerVars == <<remaining, deducted>>
dbVars     == <<orderVars, outboxVars, ledgerVars>>
claimVars  == <<claimPc>>
leadVars   == <<leadPc, leadOrder>>
scanVars   == <<batch, unmarked>>
workerVars == <<workerPc, workerMsg, requeued>>
recVars    == <<recPc, recBatch>>

vars == <<redisVars, dbVars, queue, claimVars, leadVars, scanVars,
          workerVars, recVars, faults>>

RedisTypeOK == stock \in Int /\ claimed \subseteq Users /\ leadMark \subseteq Users

\* An order id is either not allocated yet or has a status and an owner.
OrderTypeOK ==
    /\ owner \in [Orders -> Users \cup {NoUser}]
    /\ status \in [Orders -> Status]
    /\ leads \subseteq Orders
    /\ \A o \in Orders : owner[o] = NoUser <=> status[o] = "none"

OutboxTypeOK ==
    /\ outbox \in [Orders -> {"none", "init", "sent", "failed"}]
    /\ retries \in [Orders -> 0..MaxOutboxRetries]

LedgerTypeOK == remaining \in Int /\ deducted \subseteq Orders

QueueTypeOK == queue \in [Messages -> Nat]

ClaimTypeOK == claimPc \in [Requests -> {"idle", "select", "insert", "rollback"}]

LeadTypeOK ==
    /\ leadPc \in [Users -> {"idle", "find", "insert", "update", "mark"}]
    /\ leadOrder \in [Users -> Orders \cup {0}]
    /\ \A u \in Users : leadPc[u] \in {"insert", "update"} => leadOrder[u] # 0

ScanTypeOK == batch \subseteq Orders /\ unmarked \in Orders \cup {0}

WorkerTypeOK ==
    /\ workerPc \in [Workers -> {"idle", "check", "confirm", "release", "recheck", "lua"}]
    /\ workerMsg \in [Workers -> Messages \cup {NoMessage}]
    /\ requeued \subseteq Workers
    /\ \A w \in Workers : workerPc[w] = "idle" <=> workerMsg[w] = NoMessage

RecTypeOK ==
    /\ recPc \in {"idle", "check", "confirm", "release", "lua"}
    /\ recBatch \subseteq Orders
    /\ recPc # "idle" => recBatch # {}

FaultsTypeOK == faults \in [Fault -> Nat]

TypeOK ==
    /\ RedisTypeOK /\ OrderTypeOK /\ OutboxTypeOK /\ LedgerTypeOK /\ QueueTypeOK
    /\ ClaimTypeOK /\ LeadTypeOK /\ ScanTypeOK /\ WorkerTypeOK /\ RecTypeOK
    /\ FaultsTypeOK

Init ==
    /\ stock = Total /\ claimed = {} /\ leadMark = {}
    /\ owner = [o \in Orders |-> NoUser]
    /\ status = [o \in Orders |-> "none"]
    /\ leads = {}
    /\ outbox = [o \in Orders |-> "none"]
    /\ retries = [o \in Orders |-> 0]
    /\ remaining = Total /\ deducted = {}
    /\ queue = [m \in Messages |-> 0]
    /\ claimPc = [r \in Requests |-> "idle"]
    /\ leadPc = [u \in Users |-> "idle"] /\ leadOrder = [u \in Users |-> 0]
    /\ batch = {} /\ unmarked = 0
    /\ workerPc = [w \in Workers |-> "idle"]
    /\ workerMsg = [w \in Workers |-> NoMessage]
    /\ requeued = {}
    /\ recPc = "idle" /\ recBatch = {}
    /\ faults = [f \in Fault |-> 0]

\* One fault of each kind in S happens, if the bounds still allow it.
Spend(S) ==
    /\ \A f \in S : faults[f] < FaultBound[f]
    /\ Cardinality({f \in Fault : faults[f] > 0} \cup S) <= MaxKinds
    /\ faults' = [f \in Fault |-> IF f \in S THEN faults[f] + 1 ELSE faults[f]]

-----------------------------------------------------------------------------
(***************************************************************************)
(* Redis.  Each Lua script is one atomic step.                             *)
(***************************************************************************)

\* MUTANT: the claim script without its "duplicate" branch.
LuaClaimNoDuplicateCheck(u) ==
    /\ stock > 0
    /\ stock' = stock - 1
    /\ claimed' = claimed \cup {u}

\* MUTANT: the claim script without its "sold_out" branch.
LuaClaimNoStockCheck(u) ==
    /\ u \notin claimed
    /\ stock' = stock - 1
    /\ claimed' = claimed \cup {u}

\* coupon_claim.lua, the branch that reserves.  Its other two branches
\* ("duplicate", "sold_out") change nothing.
LuaClaim(u) ==
    /\ u \notin claimed
    /\ stock > 0
    /\ stock' = stock - 1
    /\ claimed' = claimed \cup {u}

\* MUTANT: the rollback leaves the user's key.
LuaRollbackKeepsKey(u) ==
    /\ stock' = stock + 1
    /\ claimed' = claimed \cup {u}

\* coupon_claim_rollback.lua undoes a reservation without looking for the key.
LuaRollback(u) ==
    /\ stock' = stock + 1
    /\ claimed' = claimed \ {u}

\* coupon_release.lua: "released" when the key exists, "already_released"
\* (and no change) when it does not.
LuaRelease(u) ==
    /\ stock' = IF u \in claimed THEN stock + 1 ELSE stock
    /\ claimed' = claimed \ {u}

-----------------------------------------------------------------------------
(***************************************************************************)
(* MySQL.                                                                  *)
(***************************************************************************)

OrdersOf(u) == {o \in Orders : owner[o] = u}

ActiveOrders(u) == {o \in OrdersOf(u) : status[o] \in {"claimed", "lead_submitted"}}

\* find_lead_by_order_id, then find_lead_by_user_id: a lead of the order is
\* also a lead of its user, so the second query decides.
HasLead(o) == \E p \in leads : owner[p] = owner[o]

\* The order whose id AUTO_INCREMENT gives to the next INSERT.
NextOrder(o) ==
    /\ status[o] = "none"
    /\ \A p \in Orders : p < o => status[p] # "none"

\* confirm_lead_and_deduct returns True: the deduction is done, or the order
\* is past 'claimed' already.
ConfirmSucceeds(o) == status[o] # "claimed" \/ remaining > 0

\* MUTANT: the deduction looks neither at the order nor at the stock.
ConfirmLeadAndDeductBlind(o) ==
    /\ status' = [status EXCEPT ![o] = "lead_submitted"]
    /\ remaining' = remaining - 1
    /\ deducted' = deducted \cup {o}

\* confirm_lead_and_deduct: one transaction, which moves the order and takes
\* the unit, or (order not 'claimed', stock exhausted) changes nothing.
ConfirmLeadAndDeduct(o) ==
    IF status[o] = "claimed" /\ remaining > 0
    THEN /\ status' = [status EXCEPT ![o] = "lead_submitted"]
         /\ remaining' = remaining - 1
         /\ deducted' = deducted \cup {o}
    ELSE UNCHANGED <<status, remaining, deducted>>

\* release_order_only returns True.
ReleaseSucceeds(o) == status[o] \in {"claimed", "released"}

\* MUTANT: the UPDATE without AND status = 'claimed'.
ReleaseOrderAnyStatus(o) == status' = [status EXCEPT ![o] = "released"]

\* release_order_only: UPDATE ... SET status = 'released' WHERE status = 'claimed'.
ReleaseOrderOnly(o) ==
    status' = IF status[o] = "claimed" THEN [status EXCEPT ![o] = "released"] ELSE status

-----------------------------------------------------------------------------
(***************************************************************************)
(* RabbitMQ.  A message waits 60s in coupon.delay and is dead-lettered to  *)
(* coupon.timeout; without clocks the two queues are one bag of messages   *)
(* that are delivered at some later time, in any order.                    *)
(***************************************************************************)

Put(m) == queue' = [queue EXCEPT ![m] = @ + 1]

Timeout(o) == [order |-> o, retry |-> 0]

=============================================================================
