-------------------------- MODULE CouponSafetyProofs --------------------------
(***************************************************************************)
(* What CouponSystem keeps under every fault, for every value of the       *)
(* constants: the types, and that nothing names an order that was never    *)
(* inserted; the books of the MySQL stock, the sign of the Redis stock,    *)
(* the finality of a lock and of an outbox row.                            *)
(***************************************************************************)
EXTENDS CouponSystem, FiniteSetTheorems, TLAPS

Known(o) == status[o] # "none"

\* Whatever holds an order id holds the id of an order that was inserted.
NoDanglingOrder ==
    /\ \A o \in Orders : outbox[o] # "none" => Known(o)
    /\ \A m \in Messages : queue[m] > 0 => Known(m.order)
    /\ \A w \in Workers : workerPc[w] # "idle" => Known(workerMsg[w].order)
    /\ \A u \in Users : leadOrder[u] # 0 => Known(leadOrder[u])
    /\ \A o \in recBatch : Known(o)

\* The rows of the current scan are still 'init' and have attempts left: only
\* the scanner changes the outbox.
BatchIsPending ==
    /\ \A o \in batch : outbox[o] = "init"
    /\ unmarked # 0 => unmarked \in batch
    /\ \A o \in Orders : outbox[o] \in {"none", "init"} => retries[o] < MaxOutboxRetries
    /\ \A o \in Orders : outbox[o] = "failed" => retries[o] = MaxOutboxRetries

TypeInv == TypeOK /\ NoDanglingOrder /\ BatchIsPending

-----------------------------------------------------------------------------

USE DEF Orders, Requests, Messages, NoMessage, Status, Known
USE DEF RedisTypeOK, OrderTypeOK, OutboxTypeOK, LedgerTypeOK, QueueTypeOK,
        ClaimTypeOK, LeadTypeOK, ScanTypeOK, WorkerTypeOK, RecTypeOK, FaultsTypeOK
USE DEF redisVars, orderVars, outboxVars, ledgerVars, dbVars,
        claimVars, leadVars, scanVars, workerVars, recVars

\* The initial state has the types.
LEMMA TypeInit == Init => TypeInv
  BY ConstantsOK DEF Init, TypeInv, TypeOK, NoDanglingOrder, BatchIsPending, Fault

\* Spending a fault keeps the counters natural numbers.
LEMMA SpendType ==
  ASSUME NEW S, Spend(S), FaultsTypeOK
  PROVE  FaultsTypeOK'
  BY DEF Spend

\* A publish adds one message and no other.
LEMMA PutType ==
  ASSUME QueueTypeOK, NEW m \in Messages, Put(m)
  PROVE  /\ QueueTypeOK'
         /\ \A n \in Messages : queue'[n] > 0 => queue[n] > 0 \/ n = m
<1>0. queue[m] \in Nat
  BY Zenon
<1>1. queue[m] + 1 \in Nat
  <2> HIDE DEF Messages, QueueTypeOK
  <2> QED  BY <1>0, SMT
<1>2. QueueTypeOK'
  BY <1>1, Zenon DEF Put
<1>3. \A n \in Messages : n # m => queue'[n] = queue[n]
  BY Zenon DEF Put
<1> QED
  BY <1>2, <1>3, Zenon

\* Every step of a claim keeps the types, its faults included.
LEMMA ClaimType ==
  ASSUME TypeInv, NEW r \in Requests,
         ClaimReserve(r) \/ ClaimStep(r) \/ ClaimFault(r)
  PROVE  TypeInv'
<1> USE DEF claimFrame
<1> r[1] \in Users
  OBVIOUS
<1>1. CASE ClaimReserve(r)
  <2>1. RedisTypeOK'
    BY <1>1 DEF ClaimReserve, LuaClaim, TypeInv, TypeOK
  <2>2. ClaimTypeOK'
    BY <1>1 DEF ClaimReserve, Goto, TypeInv, TypeOK
  <2>3. UNCHANGED <<orderVars, outboxVars, ledgerVars, queue, leadVars, scanVars, workerVars,
                    recVars, faults>>
    BY <1>1 DEF ClaimReserve
  <2> QED
    BY <2>1, <2>2, <2>3 DEF TypeInv, TypeOK, NoDanglingOrder, BatchIsPending
<1>2. CASE ClaimSelect(r)
  <2>1. ClaimTypeOK'
    BY <1>2 DEF ClaimSelect, Goto, TypeInv, TypeOK
  <2>2. UNCHANGED <<redisVars, orderVars, outboxVars, ledgerVars, queue, leadVars, scanVars,
                    workerVars, recVars, faults>>
    BY <1>2 DEF ClaimSelect
  <2> QED
    BY <2>1, <2>2 DEF TypeInv, TypeOK, NoDanglingOrder, BatchIsPending
<1>3. CASE ClaimInsert(r)
  <2>1. PICK o \in Orders : /\ NextOrder(o)
                            /\ owner' = [owner EXCEPT ![o] = r[1]]
                            /\ status' = [status EXCEPT ![o] = "claimed"]
                            /\ outbox' = [outbox EXCEPT ![o] = "init"]
    BY <1>3 DEF ClaimInsert
  <2>2. OrderTypeOK' /\ OutboxTypeOK'
    BY <1>3, <2>1, ConstantsOK DEF ClaimInsert, TypeInv, TypeOK
  <2>3. ClaimTypeOK'
    BY <1>3 DEF ClaimInsert, Goto, TypeInv, TypeOK
  <2>4. UNCHANGED <<redisVars, retries, ledgerVars, queue, leadVars, scanVars, workerVars,
                    recVars, faults>>
    BY <1>3 DEF ClaimInsert
  <2>5. TypeOK'
    BY <2>2, <2>3, <2>4 DEF TypeInv, TypeOK
  <2>6. NoDanglingOrder'
    BY <2>1, <2>4 DEF TypeInv, TypeOK, NoDanglingOrder
  <2>7. outbox[o] = "none"
    BY <2>1 DEF TypeInv, NoDanglingOrder, NextOrder
  <2>8. BatchIsPending'
    BY <2>1, <2>4, <2>7 DEF TypeInv, TypeOK, BatchIsPending
  <2> QED
    BY <2>5, <2>6, <2>8 DEF TypeInv
<1>4. CASE ClaimDbError(r)
  <2>1. ClaimTypeOK'
    BY <1>4 DEF ClaimDbError, Goto, TypeInv, TypeOK
  <2>2. FaultsTypeOK'
    BY <1>4, SpendType DEF ClaimDbError, TypeInv, TypeOK
  <2>3. UNCHANGED <<redisVars, orderVars, outboxVars, ledgerVars, queue, leadVars, scanVars,
                    workerVars, recVars>>
    BY <1>4 DEF ClaimDbError
  <2> QED
    BY <2>1, <2>2, <2>3 DEF TypeInv, TypeOK, NoDanglingOrder, BatchIsPending
<1>5. CASE ClaimRollback(r)
  <2>1. RedisTypeOK'
    BY <1>5 DEF ClaimRollback, LuaRollback, TypeInv, TypeOK
  <2>2. ClaimTypeOK'
    BY <1>5 DEF ClaimRollback, Goto, TypeInv, TypeOK
  <2>3. UNCHANGED <<orderVars, outboxVars, ledgerVars, queue, leadVars, scanVars, workerVars,
                    recVars, faults>>
    BY <1>5 DEF ClaimRollback
  <2> QED
    BY <2>1, <2>2, <2>3 DEF TypeInv, TypeOK, NoDanglingOrder, BatchIsPending
<1>6. CASE ClaimAbandon(r)
  <2>1. ClaimTypeOK'
    BY <1>6 DEF ClaimAbandon, Goto, TypeInv, TypeOK
  <2>2. FaultsTypeOK'
    BY <1>6, SpendType DEF ClaimAbandon, TypeInv, TypeOK
  <2>3. UNCHANGED <<redisVars, orderVars, outboxVars, ledgerVars, queue, leadVars, scanVars,
                    workerVars, recVars>>
    BY <1>6 DEF ClaimAbandon
  <2> QED
    BY <2>1, <2>2, <2>3 DEF TypeInv, TypeOK, NoDanglingOrder, BatchIsPending
<1> QED
  BY <1>1, <1>2, <1>3, <1>4, <1>5, <1>6 DEF ClaimStep, ClaimFault

\* Every step of a lead keeps the types: the order it updates was inserted.
LEMMA LeadType ==
  ASSUME TypeInv, NEW u \in Users,
         LeadCheck(u) \/ LeadStep(u) \/ LeadFault(u)
  PROVE  TypeInv'
<1> USE DEF leadFrame, LeadGoto
<1>1. CASE LeadCheck(u)
  <2>1. leadOrder' = [leadOrder EXCEPT ![u] = 0]
    BY <1>1 DEF LeadCheck
  <2>2. LeadTypeOK'
    BY <1>1 DEF LeadCheck, TypeInv, TypeOK
  <2>3. UNCHANGED <<redisVars, orderVars, outboxVars, ledgerVars, queue, claimVars, scanVars,
                    workerVars, recVars, faults>>
    BY <1>1 DEF LeadCheck
  <2>4. TypeOK'
    BY <2>1, <2>2, <2>3 DEF TypeInv, TypeOK
  <2>5. NoDanglingOrder'
    BY <2>1, <2>2, <2>3 DEF TypeInv, TypeOK, NoDanglingOrder
  <2>6. BatchIsPending'
    BY <2>1, <2>2, <2>3 DEF TypeInv, TypeOK, BatchIsPending
  <2> QED
    BY <2>4, <2>5, <2>6 DEF TypeInv
<1>2. CASE LeadFind(u)
  <2>1. UNCHANGED <<redisVars, orderVars, outboxVars, ledgerVars, queue, claimVars, scanVars,
                    workerVars, recVars, faults>>
    BY <1>2 DEF LeadFind
  <2>2. CASE \E o \in ActiveOrders(u) : LeadGoto(u, "insert", o)
    <3>1. PICK o \in ActiveOrders(u) : LeadGoto(u, "insert", o)
      BY <2>2
    <3>2. o \in Orders /\ Known(o) /\ o # 0
      BY ConstantsOK DEF ActiveOrders, OrdersOf
    <3>3. LeadTypeOK'
      BY <3>1, <3>2 DEF TypeInv, TypeOK
    <3>4. TypeOK'
      BY <2>1, <3>1, <3>2, <3>3 DEF TypeInv, TypeOK
    <3>5. NoDanglingOrder'
      BY <2>1, <3>1, <3>2, <3>3 DEF TypeInv, TypeOK, NoDanglingOrder
    <3>6. BatchIsPending'
      BY <2>1, <3>1, <3>2, <3>3 DEF TypeInv, TypeOK, BatchIsPending
    <3> QED
      BY <3>4, <3>5, <3>6 DEF TypeInv
  <2>3. CASE LeadGoto(u, "mark", 0)
    <3>1. LeadTypeOK' /\ leadOrder' = [leadOrder EXCEPT ![u] = 0]
      BY <2>3 DEF TypeInv, TypeOK
    <3>2. TypeOK'
      BY <2>1, <3>1 DEF TypeInv, TypeOK
    <3>3. NoDanglingOrder'
      BY <2>1, <3>1 DEF TypeInv, TypeOK, NoDanglingOrder
    <3>4. BatchIsPending'
      BY <2>1, <3>1 DEF TypeInv, TypeOK, BatchIsPending
    <3> QED
      BY <3>2, <3>3, <3>4 DEF TypeInv
  <2> QED
    BY <1>2, <2>2, <2>3 DEF LeadFind
<1>3. CASE LeadInsert(u)
  <2>1. leadOrder' = leadOrder /\ leadOrder[u] \in Orders
    BY <1>3 DEF LeadInsert, TypeInv, TypeOK
  <2>2. UNCHANGED <<owner, status>> /\ leads' = leads \cup {leadOrder[u]}
    BY <1>3 DEF LeadInsert
  <2>3. LeadTypeOK'
    BY <1>3 DEF LeadInsert, TypeInv, TypeOK
  <2>4. OrderTypeOK'
    BY <2>1, <2>2 DEF TypeInv, TypeOK
  <2>5. UNCHANGED <<redisVars, outboxVars, ledgerVars, queue, claimVars, scanVars, workerVars,
                    recVars, faults>>
    BY <1>3 DEF LeadInsert
  <2>6. TypeOK'
    BY <2>1, <2>2, <2>3, <2>4, <2>5 DEF TypeInv, TypeOK
  <2>7. NoDanglingOrder'
    BY <2>1, <2>2, <2>3, <2>4, <2>5 DEF TypeInv, TypeOK, NoDanglingOrder
  <2>8. BatchIsPending'
    BY <2>1, <2>2, <2>3, <2>4, <2>5 DEF TypeInv, TypeOK, BatchIsPending
  <2> QED
    BY <2>6, <2>7, <2>8 DEF TypeInv
<1>4. CASE LeadUpdate(u)
  <2>1. leadOrder[u] \in Orders /\ Known(leadOrder[u])
    BY <1>4 DEF LeadUpdate, TypeInv, TypeOK, NoDanglingOrder
  <2>2. status' = [status EXCEPT ![leadOrder[u]] = "lead_submitted"] /\ leadOrder' = [leadOrder EXCEPT ![u] = 0]
    BY <1>4 DEF LeadUpdate
  <2>3. LeadTypeOK'
    BY <1>4 DEF LeadUpdate, TypeInv, TypeOK
  <2>4. OrderTypeOK'
    BY <1>4, <2>1 DEF LeadUpdate, TypeInv, TypeOK
  <2>5. UNCHANGED <<redisVars, outboxVars, ledgerVars, queue, claimVars, scanVars, workerVars,
                    recVars, faults>>
    BY <1>4 DEF LeadUpdate
  <2>6. TypeOK'
    BY <2>1, <2>2, <2>3, <2>4, <2>5 DEF TypeInv, TypeOK
  <2>7. NoDanglingOrder'
    BY <2>1, <2>2, <2>3, <2>4, <2>5 DEF TypeInv, TypeOK, NoDanglingOrder
  <2>8. BatchIsPending'
    BY <2>1, <2>2, <2>3, <2>4, <2>5 DEF TypeInv, TypeOK, BatchIsPending
  <2> QED
    BY <2>6, <2>7, <2>8 DEF TypeInv
<1>5. CASE LeadDbError(u)
  <2>1. leadOrder' = [leadOrder EXCEPT ![u] = 0]
    BY <1>5 DEF LeadDbError
  <2>2. LeadTypeOK'
    BY <1>5 DEF LeadDbError, TypeInv, TypeOK
  <2>3. FaultsTypeOK'
    BY <1>5, SpendType DEF LeadDbError, TypeInv, TypeOK
  <2>4. UNCHANGED <<redisVars, orderVars, outboxVars, ledgerVars, queue, claimVars, scanVars,
                    workerVars, recVars>>
    BY <1>5 DEF LeadDbError
  <2>5. TypeOK'
    BY <2>1, <2>2, <2>3, <2>4 DEF TypeInv, TypeOK
  <2>6. NoDanglingOrder'
    BY <2>1, <2>2, <2>3, <2>4 DEF TypeInv, TypeOK, NoDanglingOrder
  <2>7. BatchIsPending'
    BY <2>1, <2>2, <2>3, <2>4 DEF TypeInv, TypeOK, BatchIsPending
  <2> QED
    BY <2>5, <2>6, <2>7 DEF TypeInv
<1>6. CASE LeadMark(u)
  <2>1. leadOrder' = [leadOrder EXCEPT ![u] = 0]
    BY <1>6 DEF LeadMark
  <2>2. LeadTypeOK'
    BY <1>6 DEF LeadMark, TypeInv, TypeOK
  <2>3. RedisTypeOK'
    BY <1>6 DEF LeadMark, TypeInv, TypeOK
  <2>4. UNCHANGED <<orderVars, outboxVars, ledgerVars, queue, claimVars, scanVars, workerVars,
                    recVars, faults>>
    BY <1>6 DEF LeadMark
  <2>5. TypeOK'
    BY <2>1, <2>2, <2>3, <2>4 DEF TypeInv, TypeOK
  <2>6. NoDanglingOrder'
    BY <2>1, <2>2, <2>3, <2>4 DEF TypeInv, TypeOK, NoDanglingOrder
  <2>7. BatchIsPending'
    BY <2>1, <2>2, <2>3, <2>4 DEF TypeInv, TypeOK, BatchIsPending
  <2> QED
    BY <2>5, <2>6, <2>7 DEF TypeInv
<1>7. CASE LeadMarkFails(u)
  <2>1. leadOrder' = [leadOrder EXCEPT ![u] = 0]
    BY <1>7 DEF LeadMarkFails
  <2>2. LeadTypeOK'
    BY <1>7 DEF LeadMarkFails, TypeInv, TypeOK
  <2>3. FaultsTypeOK'
    BY <1>7, SpendType DEF LeadMarkFails, TypeInv, TypeOK
  <2>4. UNCHANGED <<redisVars, orderVars, outboxVars, ledgerVars, queue, claimVars, scanVars,
                    workerVars, recVars>>
    BY <1>7 DEF LeadMarkFails
  <2>5. TypeOK'
    BY <2>1, <2>2, <2>3, <2>4 DEF TypeInv, TypeOK
  <2>6. NoDanglingOrder'
    BY <2>1, <2>2, <2>3, <2>4 DEF TypeInv, TypeOK, NoDanglingOrder
  <2>7. BatchIsPending'
    BY <2>1, <2>2, <2>3, <2>4 DEF TypeInv, TypeOK, BatchIsPending
  <2> QED
    BY <2>5, <2>6, <2>7 DEF TypeInv
<1> QED
  BY <1>1, <1>2, <1>3, <1>4, <1>5, <1>6, <1>7 DEF LeadStep, LeadFault

\* Every step of the scanner keeps the types: its batch is still 'init'.
LEMMA ScanType ==
  ASSUME TypeInv, ScanStep \/ ScanFault
  PROVE  TypeInv'
<1> USE DEF scanFrame
<1>1. CASE ScanFetch
  <2>1. batch' = {o \in Orders : outbox[o] = "init"} /\ unmarked = 0 /\ unmarked' = 0
    BY <1>1 DEF ScanFetch, Pending
  <2>2. ScanTypeOK'
    BY <1>1, <2>1 DEF ScanFetch, Pending, TypeInv, TypeOK
  <2>3. UNCHANGED <<redisVars, orderVars, outboxVars, ledgerVars, queue, claimVars, leadVars,
                    workerVars, recVars, faults>>
    BY <1>1 DEF ScanFetch
  <2>4. TypeOK'
    BY <2>1, <2>2, <2>3 DEF TypeInv, TypeOK
  <2>5. NoDanglingOrder'
    BY <2>1, <2>2, <2>3 DEF TypeInv, TypeOK, NoDanglingOrder
  <2>6. BatchIsPending'
    BY <2>1, <2>2, <2>3 DEF TypeInv, TypeOK, BatchIsPending
  <2> QED
    BY <2>4, <2>5, <2>6 DEF TypeInv
<1>2. CASE ScanPublish
  <2>1. PICK o \in batch : Put(Timeout(o)) /\ unmarked' = o
    BY <1>2 DEF ScanPublish
  <2>2. o \in Orders /\ Known(o)
    BY DEF TypeInv, TypeOK, NoDanglingOrder, BatchIsPending
  <2>3. Timeout(o) \in Messages /\ Timeout(o).order = o
    BY <2>2, ConstantsOK DEF Timeout
  <2>4. QueueTypeOK' /\ \A m \in Messages : queue'[m] > 0 => queue[m] > 0 \/ m = Timeout(o)
    BY <2>1, <2>3, PutType DEF TypeInv, TypeOK
  <2>5. UNCHANGED <<redisVars, orderVars, outboxVars, ledgerVars, claimVars, leadVars,
                    workerVars, recVars, batch, faults>>
    BY <1>2 DEF ScanPublish
  <2>6. TypeOK'
    BY <2>1, <2>2, <2>3, <2>4, <2>5 DEF TypeInv, TypeOK
  <2>7. NoDanglingOrder'
    BY <2>1, <2>2, <2>3, <2>4, <2>5 DEF TypeInv, TypeOK, NoDanglingOrder
  <2>8. BatchIsPending'
    BY <2>1, <2>2, <2>3, <2>4, <2>5 DEF TypeInv, TypeOK, BatchIsPending
  <2> QED
    BY <2>6, <2>7, <2>8 DEF TypeInv
<1>3. CASE ScanMarkSent
  <2>1. unmarked \in Orders /\ unmarked \in batch
    BY <1>3 DEF ScanMarkSent, TypeInv, TypeOK, BatchIsPending
  <2>2. outbox' = [outbox EXCEPT ![unmarked] = "sent"] /\ batch' = batch \ {unmarked} /\ unmarked' = 0
    BY <1>3 DEF ScanMarkSent
  <2>3. \A o \in Orders : outbox'[o] # "none" => outbox[o] # "none"
    BY <2>1, <2>2 DEF TypeInv, TypeOK, BatchIsPending
  <2>4. OutboxTypeOK'
    BY <1>3, <2>1 DEF ScanMarkSent, TypeInv, TypeOK
  <2>5. ScanTypeOK'
    BY <1>3 DEF ScanMarkSent, TypeInv, TypeOK
  <2>6. UNCHANGED <<redisVars, orderVars, ledgerVars, queue, claimVars, leadVars, workerVars,
                    recVars, faults, retries>>
    BY <1>3 DEF ScanMarkSent
  <2>7. TypeOK'
    BY <2>1, <2>2, <2>3, <2>4, <2>5, <2>6 DEF TypeInv, TypeOK
  <2>8. NoDanglingOrder'
    BY <2>1, <2>2, <2>3, <2>4, <2>5, <2>6 DEF TypeInv, TypeOK, NoDanglingOrder
  <2>9. BatchIsPending'
    BY <2>1, <2>2, <2>3, <2>4, <2>5, <2>6 DEF TypeInv, TypeOK, BatchIsPending
  <2> QED
    BY <2>7, <2>8, <2>9 DEF TypeInv
<1>4. CASE ScanMarkFails
  <2>1. batch' = {} /\ unmarked' = 0
    BY <1>4 DEF ScanMarkFails
  <2>2. ScanTypeOK'
    BY <1>4 DEF ScanMarkFails, TypeInv, TypeOK
  <2>3. FaultsTypeOK'
    BY <1>4, SpendType DEF ScanMarkFails, TypeInv, TypeOK
  <2>4. UNCHANGED <<redisVars, orderVars, outboxVars, ledgerVars, queue, claimVars, leadVars,
                    workerVars, recVars>>
    BY <1>4 DEF ScanMarkFails
  <2>5. TypeOK'
    BY <2>1, <2>2, <2>3, <2>4 DEF TypeInv, TypeOK
  <2>6. NoDanglingOrder'
    BY <2>1, <2>2, <2>3, <2>4 DEF TypeInv, TypeOK, NoDanglingOrder
  <2>7. BatchIsPending'
    BY <2>1, <2>2, <2>3, <2>4 DEF TypeInv, TypeOK, BatchIsPending
  <2> QED
    BY <2>5, <2>6, <2>7 DEF TypeInv
<1>5. CASE ScanPublishFails
  <2>1. PICK o \in batch :
          /\ retries' = [retries EXCEPT ![o] = @ + 1]
          /\ outbox' = IF retries[o] + 1 >= MaxOutboxRetries
                       THEN [outbox EXCEPT ![o] = "failed"] ELSE outbox
          /\ batch' = batch \ {o}
    BY <1>5 DEF ScanPublishFails
  <2>2. o \in Orders /\ outbox[o] = "init" /\ retries[o] \in Nat /\ retries[o] < MaxOutboxRetries
    BY ConstantsOK DEF TypeInv, TypeOK, BatchIsPending
  <2>3. OutboxTypeOK'
    BY <2>1, <2>2, ConstantsOK DEF TypeInv, TypeOK
  <2>4. UNCHANGED <<redisVars, orderVars, ledgerVars, queue, claimVars, leadVars, workerVars,
                    recVars, unmarked>> /\ unmarked = 0
    BY <1>5 DEF ScanPublishFails
  <2>5. FaultsTypeOK'
    BY <1>5, SpendType DEF ScanPublishFails, TypeInv, TypeOK
  <2>6. TypeOK'
    BY <2>1, <2>3, <2>4, <2>5 DEF TypeInv, TypeOK
  <2>7. NoDanglingOrder'
    BY <2>1, <2>2, <2>4 DEF TypeInv, TypeOK, NoDanglingOrder
  <2>8. BatchIsPending'
    BY <2>1, <2>2, <2>4, ConstantsOK DEF TypeInv, TypeOK, BatchIsPending
  <2> QED
    BY <2>6, <2>7, <2>8 DEF TypeInv
<1> QED
  BY <1>1, <1>2, <1>3, <1>4, <1>5 DEF ScanStep, ScanFault

-----------------------------------------------------------------------------
(***************************************************************************)
(* The worker and the reconciliation take orders out of messages and       *)
(* snapshots, and never put one in that they did not find there.           *)
(***************************************************************************)

KnownStay == \A o \in Orders : Known(o) => status'[o] # "none"

WorkersStay ==
    \A w \in Workers : workerPc'[w] # "idle" =>
                        workerMsg'[w] \in Messages /\ Known(workerMsg'[w].order)

QueueStay == \A m \in Messages : queue'[m] > 0 => queue[m] > 0 \/ Known(m.order)

\* Enough for TypeInv, if the step leaves outbox, leads and scanner alone.
LEMMA HandlersFrame ==
  ASSUME TypeInv, TypeOK', KnownStay, WorkersStay, QueueStay, recBatch' \subseteq recBatch,
         UNCHANGED <<outboxVars, leadVars, scanVars>>
  PROVE  TypeInv'
<1>1. \A m \in Messages : m.order \in Orders
  OBVIOUS
<1>3. NoDanglingOrder'
  <2>1. \A o \in Orders : outbox'[o] # "none" => status'[o] # "none"
    BY DEF TypeInv, NoDanglingOrder, KnownStay
  <2>2. \A m \in Messages : queue'[m] > 0 => status'[m.order] # "none"
    BY <1>1 DEF TypeInv, NoDanglingOrder, KnownStay, QueueStay
  <2>3. \A w \in Workers : workerPc'[w] # "idle" => status'[workerMsg'[w].order] # "none"
    BY <1>1 DEF KnownStay, WorkersStay
  <2>4. \A u \in Users : leadOrder'[u] # 0 => status'[leadOrder'[u]] # "none"
    BY DEF TypeInv, TypeOK, NoDanglingOrder, KnownStay
  <2>5. \A o \in recBatch' : status'[o] # "none"
    BY DEF TypeInv, TypeOK, NoDanglingOrder, KnownStay
  <2> QED
    BY <2>1, <2>2, <2>3, <2>4, <2>5 DEF NoDanglingOrder
<1>4. BatchIsPending'
  BY DEF TypeInv, BatchIsPending
<1> QED
  BY <1>3, <1>4 DEF TypeInv

\* A busy handler holds a message of an inserted order.
LEMMA BusyWorker ==
  ASSUME TypeInv, NEW w \in Workers, workerPc[w] # "idle"
  PROVE  workerMsg[w] \in Messages /\ OrderOf(w) \in Orders /\ Known(OrderOf(w)) /\ UserOf(w) \in Users
<1>1. workerMsg[w] \in Messages
  BY DEF TypeInv, TypeOK
<1>2. OrderOf(w) \in Orders /\ Known(OrderOf(w))
  BY <1>1 DEF TypeInv, NoDanglingOrder, OrderOf
<1> QED
  BY <1>1, <1>2 DEF TypeInv, TypeOK, UserOf

\* The end of a handler, and its going on, keep the messages of the others.
LEMMA AckType ==
  ASSUME TypeInv, NEW w \in Workers, Ack(w)
  PROVE  WorkerTypeOK' /\ WorkersStay
<1>1. WorkerTypeOK'
  BY DEF TypeInv, TypeOK, Ack
<1>2. \A v \in Workers : workerPc'[v] # "idle" => workerPc[v] # "idle" /\ workerMsg'[v] = workerMsg[v]
  BY DEF TypeInv, TypeOK, Ack
<1> QED
  BY <1>1, <1>2, BusyWorker DEF WorkersStay, OrderOf

\* A handler that goes on keeps its message.
LEMMA WorkerGotoType ==
  ASSUME TypeInv, NEW w \in Workers, workerPc[w] # "idle",
         NEW pc \in {"check", "confirm", "release", "recheck", "lua"}, WorkerGoto(w, pc)
  PROVE  WorkerTypeOK' /\ WorkersStay
<1>1. WorkerTypeOK'
  BY DEF TypeInv, TypeOK, WorkerGoto
<1>2. \A v \in Workers : workerPc'[v] # "idle" => workerPc[v] # "idle" /\ workerMsg'[v] = workerMsg[v]
  BY DEF TypeInv, TypeOK, WorkerGoto
<1> QED
  BY <1>1, <1>2, BusyWorker DEF WorkersStay, OrderOf

\* confirm_lead_and_deduct on an inserted order.
LEMMA ConfirmType ==
  ASSUME OrderTypeOK, LedgerTypeOK, NEW o \in Orders, Known(o), ConfirmLeadAndDeduct(o), UNCHANGED <<owner, leads>>
  PROVE  OrderTypeOK' /\ LedgerTypeOK' /\ KnownStay
<1>1. CASE status[o] = "claimed" /\ remaining > 0
  <2>1. status' = [status EXCEPT ![o] = "lead_submitted"]
    BY <1>1 DEF ConfirmLeadAndDeduct
  <2>2. \A p \in Orders : status'[p] = IF p = o THEN "lead_submitted" ELSE status[p]
    BY <2>1
  <2>3. status' \in [Orders -> Status]
    BY <2>1
  <2>4. OrderTypeOK' /\ KnownStay
    <3>1. KnownStay
      BY <2>2, SMT DEF KnownStay
    <3>2. \A p \in Orders : owner'[p] = NoUser <=> status'[p] = "none"
      BY <2>2, SMT
    <3>3. owner' \in [Orders -> Users \cup {NoUser}] /\ leads' \subseteq Orders
      OBVIOUS
    <3> QED
      BY <2>3, <3>1, <3>2, <3>3
  <2>5. LedgerTypeOK'
    <3>1. remaining' = remaining - 1 /\ deducted' = deducted \cup {o}
      BY <1>1 DEF ConfirmLeadAndDeduct
    <3> QED
      BY <3>1
  <2> QED
    BY <2>4, <2>5
<1>2. CASE ~(status[o] = "claimed" /\ remaining > 0)
  <2>1. UNCHANGED <<status, remaining, deducted>>
    BY <1>2 DEF ConfirmLeadAndDeduct
  <2> QED
    BY <2>1 DEF KnownStay
<1> QED
  BY <1>1, <1>2

\* release_order_only on an inserted order.
LEMMA ReleaseOrderType ==
  ASSUME OrderTypeOK, NEW o \in Orders, Known(o), ReleaseOrderOnly(o), UNCHANGED <<owner, leads>>
  PROVE  OrderTypeOK' /\ KnownStay
  BY DEF ReleaseOrderOnly, KnownStay

\* The release script.
LEMMA LuaReleaseType ==
  ASSUME RedisTypeOK, NEW u \in Users, LuaRelease(u), UNCHANGED leadMark
  PROVE  RedisTypeOK'
  BY DEF LuaRelease

\* What the broker takes back when a channel or a process dies.
Redelivered == queue' = [m \in Messages |-> queue[m] + Cardinality(Unacked(m))]

\* What the broker takes back was in a handler before.
LEMMA RedeliveredType ==
  ASSUME TypeInv, Redelivered
  PROVE  QueueTypeOK' /\ QueueStay
<1>1. ASSUME NEW m \in Messages
      PROVE  Cardinality(Unacked(m)) \in Nat /\ (Cardinality(Unacked(m)) > 0 => Unacked(m) # {})
  <2>1. IsFiniteSet(Unacked(m))
    BY ConstantsOK, FS_Subset DEF Unacked
  <2> QED
    BY <2>1, FS_CardinalityType, FS_EmptySet
<1>2. QueueTypeOK'
  <2>1. \A m \in Messages : queue[m] \in Nat
    BY Zenon DEF TypeInv, TypeOK
  <2>2. \A m \in Messages : queue[m] + Cardinality(Unacked(m)) \in Nat
    <3> HIDE DEF Messages, QueueTypeOK
    <3> QED  BY <1>1, <2>1
  <2> QED
    BY <2>2, Zenon DEF Redelivered
<1>3. ASSUME NEW m \in Messages, queue'[m] > 0, ~(queue[m] > 0)
      PROVE  Known(m.order)
  <2>1. queue'[m] = queue[m] + Cardinality(Unacked(m))
    BY Zenon DEF Redelivered
  <2>2. queue[m] \in Nat
    BY Zenon DEF TypeInv, TypeOK
  <2>3. Cardinality(Unacked(m)) > 0
    <3> HIDE DEF Messages, QueueTypeOK
    <3> QED  BY <1>1, <1>3, <2>1, <2>2
  <2>4. PICK w \in Workers : workerPc[w] # "idle" /\ workerMsg[w] = m
    BY <1>1, <2>3 DEF Unacked
  <2> QED
    BY <2>4 DEF TypeInv, NoDanglingOrder
<1> QED
  BY <1>2, <1>3 DEF QueueStay

\* What a step leaves alone stays.
LEMMA Unmoved ==
  ASSUME TypeInv
  PROVE  /\ UNCHANGED status => KnownStay
         /\ UNCHANGED queue => QueueStay
         /\ UNCHANGED workerVars => WorkersStay
<1>1. UNCHANGED status => KnownStay
  BY DEF KnownStay
<1>2. UNCHANGED queue => QueueStay
  BY DEF QueueStay
<1>3. UNCHANGED workerVars => WorkersStay
  BY BusyWorker DEF WorkersStay, OrderOf
<1> QED
  BY <1>1, <1>2, <1>3

\* The worker's retry message is for the order it holds.
LEMMA RetryType ==
  ASSUME TypeInv, NEW w \in Workers, workerMsg[w] \in Messages, Known(OrderOf(w)),
         \/ workerMsg[w].retry < MaxMsgRetries /\ Put([workerMsg[w] EXCEPT !.retry = @ + 1])
         \/ UNCHANGED queue
  PROVE  QueueTypeOK' /\ QueueStay
<1>1. CASE UNCHANGED queue
  BY <1>1 DEF TypeInv, TypeOK, QueueStay
<1>2. CASE workerMsg[w].retry < MaxMsgRetries /\ Put([workerMsg[w] EXCEPT !.retry = @ + 1])
  <2> DEFINE m == [workerMsg[w] EXCEPT !.retry = @ + 1]
  <2>1. m \in Messages /\ m.order = OrderOf(w)
    BY <1>2, ConstantsOK DEF OrderOf
  <2> HIDE DEF m
  <2>2. QueueTypeOK' /\ \A n \in Messages : queue'[n] > 0 => queue[n] > 0 \/ n = m
    BY <1>2, <2>1, PutType DEF m, TypeInv, TypeOK
  <2> QED
    BY <2>1, <2>2 DEF QueueStay
<1> QED
  BY <1>1, <1>2

\* Every step of a timeout handler keeps the types.
LEMMA WorkerType ==
  ASSUME TypeInv, NEW w \in Workers, Deliver(w) \/ WorkerStep(w) \/ WorkerFault(w)
  PROVE  TypeInv'
<1> USE DEF workFrame
<1>1. CASE Deliver(w)
  <2>1. PICK m \in Messages : /\ queue[m] > 0
                              /\ queue' = [queue EXCEPT ![m] = @ - 1]
                              /\ workerMsg' = [workerMsg EXCEPT ![w] = m]
    BY <1>1 DEF Deliver
  <2>2. Known(m.order) /\ m # NoMessage
    BY <2>1 DEF TypeInv, NoDanglingOrder
  <2>3. queue[m] \in Nat /\ \A n \in Messages : queue[n] \in Nat
    BY Zenon DEF TypeInv, TypeOK
  <2>4. queue[m] - 1 \in Nat
    <3> HIDE DEF Messages, QueueTypeOK
    <3> QED  BY <2>1, <2>3, SMT
  <2>5. QueueTypeOK'
    BY <2>1, <2>4, Zenon DEF TypeInv, TypeOK
  <2>6. QueueStay
    <3>0. QueueTypeOK
      BY DEF TypeInv, TypeOK
    <3>1. \A n \in Messages : n # m => queue'[n] = queue[n]
      BY <2>1, <3>0, Zenon
    <3> QED
      BY <2>1, <3>1, Zenon DEF QueueStay
  <2>7. workerPc' = [workerPc EXCEPT ![w] = "check"] /\ UNCHANGED requeued
    BY <1>1 DEF Deliver
  <2>8. WorkerTypeOK'
    BY <2>1, <2>2, <2>7 DEF TypeInv, TypeOK
  <2>9. WorkersStay
    <3>1. \A v \in Workers : v # w => workerPc'[v] = workerPc[v] /\ workerMsg'[v] = workerMsg[v]
      BY <2>1, <2>7 DEF TypeInv, TypeOK
    <3>2. workerMsg'[w] = m
      BY <2>1 DEF TypeInv, TypeOK
    <3> QED
      BY <2>2, <3>1, <3>2, BusyWorker DEF WorkersStay, OrderOf
  <2>10. UNCHANGED <<redisVars, orderVars, outboxVars, ledgerVars, claimVars, leadVars,
                     scanVars, recVars, faults>>
    BY <1>1 DEF Deliver
  <2>11. TypeOK'
    BY <2>5, <2>8, <2>10 DEF TypeInv, TypeOK
  <2>12. KnownStay /\ recBatch' \subseteq recBatch
    BY <2>10, Unmoved
  <2> QED
    BY <2>6, <2>9, <2>10, <2>11, <2>12, HandlersFrame
<1>2. CASE WorkerCheck(w)
  <2>1. WorkerTypeOK' /\ WorkersStay
    BY <1>2, WorkerGotoType DEF WorkerCheck
  <2>2. UNCHANGED <<redisVars, orderVars, outboxVars, ledgerVars, queue, claimVars, leadVars,
                    scanVars, recVars, faults>>
    BY <1>2 DEF WorkerCheck
  <2>3. TypeOK'
    BY <2>1, <2>2 DEF TypeInv, TypeOK
  <2>4. KnownStay /\ WorkersStay /\ QueueStay /\ recBatch' \subseteq recBatch
    BY <2>1, <2>2, Unmoved DEF TypeInv, TypeOK
  <2> QED
    BY <2>2, <2>3, <2>4, HandlersFrame
<1>3. CASE WorkerConfirm(w)
  <2>1. workerPc[w] # "idle" /\ OrderOf(w) \in Orders /\ Known(OrderOf(w)) /\ UserOf(w) \in Users
    BY <1>3, BusyWorker DEF WorkerConfirm
  <2>2. UNCHANGED <<owner, leads>>
    BY <1>3 DEF WorkerConfirm
  <2>3. ConfirmLeadAndDeduct(OrderOf(w)) /\ leadMark' \subseteq leadMark \cup {UserOf(w)}
    BY <1>3 DEF WorkerConfirm
  <2>4. OrderTypeOK' /\ LedgerTypeOK' /\ KnownStay
    BY <2>1, <2>2, <2>3, ConfirmType DEF TypeInv, TypeOK
  <2>5. RedisTypeOK'
    BY <1>3, <2>1, <2>3 DEF WorkerConfirm, TypeInv, TypeOK
  <2>6. WorkerTypeOK' /\ WorkersStay
    BY <1>3, AckType DEF WorkerConfirm
  <2>7. UNCHANGED <<outboxVars, queue, claimVars, leadVars, scanVars, recVars, faults>>
    BY <1>3 DEF WorkerConfirm
  <2>8. TypeOK'
    BY <2>1, <2>2, <2>3, <2>4, <2>5, <2>6, <2>7 DEF TypeInv, TypeOK
  <2>9. KnownStay /\ WorkersStay /\ QueueStay /\ recBatch' \subseteq recBatch
    BY <2>1, <2>2, <2>3, <2>4, <2>5, <2>6, <2>7, Unmoved DEF TypeInv, TypeOK
  <2> QED
    BY <2>7, <2>8, <2>9, HandlersFrame
<1>4. CASE WorkerRelease(w)
  <2>1. workerPc[w] # "idle" /\ OrderOf(w) \in Orders /\ Known(OrderOf(w)) /\ UserOf(w) \in Users
    BY <1>4, BusyWorker DEF WorkerRelease
  <2>2. UNCHANGED <<owner, leads>> /\ ReleaseOrderOnly(OrderOf(w))
    BY <1>4 DEF WorkerRelease
  <2>3. OrderTypeOK' /\ KnownStay
    BY <2>1, <2>2, ReleaseOrderType DEF TypeInv, TypeOK
  <2>4. WorkerTypeOK' /\ WorkersStay
    BY <1>4, WorkerGotoType DEF WorkerRelease
  <2>5. UNCHANGED <<redisVars, outboxVars, ledgerVars, queue, claimVars, leadVars, scanVars,
                    recVars, faults>>
    BY <1>4 DEF WorkerRelease
  <2>6. TypeOK'
    BY <2>1, <2>2, <2>3, <2>4, <2>5 DEF TypeInv, TypeOK
  <2>7. KnownStay /\ WorkersStay /\ QueueStay /\ recBatch' \subseteq recBatch
    BY <2>1, <2>2, <2>3, <2>4, <2>5, Unmoved DEF TypeInv, TypeOK
  <2> QED
    BY <2>5, <2>6, <2>7, HandlersFrame
<1>5. CASE WorkerRecheck(w)
  <2>1. workerPc[w] # "idle" /\ OrderOf(w) \in Orders /\ Known(OrderOf(w)) /\ UserOf(w) \in Users
    BY <1>5, BusyWorker DEF WorkerRecheck
  <2>2. RedisTypeOK'
    BY <1>5, <2>1 DEF WorkerRecheck, TypeInv, TypeOK
  <2>3. WorkerTypeOK' /\ WorkersStay
    BY <1>5, AckType, WorkerGotoType DEF WorkerRecheck
  <2>4. UNCHANGED <<orderVars, outboxVars, ledgerVars, queue, claimVars, leadVars, scanVars,
                    recVars, faults>>
    BY <1>5 DEF WorkerRecheck
  <2>5. TypeOK'
    BY <2>1, <2>2, <2>3, <2>4 DEF TypeInv, TypeOK
  <2>6. KnownStay /\ WorkersStay /\ QueueStay /\ recBatch' \subseteq recBatch
    BY <2>1, <2>2, <2>3, <2>4, Unmoved DEF TypeInv, TypeOK
  <2> QED
    BY <2>4, <2>5, <2>6, HandlersFrame
<1>6. CASE WorkerLua(w)
  <2>1. workerPc[w] # "idle" /\ OrderOf(w) \in Orders /\ Known(OrderOf(w)) /\ UserOf(w) \in Users
    BY <1>6, BusyWorker DEF WorkerLua
  <2>2. RedisTypeOK'
    BY <1>6, <2>1, LuaReleaseType DEF WorkerLua, TypeInv, TypeOK
  <2>3. WorkerTypeOK' /\ WorkersStay
    BY <1>6, AckType DEF WorkerLua
  <2>4. UNCHANGED <<orderVars, outboxVars, ledgerVars, queue, claimVars, leadVars, scanVars,
                    recVars, faults>>
    BY <1>6 DEF WorkerLua
  <2>5. TypeOK'
    BY <2>1, <2>2, <2>3, <2>4 DEF TypeInv, TypeOK
  <2>6. KnownStay /\ WorkersStay /\ QueueStay /\ recBatch' \subseteq recBatch
    BY <2>1, <2>2, <2>3, <2>4, Unmoved DEF TypeInv, TypeOK
  <2> QED
    BY <2>4, <2>5, <2>6, HandlersFrame
<1>7. CASE WorkerLuaFails(w)
  <2>1. FaultsTypeOK'
    BY <1>7, SpendType DEF WorkerLuaFails, TypeInv, TypeOK
  <2>2. WorkerTypeOK' /\ WorkersStay
    BY <1>7, AckType DEF WorkerLuaFails
  <2>3. UNCHANGED <<redisVars, orderVars, outboxVars, ledgerVars, queue, claimVars, leadVars,
                    scanVars, recVars>>
    BY <1>7 DEF WorkerLuaFails
  <2>4. TypeOK'
    BY <2>1, <2>2, <2>3 DEF TypeInv, TypeOK
  <2>5. KnownStay /\ WorkersStay /\ QueueStay /\ recBatch' \subseteq recBatch
    BY <2>1, <2>2, <2>3, Unmoved DEF TypeInv, TypeOK
  <2> QED
    BY <2>3, <2>4, <2>5, HandlersFrame
<1>8. CASE WorkerDbError(w)
  <2>1. FaultsTypeOK'
    BY <1>8, SpendType DEF WorkerDbError, TypeInv, TypeOK
  <2>2. WorkerTypeOK' /\ WorkersStay
    BY <1>8, AckType, WorkerGotoType DEF WorkerDbError
  <2>3. UNCHANGED <<redisVars, orderVars, outboxVars, ledgerVars, queue, claimVars, leadVars,
                    scanVars, recVars>>
    BY <1>8 DEF WorkerDbError
  <2>4. TypeOK'
    BY <2>1, <2>2, <2>3 DEF TypeInv, TypeOK
  <2>5. KnownStay /\ WorkersStay /\ QueueStay /\ recBatch' \subseteq recBatch
    BY <2>1, <2>2, <2>3, Unmoved DEF TypeInv, TypeOK
  <2> QED
    BY <2>3, <2>4, <2>5, HandlersFrame
<1>9. CASE WorkerRaises(w)
  <2>1. FaultsTypeOK'
    BY <1>9, SpendType DEF WorkerRaises, TypeInv, TypeOK
  <2>2. WorkerTypeOK' /\ WorkersStay
    BY <1>9, AckType DEF WorkerRaises
  <2>3. workerMsg[w] \in Messages /\ Known(OrderOf(w))
    BY <1>9, BusyWorker DEF WorkerRaises
  <2>4. QueueTypeOK' /\ QueueStay
    BY <1>9, <2>3, RetryType DEF WorkerRaises, TypeInv, TypeOK
  <2>5. UNCHANGED <<redisVars, orderVars, outboxVars, ledgerVars, claimVars, leadVars,
                    scanVars, recVars>>
    BY <1>9 DEF WorkerRaises
  <2>6. TypeOK'
    BY <2>1, <2>2, <2>3, <2>4, <2>5 DEF TypeInv, TypeOK
  <2>7. KnownStay /\ WorkersStay /\ QueueStay /\ recBatch' \subseteq recBatch
    BY <2>1, <2>2, <2>3, <2>4, <2>5, Unmoved DEF TypeInv, TypeOK
  <2> QED
    BY <2>5, <2>6, <2>7, HandlersFrame
<1> QED
  BY <1>1, <1>2, <1>3, <1>4, <1>5, <1>6, <1>7, <1>8, <1>9 DEF WorkerStep, WorkerFault

\* A lost connection keeps the types.
LEMMA ConnectionType ==
  ASSUME TypeInv, ConnectionLost
  PROVE  TypeInv'
<1> USE DEF workFrame
<1>1. QueueTypeOK' /\ QueueStay
  BY RedeliveredType DEF ConnectionLost, Redelivered
<1>2. FaultsTypeOK'
  BY SpendType DEF ConnectionLost, TypeInv, TypeOK
<1>3. requeued' \subseteq Workers /\ UNCHANGED <<workerPc, workerMsg>>
  BY DEF ConnectionLost
<1>4. WorkerTypeOK' /\ WorkersStay
  BY <1>3, BusyWorker DEF WorkersStay, OrderOf, TypeInv, TypeOK
<1>5. UNCHANGED <<redisVars, orderVars, outboxVars, ledgerVars, claimVars, leadVars, scanVars,
                  recVars>>
  BY DEF ConnectionLost
<1>6. TypeOK'
  BY <1>1, <1>2, <1>3, <1>4, <1>5 DEF TypeInv, TypeOK
<1>7. KnownStay /\ WorkersStay /\ QueueStay /\ recBatch' \subseteq recBatch
  BY <1>1, <1>2, <1>3, <1>4, <1>5, Unmoved DEF TypeInv, TypeOK
<1> QED
  BY <1>5, <1>6, <1>7, HandlersFrame

\* The reconciliation ends with its snapshot.
LEMMA NextOfBatchType ==
  ASSUME RecTypeOK, NEW o \in recBatch, NextOfBatch(o)
  PROVE  RecTypeOK' /\ recBatch' \subseteq recBatch
  BY DEF NextOfBatch

\* The orders of the snapshot were inserted.
LEMMA SnapshotOrder ==
  ASSUME TypeInv, NEW o \in recBatch
  PROVE  o \in Orders /\ Known(o) /\ owner[o] \in Users
<1>1. o \in Orders /\ Known(o)
  BY DEF TypeInv, TypeOK, NoDanglingOrder
<1> QED
  BY <1>1 DEF TypeInv, TypeOK

\* Every step of the reconciliation keeps the types.
LEMMA RecType ==
  ASSUME TypeInv, RecStart \/ RecStep \/ RecFault
  PROVE  TypeInv'
<1> USE DEF recFrame
<1>1. CASE RecStart
  <2>1. recBatch' = {o \in Orders : status[o] = "claimed"} /\ recBatch' # {} /\ recPc' = "check"
    BY <1>1 DEF RecStart
  <2>2. FaultsTypeOK'
    BY <1>1, SpendType DEF RecStart, TypeInv, TypeOK
  <2>3. UNCHANGED <<redisVars, orderVars, outboxVars, ledgerVars, queue, claimVars, leadVars,
                    scanVars, workerVars>>
    BY <1>1 DEF RecStart
  <2>4. TypeOK'
    BY <2>1, <2>2, <2>3 DEF TypeInv, TypeOK
  <2>5. NoDanglingOrder'
    BY <2>1, <2>3 DEF TypeInv, TypeOK, NoDanglingOrder
  <2>6. BatchIsPending'
    BY <2>3 DEF TypeInv, BatchIsPending
  <2> QED
    BY <2>4, <2>5, <2>6 DEF TypeInv
<1>2. CASE RecCheck
  <2>1. RecTypeOK' /\ recBatch' \subseteq recBatch
    BY <1>2 DEF RecCheck, TypeInv, TypeOK
  <2>2. UNCHANGED <<redisVars, orderVars, outboxVars, ledgerVars, queue, claimVars, leadVars,
                    scanVars, workerVars, faults>>
    BY <1>2 DEF RecCheck
  <2>3. TypeOK'
    BY <2>1, <2>2 DEF TypeInv, TypeOK
  <2>4. KnownStay /\ WorkersStay /\ QueueStay /\ recBatch' \subseteq recBatch
    BY <2>1, <2>2, Unmoved DEF TypeInv, TypeOK
  <2> QED
    BY <2>2, <2>3, <2>4, HandlersFrame
<1>3. CASE RecConfirm
  <2>1. PICK o \in recBatch : /\ ConfirmLeadAndDeduct(o)
                               /\ leadMark' \subseteq leadMark \cup {owner[o]}
                               /\ NextOfBatch(o)
    BY <1>3 DEF RecConfirm
  <2>2. o \in Orders /\ Known(o) /\ owner[o] \in Users
    BY SnapshotOrder
  <2>3. UNCHANGED <<stock, claimed, owner, leads>>
    BY <1>3 DEF RecConfirm
  <2>4. OrderTypeOK' /\ LedgerTypeOK' /\ KnownStay
    BY <2>1, <2>2, <2>3, ConfirmType DEF TypeInv, TypeOK
  <2>5. RedisTypeOK'
    BY <2>1, <2>2, <2>3 DEF TypeInv, TypeOK
  <2>6. RecTypeOK' /\ recBatch' \subseteq recBatch
    BY <2>1, NextOfBatchType DEF TypeInv, TypeOK
  <2>7. UNCHANGED <<outboxVars, queue, claimVars, leadVars, scanVars, workerVars, faults>>
    BY <1>3 DEF RecConfirm
  <2>8. TypeOK'
    BY <2>1, <2>2, <2>3, <2>4, <2>5, <2>6, <2>7 DEF TypeInv, TypeOK
  <2>9. KnownStay /\ WorkersStay /\ QueueStay /\ recBatch' \subseteq recBatch
    BY <2>1, <2>2, <2>3, <2>4, <2>5, <2>6, <2>7, Unmoved DEF TypeInv, TypeOK
  <2> QED
    BY <2>7, <2>8, <2>9, HandlersFrame
<1>4. CASE RecRelease
  <2>1. PICK o \in recBatch : /\ ReleaseOrderOnly(o)
                               /\ \/ recPc' = "lua" /\ UNCHANGED recBatch
                                  \/ NextOfBatch(o)
    BY <1>4 DEF RecRelease
  <2>2. UNCHANGED <<owner, leads>>
    BY <1>4 DEF RecRelease
  <2>3. OrderTypeOK' /\ KnownStay
    BY <2>1, <2>2, SnapshotOrder, ReleaseOrderType DEF TypeInv, TypeOK
  <2>4. RecTypeOK' /\ recBatch' \subseteq recBatch
    BY <2>1, NextOfBatchType DEF TypeInv, TypeOK
  <2>5. UNCHANGED <<redisVars, outboxVars, ledgerVars, queue, claimVars, leadVars, scanVars,
                    workerVars, faults>>
    BY <1>4 DEF RecRelease
  <2>6. TypeOK'
    BY <2>1, <2>2, <2>3, <2>4, <2>5 DEF TypeInv, TypeOK
  <2>7. KnownStay /\ WorkersStay /\ QueueStay /\ recBatch' \subseteq recBatch
    BY <2>1, <2>2, <2>3, <2>4, <2>5, Unmoved DEF TypeInv, TypeOK
  <2> QED
    BY <2>5, <2>6, <2>7, HandlersFrame
<1>5. CASE RecLua
  <2>1. PICK o \in recBatch : LuaRelease(owner[o]) /\ NextOfBatch(o)
    BY <1>5 DEF RecLua
  <2>2. UNCHANGED leadMark
    BY <1>5 DEF RecLua
  <2>3. RedisTypeOK'
    BY <2>1, <2>2, SnapshotOrder, LuaReleaseType DEF TypeInv, TypeOK
  <2>4. RecTypeOK' /\ recBatch' \subseteq recBatch
    BY <2>1, NextOfBatchType DEF TypeInv, TypeOK
  <2>5. UNCHANGED <<orderVars, outboxVars, ledgerVars, queue, claimVars, leadVars, scanVars,
                    workerVars, faults>>
    BY <1>5 DEF RecLua
  <2>6. TypeOK'
    BY <2>1, <2>2, <2>3, <2>4, <2>5 DEF TypeInv, TypeOK
  <2>7. KnownStay /\ WorkersStay /\ QueueStay /\ recBatch' \subseteq recBatch
    BY <2>1, <2>2, <2>3, <2>4, <2>5, Unmoved DEF TypeInv, TypeOK
  <2> QED
    BY <2>5, <2>6, <2>7, HandlersFrame
<1>6. CASE RecSkip
  <2>1. PICK o \in recBatch : NextOfBatch(o)
    BY <1>6 DEF RecSkip
  <2>2. RecTypeOK' /\ recBatch' \subseteq recBatch
    BY <2>1, NextOfBatchType DEF TypeInv, TypeOK
  <2>3. FaultsTypeOK'
    BY <1>6, SpendType DEF RecSkip, TypeInv, TypeOK
  <2>4. UNCHANGED <<redisVars, orderVars, outboxVars, ledgerVars, queue, claimVars, leadVars,
                    scanVars, workerVars>>
    BY <1>6 DEF RecSkip
  <2>5. TypeOK'
    BY <2>1, <2>2, <2>3, <2>4 DEF TypeInv, TypeOK
  <2>6. KnownStay /\ WorkersStay /\ QueueStay /\ recBatch' \subseteq recBatch
    BY <2>1, <2>2, <2>3, <2>4, Unmoved DEF TypeInv, TypeOK
  <2> QED
    BY <2>4, <2>5, <2>6, HandlersFrame
<1>7. CASE RecDies
  <2>1. RecTypeOK' /\ recBatch' \subseteq recBatch
    BY <1>7 DEF RecDies
  <2>2. FaultsTypeOK'
    BY <1>7, SpendType DEF RecDies, TypeInv, TypeOK
  <2>3. UNCHANGED <<redisVars, orderVars, outboxVars, ledgerVars, queue, claimVars, leadVars,
                    scanVars, workerVars>>
    BY <1>7 DEF RecDies
  <2>4. TypeOK'
    BY <2>1, <2>2, <2>3 DEF TypeInv, TypeOK
  <2>5. KnownStay /\ WorkersStay /\ QueueStay /\ recBatch' \subseteq recBatch
    BY <2>1, <2>2, <2>3, Unmoved DEF TypeInv, TypeOK
  <2> QED
    BY <2>3, <2>4, <2>5, HandlersFrame
<1> QED
  BY <1>1, <1>2, <1>3, <1>4, <1>5, <1>6, <1>7 DEF RecStep, RecFault

-----------------------------------------------------------------------------
\* An expiring key keeps the types.
LEMMA ExpiryType ==
  ASSUME TypeInv, NEW u \in Users, ClaimedKeyExpires(u)
  PROVE  TypeInv'
<1>1. RedisTypeOK'
  BY DEF ClaimedKeyExpires, TypeInv, TypeOK
<1>2. FaultsTypeOK'
  BY SpendType DEF ClaimedKeyExpires, TypeInv, TypeOK
<1>3. UNCHANGED <<orderVars, outboxVars, ledgerVars, queue, claimVars, leadVars, scanVars,
                  workerVars, recVars>>
  BY DEF ClaimedKeyExpires
<1> QED
  BY <1>1, <1>2, <1>3 DEF TypeInv, TypeOK, NoDanglingOrder, BatchIsPending

\* A restart keeps the types.
LEMMA RestartType ==
  ASSUME TypeInv, Restart
  PROVE  TypeInv'
<1>1. RedisTypeOK' /\ FaultsTypeOK'
  <2>1. stock' \in Int /\ UNCHANGED <<claimed, leadMark>>
    BY DEF Restart, InitStock, TypeInv, TypeOK
  <2>2. FaultsTypeOK'
    BY SpendType DEF Restart, InitStock, TypeInv, TypeOK
  <2> QED
    BY <2>1, <2>2 DEF TypeInv, TypeOK
<1>2. QueueTypeOK' /\ QueueStay
  BY RedeliveredType DEF Restart, Redelivered
<1>3. /\ claimPc' = [r \in Requests |-> "idle"]
      /\ leadPc' = [u \in Users |-> "idle"] /\ leadOrder' = [u \in Users |-> 0]
      /\ batch' = {} /\ unmarked' = 0
      /\ workerPc' = [w \in Workers |-> "idle"]
      /\ workerMsg' = [w \in Workers |-> NoMessage]
      /\ requeued' = {}
  BY DEF Restart
<1>4. ClaimTypeOK' /\ LeadTypeOK' /\ ScanTypeOK' /\ WorkerTypeOK'
  BY <1>3
<1>5. UNCHANGED <<orderVars, outboxVars, ledgerVars, recVars>>
  BY DEF Restart
<1>6. TypeOK'
  BY <1>1, <1>2, <1>4, <1>5 DEF TypeInv, TypeOK
<1>7. NoDanglingOrder'
  BY <1>2, <1>3, <1>5 DEF TypeInv, TypeOK, NoDanglingOrder, QueueStay
<1>8. BatchIsPending'
  BY <1>3, <1>5 DEF TypeInv, BatchIsPending
<1> QED
  BY <1>6, <1>7, <1>8 DEF TypeInv

\* TypeInv is inductive.
LEMMA StepType == TypeInv /\ [Next]_vars => TypeInv'
<1> SUFFICES ASSUME TypeInv, [Next]_vars PROVE TypeInv'
  OBVIOUS
<1>1. CASE Requested
  BY <1>1, ClaimType, LeadType, RecType DEF Requested
<1>2. CASE System
  BY <1>2, ClaimType, LeadType, ScanType, WorkerType, RecType DEF System
<1>3. CASE Failure
  BY <1>3, ClaimType, LeadType, ScanType, WorkerType, RecType, ExpiryType,
     ConnectionType, RestartType DEF Failure
<1>4. CASE UNCHANGED vars
  <2>1. UNCHANGED <<redisVars, orderVars, outboxVars, ledgerVars, queue, claimVars, leadVars,
                    scanVars, workerVars, recVars, faults>>
    BY <1>4 DEF vars
  <2>2. TypeOK'
    BY <2>1 DEF TypeInv, TypeOK
  <2> QED
    BY <2>1, <2>2, Unmoved, HandlersFrame
<1> QED
  BY <1>1, <1>2, <1>3, <1>4 DEF Next

\* TypeOK holds in every reachable state of the system, and with it that no
\* message, handler or snapshot names an order that was never inserted, and
\* that the rows the scanner holds are still 'init' with attempts left
\* (claim_in_transaction, _process_record, _handle_timeout, coupon_reconcile).
THEOREM TypeInvariant == Spec => []TypeInv
<1>1. TypeInv /\ [Next]_vars => TypeInv'
  BY StepType
<1> QED
  BY <1>1, TypeInit, PTL DEF Spec

\* TypeOK holds in every reachable state, whatever the constants.
THEOREM TypeCorrect == Spec => []TypeOK
<1>1. TypeInv => TypeOK
  BY DEF TypeInv
<1> QED
  BY <1>1, TypeInvariant, PTL

-----------------------------------------------------------------------------
(***************************************************************************)
(* What one step may do to an order, the MySQL stock, an outbox row and    *)
(* the Redis stock.  Everything else in this module follows from it.       *)
(***************************************************************************)

OrderMove ==
    \A o \in Orders :
        \/ status'[o] = status[o]
        \/ status[o] = "none" /\ status'[o] = "claimed"
        \/ status[o] = "claimed" /\ status'[o] = "released"
        \/ status[o] # "none" /\ status'[o] = "lead_submitted"

LedgerMove ==
    \/ UNCHANGED ledgerVars
    \/ \E o \in Orders :
         /\ status[o] = "claimed" /\ status'[o] = "lead_submitted" /\ remaining > 0
         /\ remaining' = remaining - 1
         /\ deducted' = deducted \cup {o}

OutboxMove ==
    \A o \in Orders :
        outbox'[o] = outbox[o] \/ outbox[o] \in {"none", "init"} \/ outbox'[o] = "sent"

StockMove == stock >= 0 /\ remaining >= 0 => stock' >= 0

Moves == OrderMove /\ LedgerMove /\ OutboxMove /\ StockMove

\* A step that touches none of the four.
LEMMA Quiet ==
  ASSUME UNCHANGED <<status, ledgerVars, outbox, stock>>
  PROVE  Moves
  BY DEF Moves, OrderMove, LedgerMove, OutboxMove, StockMove

\* A confirmation, by the worker or the reconciliation.
LEMMA ConfirmMoves ==
  ASSUME TypeInv, NEW o \in Orders, ConfirmLeadAndDeduct(o), UNCHANGED <<outbox, stock>>
  PROVE  Moves
<1>1. CASE status[o] = "claimed" /\ remaining > 0
  <2>1. /\ status' = [status EXCEPT ![o] = "lead_submitted"]
        /\ remaining' = remaining - 1
        /\ deducted' = deducted \cup {o}
    BY <1>1 DEF ConfirmLeadAndDeduct
  <2>2. \A p \in Orders : status'[p] = IF p = o THEN "lead_submitted" ELSE status[p]
    BY <2>1 DEF TypeInv, TypeOK
  <2>3. OrderMove
    BY <1>1, <2>2 DEF OrderMove
  <2>4. LedgerMove
    BY <1>1, <2>1, <2>2 DEF LedgerMove
  <2> QED
    BY <2>3, <2>4 DEF Moves, OutboxMove, StockMove
<1>2. CASE ~(status[o] = "claimed" /\ remaining > 0)
  BY <1>2, Quiet DEF ConfirmLeadAndDeduct
<1> QED
  BY <1>1, <1>2

\* A release in MySQL.
LEMMA ReleaseMoves ==
  ASSUME TypeInv, NEW o \in Orders, ReleaseOrderOnly(o), UNCHANGED <<ledgerVars, outbox, stock>>
  PROVE  Moves
<1>1. \A p \in Orders :
        status'[p] = IF p = o /\ status[o] = "claimed" THEN "released" ELSE status[p]
  BY DEF ReleaseOrderOnly, TypeInv, TypeOK
<1> QED
  BY <1>1 DEF Moves, OrderMove, LedgerMove, OutboxMove, StockMove

\* The ways the Redis stock changes.
LEMMA StockMoves ==
  ASSUME TypeInv, UNCHANGED <<status, ledgerVars, outbox>>,
         \/ stock' = stock
         \/ stock > 0 /\ stock' = stock - 1
         \/ stock' = stock + 1
         \/ stock' = remaining
  PROVE  Moves
<1>1. stock \in Int /\ remaining \in Int
  BY DEF TypeInv, TypeOK
<1> QED
  BY <1>1 DEF Moves, OrderMove, LedgerMove, OutboxMove, StockMove

\* One lemma per component.
LEMMA ClaimMoves ==
  ASSUME TypeInv, NEW r \in Requests,
         ClaimReserve(r) \/ ClaimStep(r) \/ ClaimFault(r)
  PROVE  Moves
<1> USE DEF claimFrame
<1>1. CASE ClaimReserve(r)
  BY <1>1, StockMoves DEF ClaimReserve, LuaClaim
<1>2. CASE ClaimSelect(r)
  BY <1>2, Quiet DEF ClaimSelect
<1>3. CASE ClaimInsert(r)
  <2>1. PICK o \in Orders : /\ NextOrder(o)
                            /\ status' = [status EXCEPT ![o] = "claimed"]
                            /\ outbox' = [outbox EXCEPT ![o] = "init"]
    BY <1>3 DEF ClaimInsert
  <2>2. status[o] = "none" /\ outbox[o] = "none"
    BY <2>1 DEF NextOrder, TypeInv, NoDanglingOrder
  <2>3. \A p \in Orders : p # o => status'[p] = status[p] /\ outbox'[p] = outbox[p]
    BY <2>1 DEF TypeInv, TypeOK
  <2>4. status'[o] = "claimed"
    BY <2>1 DEF TypeInv, TypeOK
  <2>5. UNCHANGED <<ledgerVars, stock>>
    BY <1>3 DEF ClaimInsert
  <2> QED
    BY <2>2, <2>3, <2>4, <2>5 DEF Moves, OrderMove, LedgerMove, OutboxMove, StockMove
<1>4. CASE ClaimDbError(r)
  BY <1>4, Quiet DEF ClaimDbError
<1>5. CASE ClaimRollback(r)
  BY <1>5, StockMoves DEF ClaimRollback, LuaRollback
<1>6. CASE ClaimAbandon(r)
  BY <1>6, Quiet DEF ClaimAbandon
<1> QED
  BY <1>1, <1>2, <1>3, <1>4, <1>5, <1>6 DEF ClaimStep, ClaimFault

\* What the lead endpoint does.
LEMMA LeadMoves ==
  ASSUME TypeInv, NEW u \in Users, LeadCheck(u) \/ LeadStep(u) \/ LeadFault(u)
  PROVE  Moves
<1> USE DEF leadFrame
<1>1. CASE LeadUpdate(u)
  <2>1. /\ leadOrder[u] \in Orders /\ status[leadOrder[u]] # "none"
        /\ status' = [status EXCEPT ![leadOrder[u]] = "lead_submitted"]
    BY <1>1 DEF LeadUpdate, TypeInv, TypeOK, NoDanglingOrder
  <2>2. OrderMove
    BY <2>1 DEF OrderMove, TypeInv, TypeOK
  <2>3. UNCHANGED <<ledgerVars, outbox, stock>>
    BY <1>1 DEF LeadUpdate
  <2> QED
    BY <2>2, <2>3 DEF Moves, LedgerMove, OutboxMove, StockMove
<1>2. CASE LeadCheck(u) \/ LeadFind(u) \/ LeadInsert(u) \/ LeadMark(u) \/ LeadFault(u)
  BY <1>2, Quiet DEF LeadCheck, LeadFind, LeadInsert, LeadMark, LeadFault, LeadDbError, LeadMarkFails
<1> QED
  BY <1>1, <1>2 DEF LeadStep

\* What the scanner does.
LEMMA ScanMoves ==
  ASSUME TypeInv, ScanStep \/ ScanFault
  PROVE  Moves
<1> USE DEF scanFrame
<1>1. CASE ScanMarkSent
  <2>1. unmarked \in Orders /\ outbox' = [outbox EXCEPT ![unmarked] = "sent"]
    BY <1>1 DEF ScanMarkSent, TypeInv, TypeOK
  <2>2. OutboxMove
    BY <2>1 DEF OutboxMove, TypeInv, TypeOK
  <2>3. UNCHANGED <<status, ledgerVars, stock>>
    BY <1>1 DEF ScanMarkSent
  <2> QED
    BY <2>2, <2>3 DEF Moves, OrderMove, LedgerMove, StockMove
<1>2. CASE ScanPublishFails
  <2>1. PICK o \in batch :
          outbox' = IF retries[o] + 1 >= MaxOutboxRetries
                    THEN [outbox EXCEPT ![o] = "failed"] ELSE outbox
    BY <1>2 DEF ScanPublishFails
  <2>2. o \in Orders /\ outbox[o] = "init"
    BY DEF TypeInv, TypeOK, BatchIsPending
  <2>3. \A p \in Orders : p # o => outbox'[p] = outbox[p]
    BY <2>1 DEF TypeInv, TypeOK
  <2>4. UNCHANGED <<status, ledgerVars, stock>>
    BY <1>2 DEF ScanPublishFails
  <2> QED
    BY <2>2, <2>3, <2>4 DEF Moves, OrderMove, LedgerMove, OutboxMove, StockMove
<1>3. CASE ScanFetch \/ ScanPublish \/ ScanMarkFails
  BY <1>3, Quiet DEF ScanFetch, ScanPublish, ScanMarkFails
<1> QED
  BY <1>1, <1>2, <1>3 DEF ScanStep, ScanFault

\* What the worker does.
LEMMA WorkerMoves ==
  ASSUME TypeInv, NEW w \in Workers,
         Deliver(w) \/ WorkerStep(w) \/ WorkerFault(w)
  PROVE  Moves
<1> USE DEF workFrame
<1>1. workerPc[w] # "idle" => OrderOf(w) \in Orders
  BY BusyWorker
<1>2. CASE WorkerConfirm(w)
  BY <1>1, <1>2, ConfirmMoves DEF WorkerConfirm
<1>3. CASE WorkerRelease(w)
  BY <1>1, <1>3, ReleaseMoves DEF WorkerRelease
<1>4. CASE WorkerLua(w)
  BY <1>4, StockMoves DEF WorkerLua, LuaRelease
<1>5. CASE Deliver(w) \/ WorkerCheck(w) \/ WorkerRecheck(w) \/ WorkerFault(w)
  BY <1>5, Quiet DEF Deliver, WorkerCheck, WorkerRecheck, WorkerFault,
                     WorkerLuaFails, WorkerDbError, WorkerRaises
<1> QED
  BY <1>2, <1>3, <1>4, <1>5 DEF WorkerStep

\* What the reconciliation does.
LEMMA RecMoves ==
  ASSUME TypeInv, RecStart \/ RecStep \/ RecFault
  PROVE  Moves
<1> USE DEF recFrame
<1>1. CASE RecConfirm
  <2>1. PICK o \in recBatch : ConfirmLeadAndDeduct(o)
    BY <1>1 DEF RecConfirm
  <2>2. UNCHANGED <<outbox, stock>>
    BY <1>1 DEF RecConfirm
  <2> QED
    BY <2>1, <2>2, SnapshotOrder, ConfirmMoves
<1>2. CASE RecRelease
  <2>1. PICK o \in recBatch : ReleaseOrderOnly(o)
    BY <1>2 DEF RecRelease
  <2>2. UNCHANGED <<ledgerVars, outbox, stock>>
    BY <1>2 DEF RecRelease
  <2> QED
    BY <2>1, <2>2, SnapshotOrder, ReleaseMoves
<1>3. CASE RecLua
  BY <1>3, StockMoves DEF RecLua, LuaRelease
<1>4. CASE RecStart \/ RecCheck \/ RecFault
  BY <1>4, Quiet DEF RecStart, RecCheck, RecFault, RecSkip, RecDies
<1> QED
  BY <1>1, <1>2, <1>3, <1>4 DEF RecStep

\* Every step of the system is one of these moves.
LEMMA StepMoves == TypeInv /\ [Next]_vars => Moves
<1> SUFFICES ASSUME TypeInv, [Next]_vars PROVE Moves
  OBVIOUS
<1>1. CASE Requested
  BY <1>1, ClaimMoves, LeadMoves, RecMoves DEF Requested
<1>2. CASE System
  BY <1>2, ClaimMoves, LeadMoves, ScanMoves, WorkerMoves, RecMoves DEF System
<1>3. CASE Failure
  <2>1. ASSUME NEW u \in Users, ClaimedKeyExpires(u) PROVE Moves
    BY <2>1, Quiet DEF ClaimedKeyExpires
  <2>2. CASE ConnectionLost
    BY <2>2, Quiet DEF ConnectionLost, workFrame
  <2>3. CASE Restart
    BY <2>3, StockMoves DEF Restart, InitStock
  <2> QED
    BY <1>3, <2>1, <2>2, <2>3, ClaimMoves, LeadMoves, ScanMoves, WorkerMoves, RecMoves DEF Failure
<1>4. CASE UNCHANGED vars
  BY <1>4, Quiet DEF vars
<1> QED
  BY <1>1, <1>2, <1>3, <1>4 DEF Next

-----------------------------------------------------------------------------
(***************************************************************************)
(* The invariant, and the theorems                                         *)
(***************************************************************************)

SafeInv == TypeInv /\ LedgerBalanced /\ StockNeverNegative

\* The initial books balance.
LEMMA SafeInit == Init => SafeInv
<1> SUFFICES ASSUME Init PROVE SafeInv
  OBVIOUS
<1>1. TypeInv
  BY TypeInit
<1>2. LedgerBalanced
  BY ConstantsOK, FS_EmptySet DEF Init, LedgerBalanced
<1>3. StockNeverNegative
  BY ConstantsOK DEF Init, StockNeverNegative
<1> QED
  BY <1>1, <1>2, <1>3 DEF SafeInv

\* A deduction adds an order that was not deducted yet.
LEMMA LedgerStep ==
  ASSUME TypeInv, LedgerBalanced, OrderMove, LedgerMove
  PROVE  LedgerBalanced'
<1>1. \A o \in deducted : status[o] = "lead_submitted" /\ status'[o] = "lead_submitted"
  BY DEF TypeInv, TypeOK, LedgerBalanced, OrderMove
<1>2. CASE UNCHANGED ledgerVars
  BY <1>1, <1>2 DEF LedgerBalanced
<1>3. CASE ~UNCHANGED ledgerVars
  <2>1. PICK o \in Orders : /\ status[o] = "claimed" /\ status'[o] = "lead_submitted"
                            /\ remaining > 0 /\ remaining' = remaining - 1
                            /\ deducted' = deducted \cup {o}
    BY <1>3 DEF LedgerMove
  <2>2. o \notin deducted
    BY <1>1, <2>1
  <2>3. IsFiniteSet(deducted)
    <3>1. IsFiniteSet(1..MaxOrders)
      BY ConstantsOK, FS_Interval
    <3>2. deducted \in SUBSET (1..MaxOrders)
      BY DEF TypeInv, TypeOK
    <3> QED
      BY <3>1, <3>2, FS_Subset
  <2>4. Cardinality(deducted') = Cardinality(deducted) + 1 /\ Cardinality(deducted) \in Nat
    BY <2>1, <2>2, <2>3, FS_AddElement, FS_CardinalityType
  <2>5. remaining \in Int /\ remaining = Total - Cardinality(deducted)
    BY DEF TypeInv, TypeOK, LedgerBalanced
  <2>6. remaining' = Total - Cardinality(deducted') /\ remaining' >= 0
    BY <2>1, <2>4, <2>5, ConstantsOK
  <2>7. \A p \in deducted' : status'[p] = "lead_submitted"
    BY <1>1, <2>1
  <2> QED
    BY <2>6, <2>7 DEF LedgerBalanced
<1> QED
  BY <1>2, <1>3

\* SafeInv is inductive.
LEMMA SafeStep == SafeInv /\ [Next]_vars => SafeInv'
<1> SUFFICES ASSUME SafeInv, [Next]_vars PROVE SafeInv'
  OBVIOUS
<1>1. TypeInv'
  BY StepType DEF SafeInv
<1>2. Moves
  BY StepMoves DEF SafeInv
<1>3. LedgerBalanced'
  BY <1>2, LedgerStep DEF SafeInv, Moves
<1>4. StockNeverNegative'
  BY <1>2 DEF SafeInv, Moves, StockMove, StockNeverNegative, LedgerBalanced
<1> QED
  BY <1>1, <1>3, <1>4 DEF SafeInv

\* SafeInv holds in every reachable state.
LEMMA SafeInvariant == Spec => []SafeInv
  BY SafeInit, SafeStep, PTL DEF Spec

\* The MySQL stock always is the total minus the orders that took a unit, each
\* of them once and locked, under any number of redeliveries, restarts and
\* reconciliations (confirm_lead_and_deduct).
THEOREM LedgerAlwaysBalanced == Spec => []LedgerBalanced
<1>1. SafeInv => LedgerBalanced
  BY DEF SafeInv
<1> QED
  BY <1>1, SafeInvariant, PTL

\* The sellable stock never falls below zero: only a claim that saw a unit
\* takes one, and a restart overwrites it with the MySQL stock, which is never
\* negative either (coupon_claim.lua, init_stock).
THEOREM StockStaysNonNegative == Spec => []StockNeverNegative
<1>1. SafeInv => StockNeverNegative
  BY DEF SafeInv
<1> QED
  BY <1>1, SafeInvariant, PTL

\* No step of any handler moves an order out of 'lead_submitted'
\* (release_order_only, confirm_lead_and_deduct, update_order_status).
THEOREM LockIsFinal == Spec => LockedForGood
<1>1. TypeInv /\ [Next]_vars =>
        [\A o \in Orders : status[o] = "lead_submitted" => status'[o] = "lead_submitted"]_vars
  BY StepMoves DEF Moves, OrderMove
<1> QED
  BY <1>1, TypeInvariant, PTL DEF Spec, LockedForGood

\* A row is given up after max_retries failed publishes and not before, and a
\* row that was sent or given up is not taken up again (_process_record,
\* mark_outbox_failed, mark_outbox_sent).
THEOREM OutboxIsFinal == Spec => OutboxGivesUpLate
<1> DEFINE Late ==
      \A o \in Orders :
         /\ outbox'[o] = "failed" => retries'[o] = MaxOutboxRetries
         /\ outbox[o] \in {"sent", "failed"} => outbox'[o] \in {outbox[o], "sent"}
<1>1. TypeInv /\ TypeInv' /\ [Next]_vars => Late
  <2> SUFFICES ASSUME TypeInv, TypeInv', [Next]_vars, NEW o \in Orders
               PROVE  /\ outbox'[o] = "failed" => retries'[o] = MaxOutboxRetries
                      /\ outbox[o] \in {"sent", "failed"} => outbox'[o] \in {outbox[o], "sent"}
    OBVIOUS
  <2>1. outbox'[o] = "failed" => retries'[o] = MaxOutboxRetries
    BY DEF TypeInv, BatchIsPending
  <2>2. OutboxMove
    BY StepMoves DEF Moves
  <2> QED
    BY <2>1, <2>2 DEF OutboxMove
<1>2. TypeInv /\ TypeInv' /\ [Next]_vars => [Late]_vars
  BY <1>1
<1> QED
  BY <1>2, TypeInvariant, PTL DEF Spec, OutboxGivesUpLate

=============================================================================
