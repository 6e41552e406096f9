------------------------- MODULE CouponRecoveryProofs -------------------------
(***************************************************************************)
(* No timeout is lost.  While MySQL answers, every order that is still     *)
(* claimed has its timeout message in the outbox, in a queue or in a       *)
(* handler, through any number of crashes of the API process, lost         *)
(* connections, lost outbox marks, failed publishes, failed Redis calls    *)
(* and reconciliations.                                                    *)
(***************************************************************************)
EXTENDS CouponSafetyProofs

USE DEF Orders, Requests, Messages, NoMessage, Status, Known
USE DEF RedisTypeOK, OrderTypeOK, OutboxTypeOK, LedgerTypeOK, QueueTypeOK,
        ClaimTypeOK, LeadTypeOK, ScanTypeOK, WorkerTypeOK, RecTypeOK, FaultsTypeOK
USE DEF redisVars, orderVars, outboxVars, ledgerVars, dbVars,
        claimVars, leadVars, scanVars, workerVars, recVars

\* Underway, without the handlers whose delivery the broker took back: their
\* acknowledgement counts for nothing, another copy carries the timeout.
Tracked(o) ==
    \/ outbox[o] = "init" /\ unmarked # o
    \/ \E m \in Messages : m.order = o /\ queue[m] > 0
    \/ \E w \in Workers \ requeued : workerPc[w] # "idle" /\ OrderOf(w) = o

GivenUp(o) == outbox[o] = "failed" \/ Exhausted(o)

ClaimedIsTracked == \A o \in Orders : status[o] = "claimed" => Tracked(o) \/ GivenUp(o)

\* What a handler has found out about its order stays true while it goes on.
WorkerKnows ==
    /\ \A w \in Workers : workerPc[w] = "confirm" => HasLead(OrderOf(w))
    /\ \A w \in Workers : workerPc[w] \in {"recheck", "lua"} => status[OrderOf(w)] # "claimed"
    /\ \A w \in requeued : workerPc[w] # "idle"
    /\ \A o \in leads : Known(o)

TrackInv == SafeInv /\ ClaimedIsTracked /\ WorkerKnows

-----------------------------------------------------------------------------
(***************************************************************************)
(* What one step may do to the trace of an order                           *)
(***************************************************************************)

LeadsStay == \A o \in Orders : Known(o) /\ HasLead(o) => HasLead(o)'

LeadsKnown == \A o \in leads' : status'[o] # "none"

TraceStays ==
    \A o \in Orders :
        status[o] = "claimed" /\ status'[o] = "claimed" /\ Tracked(o) => Tracked(o)' \/ GivenUp(o)'

FreshIsTracked ==
    \A o \in Orders : status[o] # "claimed" /\ status'[o] = "claimed" => Tracked(o)'

FailedStays == \A o \in Orders : outbox[o] = "failed" => outbox'[o] = "failed"

WorkerMove ==
    /\ \A w \in Workers :
         \/ workerPc'[w] \in {"idle", "check", "release"}
         \/ workerPc'[w] = workerPc[w] /\ workerMsg'[w] = workerMsg[w]
         \/ workerPc'[w] = "confirm" /\ HasLead(OrderOf(w))'
         \/ workerPc'[w] \in {"recheck", "lua"} /\ status'[workerMsg'[w].order] # "claimed"
    /\ \A w \in requeued' : workerPc'[w] # "idle"

TraceMoves ==
    LeadsStay /\ LeadsKnown /\ TraceStays /\ FreshIsTracked /\ FailedStays /\ WorkerMove

\* These moves are enough for TrackInv.
LEMMA TrackStep ==
  ASSUME TrackInv, SafeInv', Moves, TraceMoves
  PROVE  TrackInv'
<1>1. ASSUME NEW o \in Orders, status'[o] = "claimed"
      PROVE  Tracked(o)' \/ GivenUp(o)'
  <2>1. CASE status[o] # "claimed"
    BY <1>1, <2>1 DEF TraceMoves, FreshIsTracked
  <2>2. CASE status[o] = "claimed" /\ Tracked(o)
    BY <1>1, <2>2 DEF TraceMoves, TraceStays
  <2>3. CASE status[o] = "claimed" /\ outbox[o] = "failed"
    BY <2>3 DEF TraceMoves, FailedStays, GivenUp
  <2>4. CASE status[o] = "claimed" /\ Exhausted(o)
    <3>1. HasLead(o)'
      BY <2>4 DEF TraceMoves, LeadsStay, Exhausted
    <3>2. remaining' = 0
      BY <2>4 DEF Moves, LedgerMove, Exhausted
    <3> QED
      BY <3>1, <3>2 DEF GivenUp, Exhausted
  <2> QED
    BY <2>1, <2>2, <2>3, <2>4 DEF TrackInv, ClaimedIsTracked, GivenUp
<1>2. ClaimedIsTracked'
  BY <1>1 DEF ClaimedIsTracked
<1>3. WorkerKnows'
  <2>1. ASSUME NEW w \in Workers, workerPc'[w] = workerPc[w], workerMsg'[w] = workerMsg[w],
               workerPc[w] # "idle"
        PROVE  /\ workerPc[w] = "confirm" => HasLead(OrderOf(w))'
               /\ workerPc[w] \in {"recheck", "lua"} => status'[workerMsg'[w].order] # "claimed"
    <3>1. OrderOf(w) \in Orders /\ Known(OrderOf(w))
      BY <2>1, BusyWorker DEF TrackInv, SafeInv
    <3>2. OrderOf(w)' = OrderOf(w)
      BY <2>1 DEF OrderOf
    <3>3. workerPc[w] = "confirm" => HasLead(OrderOf(w))'
      BY <3>1, <3>2 DEF TrackInv, WorkerKnows, TraceMoves, LeadsStay, HasLead
    <3>4. workerPc[w] \in {"recheck", "lua"} => status'[OrderOf(w)] # "claimed"
      BY <3>1 DEF TrackInv, WorkerKnows, Moves, OrderMove
    <3> QED
      BY <3>2, <3>3, <3>4 DEF OrderOf
  <2>2. \A w \in Workers : workerPc'[w] = "confirm" => HasLead(OrderOf(w))'
    BY <2>1 DEF TraceMoves, WorkerMove
  <2>3. \A w \in Workers : workerPc'[w] \in {"recheck", "lua"} => status'[workerMsg'[w].order] # "claimed"
    BY <2>1 DEF TraceMoves, WorkerMove
  <2> QED
    BY <2>2, <2>3 DEF WorkerKnows, OrderOf, TraceMoves, WorkerMove, LeadsKnown
<1> QED
  BY <1>2, <1>3 DEF TrackInv

\* A lead is not lost while owners and leads stay.
LEMMA OwnersStay ==
  ASSUME TrackInv, \A o \in Orders : Known(o) => owner'[o] = owner[o], leads \subseteq leads'
  PROVE  LeadsStay
<1>1. \A o \in leads : o \in Orders /\ Known(o)
  BY DEF TrackInv, SafeInv, TypeInv, TypeOK, WorkerKnows
<1> QED
  BY <1>1 DEF LeadsStay, HasLead

\* Steps outside the outbox, the queues and the handlers of timeouts.
LEMMA TraceQuiet ==
  ASSUME TrackInv, OrderMove, UNCHANGED <<outbox, unmarked, queue, workerVars, owner, leads>>,
         \A o \in Orders : status'[o] = "claimed" => status[o] = "claimed"
  PROVE  TraceMoves
<1>1. LeadsStay
  BY OwnersStay
<1>2. LeadsKnown
  BY DEF TrackInv, SafeInv, TypeInv, TypeOK, WorkerKnows, LeadsKnown, OrderMove
<1>3. TraceStays
  BY DEF TraceStays, Tracked, OrderOf
<1>4. FreshIsTracked /\ FailedStays /\ WorkerMove
  BY DEF FreshIsTracked, FailedStays, WorkerMove, TrackInv, WorkerKnows
<1> QED
  BY <1>1, <1>2, <1>3, <1>4 DEF TraceMoves

-----------------------------------------------------------------------------
(***************************************************************************)
(* The components                                                          *)
(***************************************************************************)

\* A new order starts with its outbox row.
LEMMA ClaimTrace ==
  ASSUME TrackInv, NEW r \in Requests, ClaimReserve(r) \/ ClaimStep(r) \/ ClaimFault(r)
  PROVE  TraceMoves
<1> USE DEF claimFrame
<1> Moves
  BY ClaimMoves DEF TrackInv, SafeInv
<1>1. CASE ClaimInsert(r)
  <2>1. PICK o \in Orders : /\ NextOrder(o)
                            /\ owner' = [owner EXCEPT ![o] = r[1]]
                            /\ status' = [status EXCEPT ![o] = "claimed"]
                            /\ outbox' = [outbox EXCEPT ![o] = "init"]
    BY <1>1 DEF ClaimInsert
  <2>2. UNCHANGED <<leads, queue, unmarked, workerVars>>
    BY <1>1 DEF ClaimInsert
  <2>3. status[o] = "none" /\ outbox[o] = "none" /\ unmarked # o
    BY <2>1 DEF NextOrder, TrackInv, SafeInv, TypeInv, NoDanglingOrder, BatchIsPending
  <2>4. \A p \in Orders : p # o => /\ status'[p] = status[p] /\ outbox'[p] = outbox[p]
                                   /\ owner'[p] = owner[p]
    BY <2>1 DEF TrackInv, SafeInv, TypeInv, TypeOK
  <2>5. status'[o] = "claimed" /\ outbox'[o] = "init"
    BY <2>1 DEF TrackInv, SafeInv, TypeInv, TypeOK
  <2>6. LeadsStay
    BY <2>2, <2>3, <2>4, OwnersStay
  <2>7. LeadsKnown
    BY <2>2, <2>4, <2>5 DEF LeadsKnown, TrackInv, WorkerKnows, SafeInv, TypeInv, TypeOK
  <2>8. TraceStays
    BY <2>2, <2>3, <2>4 DEF TraceStays, Tracked, OrderOf
  <2>9. FreshIsTracked /\ FailedStays
    BY <2>2, <2>3, <2>4, <2>5 DEF FreshIsTracked, FailedStays, Tracked
  <2>10. WorkerMove
    BY <2>2 DEF WorkerMove, TrackInv, WorkerKnows
  <2> QED
    BY <2>6, <2>7, <2>8, <2>9, <2>10 DEF TraceMoves
<1>2. CASE ClaimReserve(r) \/ ClaimSelect(r) \/ ClaimRollback(r) \/ ClaimFault(r)
  <2>1. UNCHANGED <<owner, status, leads, outbox, unmarked, queue, workerVars>>
    BY <1>2 DEF ClaimReserve, ClaimSelect, ClaimRollback, ClaimFault, ClaimDbError, ClaimAbandon
  <2> QED
    BY <2>1, TraceQuiet DEF Moves
<1> QED
  BY <1>1, <1>2 DEF ClaimStep

\* A lead adds to what handlers know.
LEMMA LeadTrace ==
  ASSUME TrackInv, NEW u \in Users, LeadCheck(u) \/ LeadStep(u) \/ LeadFault(u)
  PROVE  TraceMoves
<1> USE DEF leadFrame
<1> Moves
  BY LeadMoves DEF TrackInv, SafeInv
<1>1. CASE LeadInsert(u)
  <2>1. leadOrder[u] \in Orders /\ Known(leadOrder[u]) /\ leads' = leads \cup {leadOrder[u]}
    BY <1>1 DEF LeadInsert, TrackInv, SafeInv, TypeInv, TypeOK, NoDanglingOrder
  <2>2. UNCHANGED <<owner, status, outbox, unmarked, queue, workerVars>>
    BY <1>1 DEF LeadInsert
  <2>3. LeadsStay
    BY <2>1, <2>2, OwnersStay
  <2>4. LeadsKnown
    BY <2>1, <2>2 DEF LeadsKnown, TrackInv, WorkerKnows
  <2>5. TraceStays
    BY <2>2 DEF TraceStays, Tracked, OrderOf
  <2>6. FreshIsTracked /\ FailedStays /\ WorkerMove
    BY <2>2 DEF FreshIsTracked, FailedStays, WorkerMove, TrackInv, WorkerKnows
  <2> QED
    BY <2>3, <2>4, <2>5, <2>6 DEF TraceMoves
<1>2. CASE LeadUpdate(u)
  <2>1. UNCHANGED <<owner, leads, outbox, unmarked, queue, workerVars>>
    BY <1>2 DEF LeadUpdate
  <2>2. \A o \in Orders : status'[o] = "claimed" => status[o] = "claimed"
    <3>1. leadOrder[u] \in Orders /\ status' = [status EXCEPT ![leadOrder[u]] = "lead_submitted"]
      BY <1>2 DEF LeadUpdate, TrackInv, SafeInv, TypeInv, TypeOK
    <3> QED
      BY <3>1 DEF TrackInv, SafeInv, TypeInv, TypeOK
  <2> QED
    BY <2>1, <2>2, TraceQuiet DEF Moves
<1>3. CASE LeadCheck(u) \/ LeadFind(u) \/ LeadMark(u) \/ LeadFault(u)
  <2>1. UNCHANGED <<owner, status, leads, outbox, unmarked, queue, workerVars>>
    BY <1>3 DEF LeadCheck, LeadFind, LeadMark, LeadFault, LeadDbError, LeadMarkFails
  <2> QED
    BY <2>1, TraceQuiet DEF Moves
<1> QED
  BY <1>1, <1>2, <1>3 DEF LeadStep

\* Steps that leave orders, leads and workers alone.
LEMMA TraceByOutbox ==
  ASSUME TrackInv, UNCHANGED <<orderVars, workerVars>>, FailedStays,
         \A o \in Orders : status[o] = "claimed" /\ Tracked(o) => Tracked(o)' \/ outbox'[o] = "failed"
  PROVE  TraceMoves
<1>1. LeadsStay /\ LeadsKnown
  BY OwnersStay DEF LeadsKnown, TrackInv, WorkerKnows
<1>2. TraceStays /\ FreshIsTracked /\ WorkerMove
  BY DEF TraceStays, FreshIsTracked, WorkerMove, GivenUp, TrackInv, WorkerKnows
<1> QED
  BY <1>1, <1>2 DEF TraceMoves

\* A publish adds to the queue.
LEMMA PutKeeps ==
  ASSUME QueueTypeOK, NEW m \in Messages, Put(m)
  PROVE  queue'[m] > 0 /\ \A n \in Messages : queue[n] > 0 => queue'[n] > 0
<1>1. queue[m] \in Nat /\ queue'[m] = queue[m] + 1
  BY Zenon DEF Put
<1>2. \A n \in Messages : n # m => queue'[n] = queue[n]
  BY Zenon DEF Put
<1>3. queue'[m] > 0
  <2> HIDE DEF Messages, QueueTypeOK
  <2> QED  BY <1>1, SMT
<1> QED
  BY <1>2, <1>3, Zenon

\* The scanner marks a row sent after its message is in the queue.
LEMMA ScanTrace ==
  ASSUME TrackInv, ScanStep \/ ScanFault
  PROVE  TraceMoves
<1> USE DEF scanFrame
<1> QueueTypeOK
  BY DEF TrackInv, SafeInv, TypeInv, TypeOK
<1>1. CASE ScanFetch
  <2>1. UNCHANGED <<orderVars, outbox, unmarked, queue, workerVars>>
    BY <1>1 DEF ScanFetch
  <2> QED
    BY <2>1, TraceByOutbox DEF FailedStays, Tracked, OrderOf
<1>2. CASE ScanPublish
  <2>1. PICK o \in batch : Put(Timeout(o)) /\ unmarked' = o
    BY <1>2 DEF ScanPublish
  <2>2. Timeout(o) \in Messages /\ Timeout(o).order = o
    BY ConstantsOK DEF Timeout, TrackInv, SafeInv, TypeInv, TypeOK
  <2>3. queue'[Timeout(o)] > 0 /\ \A n \in Messages : queue[n] > 0 => queue'[n] > 0
    BY <2>1, <2>2, PutKeeps
  <2>4. UNCHANGED <<orderVars, outbox, workerVars>>
    BY <1>2 DEF ScanPublish
  <2>5. \A p \in Orders : Tracked(p) => Tracked(p)'
    BY <2>1, <2>2, <2>3, <2>4 DEF Tracked, OrderOf
  <2> QED
    BY <2>4, <2>5, TraceByOutbox DEF FailedStays
<1>3. CASE ScanMarkSent
  <2>1. unmarked \in Orders /\ outbox[unmarked] = "init"
        /\ outbox' = [outbox EXCEPT ![unmarked] = "sent"] /\ unmarked' = 0
    BY <1>3 DEF ScanMarkSent, TrackInv, SafeInv, TypeInv, TypeOK, BatchIsPending
  <2>2. UNCHANGED <<orderVars, queue, workerVars>>
    BY <1>3 DEF ScanMarkSent
  <2>3. \A p \in Orders : p # unmarked => outbox'[p] = outbox[p]
    BY <2>1 DEF TrackInv, SafeInv, TypeInv, TypeOK
  <2>4. \A p \in Orders : Tracked(p) => Tracked(p)'
    BY <2>1, <2>2, <2>3 DEF Tracked, OrderOf
  <2>5. FailedStays
    BY <2>1, <2>3 DEF FailedStays
  <2> QED
    BY <2>2, <2>4, <2>5, TraceByOutbox
<1>4. CASE ScanMarkFails
  <2>1. UNCHANGED <<orderVars, outbox, queue, workerVars>> /\ unmarked' = 0
    BY <1>4 DEF ScanMarkFails
  <2>2. \A p \in Orders : Tracked(p) => Tracked(p)'
    BY <2>1 DEF Tracked, OrderOf
  <2> QED
    BY <2>1, <2>2, TraceByOutbox DEF FailedStays
<1>5. CASE ScanPublishFails
  <2>1. PICK o \in batch :
          outbox' = IF retries[o] + 1 >= MaxOutboxRetries
                    THEN [outbox EXCEPT ![o] = "failed"] ELSE outbox
    BY <1>5 DEF ScanPublishFails
  <2>2. UNCHANGED <<orderVars, unmarked, queue, workerVars>>
    BY <1>5 DEF ScanPublishFails
  <2>3. \A p \in Orders : outbox'[p] = outbox[p] \/ outbox'[p] = "failed"
    BY <2>1 DEF TrackInv, SafeInv, TypeInv, TypeOK
  <2>4. \A p \in Orders : Tracked(p) => Tracked(p)' \/ outbox'[p] = "failed"
    BY <2>2, <2>3 DEF Tracked, OrderOf
  <2>5. FailedStays
    BY <2>3 DEF FailedStays
  <2> QED
    BY <2>2, <2>4, <2>5, TraceByOutbox
<1> QED
  BY <1>1, <1>2, <1>3, <1>4, <1>5 DEF ScanStep, ScanFault

-----------------------------------------------------------------------------
(***************************************************************************)
(* The worker: a handler that goes on keeps the trace, one that ends needs *)
(* a reason.                                                               *)
(***************************************************************************)

\* What going on and ending leave alone.
LEMMA GotoKeeps ==
  ASSUME TrackInv, NEW w \in Workers, workerPc[w] # "idle", NEW pc, pc # "idle", WorkerGoto(w, pc)
  PROVE  /\ workerPc'[w] = pc
         /\ \A v \in Workers : v # w => workerPc'[v] = workerPc[v]
         /\ UNCHANGED <<workerMsg, requeued>>
         /\ \A v \in Workers : workerPc[v] # "idle" => workerPc'[v] # "idle"
  BY DEF WorkerGoto, TrackInv, SafeInv, TypeInv, TypeOK

\* A handler that ends leaves the other handlers alone.
LEMMA AckKeeps ==
  ASSUME TrackInv, NEW w \in Workers, Ack(w)
  PROVE  /\ workerPc'[w] = "idle" /\ requeued' = requeued \ {w}
         /\ \A v \in Workers : v # w => workerPc'[v] = workerPc[v] /\ workerMsg'[v] = workerMsg[v]
  BY DEF Ack, TrackInv, SafeInv, TypeInv, TypeOK

\* The handler goes on, and what it learnt is true.
LEMMA GotoTrace ==
  ASSUME TrackInv, OrderMove, NEW w \in Workers, workerPc[w] # "idle", NEW pc,
         pc # "idle", WorkerGoto(w, pc),
         pc = "confirm" => HasLead(OrderOf(w)),
         pc \in {"recheck", "lua"} => status'[OrderOf(w)] # "claimed",
         pc \in {"check", "release", "confirm", "recheck", "lua"},
         UNCHANGED <<owner, leads, outbox, unmarked, queue>>,
         \A o \in Orders : status'[o] = "claimed" => status[o] = "claimed"
  PROVE  TraceMoves
<1>1. /\ workerPc'[w] = pc
      /\ \A v \in Workers : v # w => workerPc'[v] = workerPc[v]
      /\ UNCHANGED <<workerMsg, requeued>>
      /\ \A v \in Workers : workerPc[v] # "idle" => workerPc'[v] # "idle"
  BY GotoKeeps
<1>2. LeadsStay
  BY OwnersStay
<1>3. LeadsKnown
  BY DEF TrackInv, SafeInv, TypeInv, TypeOK, WorkerKnows, LeadsKnown, OrderMove
<1>4. TraceStays
  BY <1>1 DEF TraceStays, Tracked, OrderOf
<1>5. FreshIsTracked /\ FailedStays
  BY DEF FreshIsTracked, FailedStays
<1>6. WorkerMove
  <2>1. HasLead(OrderOf(w)) => HasLead(OrderOf(w))'
    BY <1>1 DEF HasLead, OrderOf
  <2>2. \A v \in requeued' : workerPc'[v] # "idle"
    BY <1>1 DEF TrackInv, WorkerKnows, SafeInv, TypeInv, TypeOK
  <2>3. \A v \in Workers :
         \/ workerPc'[v] \in {"idle", "check", "release"}
         \/ workerPc'[v] = workerPc[v] /\ workerMsg'[v] = workerMsg[v]
         \/ workerPc'[v] = "confirm" /\ HasLead(OrderOf(v))'
         \/ workerPc'[v] \in {"recheck", "lua"} /\ status'[workerMsg'[v].order] # "claimed"
    BY <1>1, <2>1 DEF OrderOf
  <2> QED
    BY <2>2, <2>3 DEF WorkerMove
<1> QED
  BY <1>2, <1>3, <1>4, <1>5, <1>6 DEF TraceMoves

\* The handler ends, with its order settled or given up.
LEMMA AckTrace ==
  ASSUME TrackInv, OrderMove, NEW w \in Workers, Ack(w),
         NEW q, q = OrderOf(w), status'[q] = "claimed" => GivenUp(q)',
         UNCHANGED <<owner, leads, outbox, unmarked, queue>>,
         \A o \in Orders : status'[o] = "claimed" => status[o] = "claimed"
  PROVE  TraceMoves
<1>1. /\ workerPc'[w] = "idle" /\ requeued' = requeued \ {w}
      /\ \A v \in Workers : v # w => workerPc'[v] = workerPc[v] /\ workerMsg'[v] = workerMsg[v]
  BY AckKeeps
<1>2. LeadsStay
  BY OwnersStay
<1>3. LeadsKnown
  BY DEF TrackInv, SafeInv, TypeInv, TypeOK, WorkerKnows, LeadsKnown, OrderMove
<1>4. TraceStays
  <2> SUFFICES ASSUME NEW o \in Orders, status'[o] = "claimed", Tracked(o)
               PROVE  Tracked(o)' \/ GivenUp(o)'
    BY DEF TraceStays
  <2>1. CASE \E v \in Workers \ requeued : workerPc[v] # "idle" /\ OrderOf(v) = o
    <3>1. PICK v \in Workers \ requeued : workerPc[v] # "idle" /\ OrderOf(v) = o
      BY <2>1
    <3>2. CASE v = w
      BY <3>1, <3>2
    <3>3. CASE v # w
      <4>1. v \in Workers \ requeued' /\ workerPc'[v] # "idle" /\ workerMsg'[v].order = o
        BY <1>1, <3>1, <3>3 DEF OrderOf
      <4> QED
        BY <4>1 DEF Tracked, OrderOf
    <3> QED
      BY <3>2, <3>3
  <2>2. CASE ~\E v \in Workers \ requeued : workerPc[v] # "idle" /\ OrderOf(v) = o
    BY <2>2 DEF Tracked
  <2> QED
    BY <2>1, <2>2
<1>5. FreshIsTracked /\ FailedStays
  BY DEF FreshIsTracked, FailedStays
<1>6. WorkerMove
  BY <1>1 DEF WorkerMove, TrackInv, WorkerKnows, SafeInv, TypeInv, TypeOK
<1> QED
  BY <1>2, <1>3, <1>4, <1>5, <1>6 DEF TraceMoves

\* A lead without MySQL stock is one of the two ways to give up.
LEMMA ExhaustedThen ==
  ASSUME NEW o, remaining' = 0, \E p \in leads' : owner'[p] = owner'[o]
  PROVE  GivenUp(o)'
  BY DEF GivenUp, Exhausted, HasLead

\* Without MySQL errors there is none to spend.
LEMMA NoDbFaults ==
  ASSUME FaultBound["db"] = 0, TrackInv, NEW S, "db" \in S
  PROVE  ~Spend(S)
<1>1. faults["db"] \in Nat
  BY DEF TrackInv, SafeInv, TypeInv, TypeOK, Fault
<1> QED
  BY <1>1 DEF Spend

\* A handler ends with its order settled, or its lead unconfirmed for lack of stock.
LEMMA WorkerTrace ==
  ASSUME FaultBound["db"] = 0, TrackInv, NEW w \in Workers,
         Deliver(w) \/ WorkerStep(w) \/ WorkerFault(w)
  PROVE  TraceMoves
<1> USE DEF workFrame
<1> OrderMove
  BY WorkerMoves DEF TrackInv, SafeInv, Moves
<1>0. workerPc[w] # "idle" => OrderOf(w) \in Orders /\ Known(OrderOf(w))
  BY BusyWorker DEF TrackInv, SafeInv
<1>1. CASE Deliver(w)
  <2>1. PICK m \in Messages : /\ queue[m] > 0
                              /\ queue' = [queue EXCEPT ![m] = @ - 1]
                              /\ workerMsg' = [workerMsg EXCEPT ![w] = m]
    BY <1>1 DEF Deliver
  <2>2. workerPc[w] = "idle" /\ workerPc' = [workerPc EXCEPT ![w] = "check"]
    BY <1>1 DEF Deliver
  <2>3. UNCHANGED <<orderVars, outbox, unmarked, requeued>>
    BY <1>1 DEF Deliver
  <2>4. w \notin requeued
    BY <2>2 DEF TrackInv, WorkerKnows
  <2>5. \A v \in Workers : v # w => workerPc'[v] = workerPc[v] /\ workerMsg'[v] = workerMsg[v]
    BY <2>1, <2>2 DEF TrackInv, SafeInv, TypeInv, TypeOK
  <2>6. workerPc'[w] = "check" /\ workerMsg'[w] = m
    BY <2>1, <2>2 DEF TrackInv, SafeInv, TypeInv, TypeOK
  <2>7. \A n \in Messages : n # m => queue'[n] = queue[n]
    <3>1. QueueTypeOK
      BY DEF TrackInv, SafeInv, TypeInv, TypeOK
    <3> QED
      BY <2>1, <3>1, Zenon
  <2>8. TraceStays
    <3> SUFFICES ASSUME NEW o \in Orders, Tracked(o) PROVE Tracked(o)'
      BY DEF TraceStays
    <3>1. CASE outbox[o] = "init" /\ unmarked # o
      BY <2>3, <3>1 DEF Tracked
    <3>2. CASE \E n \in Messages : n.order = o /\ queue[n] > 0
      <4>1. PICK n \in Messages : n.order = o /\ queue[n] > 0
        BY <3>2
      <4>2. CASE n = m
        <5>1. w \in Workers \ requeued' /\ workerPc'[w] # "idle" /\ workerMsg'[w].order = o
          BY <2>3, <2>4, <2>6, <4>1, <4>2
        <5> QED
          BY <5>1 DEF Tracked, OrderOf
      <4>3. CASE n # m
        BY <2>7, <4>1, <4>3 DEF Tracked
      <4> QED
        BY <4>2, <4>3
    <3>3. CASE \E v \in Workers \ requeued : workerPc[v] # "idle" /\ OrderOf(v) = o
      BY <2>2, <2>3, <2>5, <3>3 DEF Tracked, OrderOf
    <3> QED
      BY <3>1, <3>2, <3>3 DEF Tracked
  <2>9. LeadsStay /\ LeadsKnown
    BY <2>3, OwnersStay DEF LeadsKnown, TrackInv, WorkerKnows
  <2>10. FreshIsTracked /\ FailedStays
    BY <2>3 DEF FreshIsTracked, FailedStays
  <2>11. WorkerMove
    BY <2>2, <2>3, <2>5, <2>6 DEF WorkerMove, TrackInv, WorkerKnows, SafeInv, TypeInv, TypeOK
  <2> QED
    BY <2>8, <2>9, <2>10, <2>11 DEF TraceMoves
<1>2. CASE WorkerCheck(w)
  <2>1. /\ workerPc[w] = "check"
        /\ WorkerGoto(w, IF HasLead(OrderOf(w)) THEN "confirm" ELSE "release")
        /\ UNCHANGED <<owner, status, leads, outbox, unmarked, queue>>
    BY <1>2 DEF WorkerCheck
  <2> QED
    BY <2>1, GotoTrace
<1>3. CASE WorkerConfirm(w)
  <2>1. /\ workerPc[w] = "confirm" /\ ConfirmLeadAndDeduct(OrderOf(w)) /\ Ack(w)
        /\ UNCHANGED <<owner, leads, outbox, unmarked, queue>>
    BY <1>3 DEF WorkerConfirm
  <2>2. /\ \A o \in Orders : status'[o] = "claimed" => status[o] = "claimed"
        /\ status'[OrderOf(w)] = "claimed" => ~(remaining > 0) /\ UNCHANGED remaining
    <3>1. CASE status[OrderOf(w)] = "claimed" /\ remaining > 0
      <4>1. status' = [status EXCEPT ![OrderOf(w)] = "lead_submitted"]
        BY <2>1, <3>1 DEF ConfirmLeadAndDeduct
      <4>2. \A o \in Orders : status'[o] = IF o = OrderOf(w) THEN "lead_submitted" ELSE status[o]
        BY <4>1 DEF TrackInv, SafeInv, TypeInv, TypeOK
      <4> QED
        BY <1>0, <2>1, <4>2
    <3>2. CASE ~(status[OrderOf(w)] = "claimed" /\ remaining > 0)
      <4>1. UNCHANGED <<status, remaining>>
        BY <2>1, <3>2 DEF ConfirmLeadAndDeduct
      <4> QED
        BY <3>2, <4>1
    <3> QED
      BY <3>1, <3>2
  <2>3. ASSUME NEW q, q = OrderOf(w), status'[q] = "claimed"
        PROVE  GivenUp(q)'
    <3>1. HasLead(OrderOf(w))
      BY <2>1 DEF TrackInv, WorkerKnows
    <3>2. ~(remaining > 0) /\ UNCHANGED remaining
      BY <2>2, <2>3
    <3>3. remaining' = 0
      BY <3>2 DEF TrackInv, SafeInv, TypeInv, TypeOK, LedgerBalanced
    <3>4. \E p \in leads' : owner'[p] = owner'[q]
      BY <2>1, <2>3, <3>1 DEF HasLead
    <3> QED
      BY <3>3, <3>4, ExhaustedThen
  <2> QED
    BY <2>1, <2>2, <2>3, AckTrace
<1>4. CASE WorkerRelease(w)
  <2> DEFINE pc == IF ReleaseSucceeds(OrderOf(w)) THEN "lua" ELSE "recheck"
  <2>1. /\ workerPc[w] = "release" /\ ReleaseOrderOnly(OrderOf(w)) /\ WorkerGoto(w, pc)
        /\ UNCHANGED <<owner, leads, outbox, unmarked, queue>>
    BY <1>4 DEF WorkerRelease
  <2>2. \A p \in Orders :
          status'[p] = IF p = OrderOf(w) /\ status[p] = "claimed" THEN "released" ELSE status[p]
    BY <1>0, <2>1 DEF ReleaseOrderOnly, TrackInv, SafeInv, TypeInv, TypeOK
  <2>3. status'[OrderOf(w)] # "claimed"
    BY <1>0, <2>1, <2>2
  <2>4. pc \in {"recheck", "lua"}
    OBVIOUS
  <2> HIDE DEF pc
  <2> QED
    BY <2>1, <2>2, <2>3, <2>4, GotoTrace
<1>5. CASE WorkerRecheck(w)
  <2>1. /\ workerPc[w] = "recheck" /\ (Ack(w) \/ WorkerGoto(w, "lua"))
        /\ UNCHANGED <<owner, status, leads, outbox, unmarked, queue>>
    BY <1>5 DEF WorkerRecheck
  <2>2. status'[OrderOf(w)] # "claimed"
    BY <2>1 DEF TrackInv, WorkerKnows
  <2> QED
    BY <2>1, <2>2, AckTrace, GotoTrace
<1>6. CASE WorkerLua(w) \/ WorkerLuaFails(w)
  <2>1. /\ workerPc[w] = "lua" /\ Ack(w)
        /\ UNCHANGED <<owner, status, leads, outbox, unmarked, queue>>
    BY <1>6 DEF WorkerLua, WorkerLuaFails
  <2>2. status'[OrderOf(w)] # "claimed"
    BY <2>1 DEF TrackInv, WorkerKnows
  <2> QED
    BY <2>1, <2>2, AckTrace
<1>7. ~WorkerDbError(w) /\ ~WorkerRaises(w)
  BY NoDbFaults DEF WorkerDbError, WorkerRaises
<1> QED
  BY <1>1, <1>2, <1>3, <1>4, <1>5, <1>6, <1>7 DEF WorkerStep, WorkerFault

-----------------------------------------------------------------------------
(***************************************************************************)
(* The reconciliation and the environment                                  *)
(***************************************************************************)

\* The reconciliation only settles orders.
LEMMA RecTrace ==
  ASSUME TrackInv, RecStart \/ RecStep \/ RecFault
  PROVE  TraceMoves
<1> USE DEF recFrame
<1> OrderMove
  BY RecMoves DEF TrackInv, SafeInv, Moves
<1>1. UNCHANGED <<owner, leads, outbox, unmarked, queue, workerVars>>
  BY DEF RecStart, RecStep, RecFault, RecCheck, RecConfirm, RecRelease, RecLua, RecSkip, RecDies
<1>2. \A o \in Orders : status'[o] = "claimed" => status[o] = "claimed"
  <2>1. CASE RecConfirm
    <3>1. PICK o \in recBatch : ConfirmLeadAndDeduct(o)
      BY <2>1 DEF RecConfirm
    <3> QED
      BY <3>1 DEF ConfirmLeadAndDeduct, TrackInv, SafeInv, TypeInv, TypeOK
  <2>2. CASE RecRelease
    <3>1. PICK o \in recBatch : ReleaseOrderOnly(o)
      BY <2>2 DEF RecRelease
    <3> QED
      BY <3>1 DEF ReleaseOrderOnly, TrackInv, SafeInv, TypeInv, TypeOK
  <2>3. CASE RecStart \/ RecCheck \/ RecLua \/ RecFault
    BY <2>3 DEF RecStart, RecCheck, RecLua, RecFault, RecSkip, RecDies
  <2> QED
    BY <2>1, <2>2, <2>3 DEF RecStep
<1> QED
  BY <1>1, <1>2, TraceQuiet

\* Every unacknowledged message is in the queue again.
LEMMA RedeliveredKeeps ==
  ASSUME TypeInv, Redelivered
  PROVE  /\ \A m \in Messages : queue[m] > 0 => queue'[m] > 0
         /\ \A w \in Workers \ requeued : workerPc[w] # "idle" => queue'[workerMsg[w]] > 0
<1>1. \A m \in Messages : queue'[m] = queue[m] + Cardinality(Unacked(m)) /\ queue[m] \in Nat
  BY Zenon DEF Redelivered, TypeInv, TypeOK
<1>2. ASSUME NEW m \in Messages
      PROVE  Cardinality(Unacked(m)) \in Nat /\ (Cardinality(Unacked(m)) = 0 => Unacked(m) = {})
  <2>1. IsFiniteSet(Unacked(m))
    BY ConstantsOK, FS_Subset DEF Unacked
  <2> QED
    BY <2>1, FS_CardinalityType, FS_EmptySet
<1>3. \A m \in Messages : queue[m] > 0 \/ Unacked(m) # {} => queue'[m] > 0
  <2> HIDE DEF Messages, QueueTypeOK
  <2> QED  BY <1>1, <1>2
<1>4. \A w \in Workers \ requeued : workerPc[w] # "idle" =>
        workerMsg[w] \in Messages /\ w \in Unacked(workerMsg[w])
  BY DEF Unacked, TypeInv, TypeOK
<1> QED
  BY <1>3, <1>4, Zenon

\* What the broker takes back replaces the handlers that held it.
LEMMA TraceRedelivered ==
  ASSUME TrackInv, Redelivered, UNCHANGED <<orderVars, outbox>>, unmarked' \in {0, unmarked}
  PROVE  TraceStays
<1>1. /\ \A m \in Messages : queue[m] > 0 => queue'[m] > 0
      /\ \A w \in Workers \ requeued : workerPc[w] # "idle" => queue'[workerMsg[w]] > 0
  BY RedeliveredKeeps DEF TrackInv, SafeInv
<1>2. \A w \in Workers : workerPc[w] # "idle" => workerMsg[w] \in Messages
  BY BusyWorker DEF TrackInv, SafeInv
<1>3. \A o \in Orders : Tracked(o) => Tracked(o)'
  BY <1>1, <1>2 DEF Tracked, OrderOf
<1> QED
  BY <1>3 DEF TraceStays

\* A lost connection duplicates deliveries and loses none.
LEMMA ConnectionTrace ==
  ASSUME TrackInv, ConnectionLost
  PROVE  TraceMoves
<1>1. UNCHANGED <<orderVars, outbox, unmarked, workerPc, workerMsg>>
      /\ requeued' = {w \in Workers : workerPc[w] # "idle"} /\ Redelivered
  BY DEF ConnectionLost, workFrame, Redelivered
<1>2. TraceStays
  BY <1>1, TraceRedelivered
<1>3. LeadsStay /\ LeadsKnown
  BY <1>1, OwnersStay DEF LeadsKnown, TrackInv, WorkerKnows
<1>4. FreshIsTracked /\ FailedStays /\ WorkerMove
  BY <1>1 DEF FreshIsTracked, FailedStays, WorkerMove
<1> QED
  BY <1>2, <1>3, <1>4 DEF TraceMoves

\* A restart ends all handlers; the broker has their messages.
LEMMA RestartTrace ==
  ASSUME TrackInv, Restart
  PROVE  TraceMoves
<1>1. UNCHANGED <<orderVars, outbox>> /\ unmarked' = 0 /\ Redelivered
      /\ workerPc' = [w \in Workers |-> "idle"] /\ requeued' = {}
  BY DEF Restart, Redelivered
<1>2. TraceStays
  BY <1>1, TraceRedelivered
<1>3. LeadsStay /\ LeadsKnown
  BY <1>1, OwnersStay DEF LeadsKnown, TrackInv, WorkerKnows
<1>4. FreshIsTracked /\ FailedStays /\ WorkerMove
  BY <1>1 DEF FreshIsTracked, FailedStays, WorkerMove
<1> QED
  BY <1>2, <1>3, <1>4 DEF TraceMoves

\* Every step is one of these moves.
LEMMA StepTrace ==
  ASSUME FaultBound["db"] = 0, TrackInv, [Next]_vars
  PROVE  TraceMoves
<1>0. OrderMove
  BY StepMoves DEF TrackInv, SafeInv, Moves
<1>1. CASE Requested
  BY <1>1, ClaimTrace, LeadTrace, RecTrace DEF Requested
<1>2. CASE System
  BY <1>2, ClaimTrace, LeadTrace, ScanTrace, WorkerTrace, RecTrace DEF System
<1>3. CASE Failure
  <2>1. ASSUME NEW u \in Users, ClaimedKeyExpires(u) PROVE TraceMoves
    <3>1. UNCHANGED <<owner, status, leads, outbox, unmarked, queue, workerVars>>
      BY <2>1 DEF ClaimedKeyExpires
    <3> QED
      BY <1>0, <3>1, TraceQuiet
  <2> QED
    BY <1>3, <2>1, ConnectionTrace, RestartTrace, ClaimTrace, LeadTrace, ScanTrace,
       WorkerTrace, RecTrace DEF Failure
<1>4. CASE UNCHANGED vars
  <2>1. UNCHANGED <<owner, status, leads, outbox, unmarked, queue, workerVars>>
    BY <1>4 DEF vars
  <2> QED
    BY <1>0, <2>1, TraceQuiet
<1> QED
  BY <1>1, <1>2, <1>3, <1>4 DEF Next

-----------------------------------------------------------------------------

\* Initially there is no order.
LEMMA TrackInit == Init => TrackInv
<1> SUFFICES ASSUME Init PROVE TrackInv
  OBVIOUS
<1>1. SafeInv
  BY SafeInit
<1>2. ClaimedIsTracked
  BY DEF Init, ClaimedIsTracked
<1>3. WorkerKnows
  BY DEF Init, WorkerKnows
<1> QED
  BY <1>1, <1>2, <1>3 DEF TrackInv

\* While no MySQL call of a handler fails, an order that is still claimed has
\* its timeout on the way, or its outbox row was given up, or its lead waits
\* for MySQL stock that is gone: no crash, redelivery, lost mark, lost
\* connection, failed publish or failed Redis call loses a timeout
\* (OutboxScanner._process_record, RmqClient.consume_timeout, CouponWorker).
THEOREM NoTimeoutIsLost ==
  ASSUME FaultBound["db"] = 0
  PROVE  Spec => []ClaimedOrderIsTracked
<1>1. TrackInv /\ [Next]_vars => TrackInv'
  <2> SUFFICES ASSUME TrackInv, [Next]_vars PROVE TrackInv'
    OBVIOUS
  <2>1. SafeInv' /\ Moves
    BY SafeStep, StepMoves DEF TrackInv, SafeInv
  <2>2. TraceMoves
    BY StepTrace
  <2> QED
    BY <2>1, <2>2, TrackStep
<1>2. TrackInv => ClaimedOrderIsTracked
  BY DEF TrackInv, ClaimedIsTracked, Tracked, GivenUp, ClaimedOrderIsTracked, Underway
<1> QED
  BY <1>1, <1>2, TrackInit, PTL DEF Spec

=============================================================================
