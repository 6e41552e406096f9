-------------------------- MODULE CouponLedgerProofs --------------------------
(***************************************************************************)
(* The reservations in Redis while every timeout is handled once, for      *)
(* every value of the constants.  At most one thing at a time answers for  *)
(* the reservation of a user: a request, an outbox row, a message or a     *)
(* handler.  It passes the reservation on, gives it back or drops it.      *)
(***************************************************************************)
EXTENDS CouponSafetyProofs

\* The process and the connection stay up, no mark is lost, nobody reconciles
\* by hand, and keys outlive their timeouts.  Redis and MySQL calls and
\* publishes may fail.
HandledOnce ==
    /\ \A f \in {"restart", "connection", "mark", "reconcile"} : FaultBound[f] = 0
    /\ TimelyTimeouts

\* A request in progress answers for its user.
RequestHolds == {<<r[1], "request", r>> : r \in {q \in Requests : claimPc[q] # "idle"}}

\* A row that is still to be published answers for the user of its order.
RowHolds == {<<owner[o], "row", o>> : o \in {p \in Orders : outbox[p] = "init" /\ unmarked # p}}

\* A message in the queue answers for the user of its order.
MessageHolds == {<<owner[m.order], "message", m>> : m \in {n \in Messages : queue[n] > 0}}

\* A busy handler answers for the user of its message's order.
WorkerHolds == {<<UserOf(w), "worker", w>> : w \in {v \in Workers : workerPc[v] # "idle"}}

\* A holder: the user it answers for, and what it is.
Holders == RequestHolds \cup RowHolds \cup MessageHolds \cup WorkerHolds

\* Nothing else answers for the user of a holder, and his key is there.
OneHolder == \A x, y \in Holders : x[1] = y[1] => x = y

HoldersHaveKey == \A x \in Holders : x[1] \in claimed

\* No message is in the queue twice.
MessageOnce == \A m \in Messages : queue[m] <= 1

\* A request about to insert found no order waiting, and none came since.
InsertIsClear ==
    \A r \in Requests : claimPc[r] = "insert" =>
        \A o \in Orders : owner[o] = r[1] => status[o] # "claimed"

HolderInv == OneHolder /\ HoldersHaveKey

OpenInv == InsertIsClear /\ OneOpenOrderPerUser

\* The inductive invariant.
HandledInv ==
    TypeInv /\ HolderInv /\ MessageOnce /\ OpenInv /\ recPc = "idle" /\ StockConserved

-----------------------------------------------------------------------------
(***************************************************************************)
(* What one step may do to the holders and to the units of stock           *)
(***************************************************************************)

\* Nobody holds more than before; or a holder passes its user on; or a request
\* reserves a unit; or a holder returns one; or the key of a user lapses for
\* whom nobody answers.
UnitsStay == UNCHANGED <<stock, claimed>> /\ faults'["expiry"] = faults["expiry"]

Kept == Holders' \subseteq Holders /\ UnitsStay

Passed == \E x \in Holders : \E y :
    y[1] = x[1] /\ Holders' \subseteq (Holders \ {x}) \cup {y} /\ UnitsStay

Joined == \E u \in Users : \E y :
    /\ y[1] = u /\ Holders' \subseteq Holders \cup {y}
    /\ u \notin claimed /\ claimed' = claimed \cup {u}
    /\ stock > 0 /\ stock' = stock - 1 /\ faults'["expiry"] = faults["expiry"]

Left == \E u \in Users : \E x \in Holders :
    /\ x[1] = u /\ Holders' \subseteq Holders \ {x}
    /\ u \in claimed /\ claimed' = claimed \ {u}
    /\ stock' = stock + 1 /\ faults'["expiry"] = faults["expiry"]

Lapsed == \E u \in Users :
    /\ Holders' \subseteq Holders /\ \A x \in Holders : x[1] # u
    /\ u \in claimed /\ claimed' = claimed \ {u}
    /\ stock' = stock /\ faults'["expiry"] = faults["expiry"] + 1

HolderMove == Kept \/ Passed \/ Joined \/ Left \/ Lapsed

\* Whatever a step does to the holders, a user has at most one of them and
\* keeps the key while there is one.
LEMMA HolderStep ==
  ASSUME HolderInv, HolderMove
  PROVE  HolderInv'
<1> DEFINE One(S) == \A x, y \in S : x[1] = y[1] => x = y
<1> DEFINE Key(S, c) == \A x \in S : x[1] \in c
<1>1. One(Holders) /\ Key(Holders, claimed)
  BY DEF HolderInv, OneHolder, HoldersHaveKey
<1> SUFFICES One(Holders') /\ Key(Holders', claimed')
  BY DEF HolderInv, OneHolder, HoldersHaveKey
<1> HIDE DEF Holders
<1>2. CASE Kept
  BY <1>1, <1>2 DEF Kept, UnitsStay
<1>3. CASE Passed
  BY <1>1, <1>3 DEF Passed, UnitsStay
<1>4. CASE Joined
  BY <1>1, <1>4 DEF Joined
<1>5. CASE Left
  BY <1>1, <1>5 DEF Left
<1>6. CASE Lapsed
  BY <1>1, <1>6 DEF Lapsed
<1> QED
  BY <1>2, <1>3, <1>4, <1>5, <1>6 DEF HolderMove

\* Every such step is a step of the ledger.
LEMMA HolderLedger ==
  ASSUME HolderMove
  PROVE  [Ledger!Next]_<<stock, claimed, faults["expiry"]>>
<1>1. CASE Kept \/ Passed
  BY <1>1 DEF Kept, Passed, UnitsStay
<1>2. CASE Joined
  <2>1. PICK u \in Users : Ledger!Reserve(u)
    BY <1>2, Zenon DEF Joined, Ledger!Reserve
  <2> QED
    BY <2>1 DEF Ledger!Next
<1>3. CASE Left
  <2>1. PICK u \in Users : Ledger!Return(u)
    BY <1>3, Zenon DEF Left, Ledger!Return
  <2> QED
    BY <2>1 DEF Ledger!Next
<1>4. CASE Lapsed
  <2>1. PICK u \in Users : Ledger!Lapse(u)
    BY <1>4, Zenon DEF Lapsed, Ledger!Lapse
  <2> QED
    BY <2>1 DEF Ledger!Next
<1> QED
  BY <1>1, <1>2, <1>3, <1>4 DEF HolderMove

\* A step of the ledger neither loses nor invents a unit.
LEMMA LedgerConserves ==
  ASSUME TypeInv, StockConserved, HolderMove
  PROVE  StockConserved'
<1>1. IsFiniteSet(claimed)
  <2>1. claimed \in SUBSET Users
    BY DEF TypeInv, TypeOK, RedisTypeOK
  <2> QED
    BY <2>1, ConstantsOK, FS_Subset
<1>2. Cardinality(claimed) \in Nat
  BY <1>1, FS_CardinalityType
<1>3. stock \in Int /\ faults["expiry"] \in Nat
  <2>1. stock \in Int /\ faults \in [Fault -> Nat]
    BY DEF TypeInv, TypeOK, RedisTypeOK, FaultsTypeOK
  <2>2. "expiry" \in Fault
    BY DEF Fault
  <2> QED
    BY <2>1, <2>2
<1>4. ASSUME UnitsStay PROVE StockConserved'
  BY <1>4 DEF UnitsStay, StockConserved
<1>5. CASE Joined
  <2>1. PICK u \in Users : /\ u \notin claimed /\ claimed' = claimed \cup {u}
                           /\ stock' = stock - 1 /\ faults'["expiry"] = faults["expiry"]
    BY <1>5 DEF Joined
  <2>2. Cardinality(claimed') = Cardinality(claimed) + 1
    BY <1>1, <2>1, FS_AddElement
  <2> QED
    BY <1>2, <1>3, <2>1, <2>2 DEF StockConserved
<1>6. ASSUME NEW u \in claimed, claimed' = claimed \ {u}
      PROVE  Cardinality(claimed') = Cardinality(claimed) - 1
  BY <1>1, <1>6, FS_RemoveElement
<1>7. CASE Left
  <2>1. PICK u \in claimed : /\ claimed' = claimed \ {u}
                             /\ stock' = stock + 1 /\ faults'["expiry"] = faults["expiry"]
    BY <1>7 DEF Left
  <2>2. Cardinality(claimed') = Cardinality(claimed) - 1
    BY <1>6, <2>1
  <2> QED
    BY <1>2, <1>3, <2>1, <2>2 DEF StockConserved
<1>8. CASE Lapsed
  <2>1. PICK u \in claimed : /\ claimed' = claimed \ {u}
                             /\ stock' = stock /\ faults'["expiry"] = faults["expiry"] + 1
    BY <1>8 DEF Lapsed
  <2>2. Cardinality(claimed') = Cardinality(claimed) - 1
    BY <1>6, <2>1
  <2> QED
    BY <1>2, <1>3, <2>1, <2>2 DEF StockConserved
<1> QED
  BY <1>4, <1>5, <1>7, <1>8 DEF HolderMove, Kept, Passed

-----------------------------------------------------------------------------
(***************************************************************************)
(* How a step moves the four kinds of holders                              *)
(***************************************************************************)

\* The orders that were inserted keep their owner.
OwnerKept == \A o \in Orders : Known(o) => owner'[o] = owner[o]

\* Steps that start no request, write no row, send no message, take none.
RequestsKept == \A r \in Requests : claimPc'[r] # "idle" => claimPc[r] # "idle"

RowsKept == \A o \in Orders :
    outbox'[o] = "init" /\ unmarked' # o => outbox[o] = "init" /\ unmarked # o

MessagesKept == \A m \in Messages : queue'[m] > 0 => queue[m] > 0

HandlersKept == \A w \in Workers :
    workerPc'[w] # "idle" => workerPc[w] # "idle" /\ workerMsg'[w] = workerMsg[w]

\* What is kept is held as before.
LEMMA RequestsHold ==
  ASSUME RequestsKept
  PROVE  RequestHolds' \subseteq RequestHolds
  BY Zenon DEF RequestsKept, RequestHolds

\* So are the rows.
LEMMA RowsHold ==
  ASSUME TypeInv, OwnerKept, RowsKept
  PROVE  RowHolds' \subseteq RowHolds
<1>1. \A o \in Orders : outbox[o] = "init" => Known(o)
  BY DEF TypeInv, NoDanglingOrder
<1>2. \A o \in Orders : outbox'[o] = "init" /\ unmarked' # o =>
         owner'[o] = owner[o] /\ outbox[o] = "init" /\ unmarked # o
  BY <1>1, Zenon DEF OwnerKept, RowsKept
<1> QED
  BY <1>2, Zenon DEF RowHolds

\* So are the messages.
LEMMA MessagesHold ==
  ASSUME TypeInv, OwnerKept, MessagesKept
  PROVE  MessageHolds' \subseteq MessageHolds
<1>0. \A m \in Messages : m.order \in Orders
  BY DEF Messages
<1>1. \A m \in Messages : queue[m] > 0 => m.order \in Orders /\ Known(m.order)
  BY <1>0, Zenon DEF TypeInv, NoDanglingOrder
<1>2. \A m \in Messages : queue'[m] > 0 => owner'[m.order] = owner[m.order] /\ queue[m] > 0
  BY <1>1, Zenon DEF OwnerKept, MessagesKept
<1> QED
  BY <1>2, Zenon DEF MessageHolds

\* So are the handlers.
LEMMA HandlersHold ==
  ASSUME TypeInv, OwnerKept, HandlersKept
  PROVE  WorkerHolds' \subseteq WorkerHolds
<1>1. \A w \in Workers : workerPc[w] # "idle" => OrderOf(w) \in Orders /\ Known(OrderOf(w))
  BY BusyWorker
<1>2. \A w \in Workers : workerPc'[w] # "idle" => UserOf(w)' = UserOf(w) /\ workerPc[w] # "idle"
  BY <1>1, Zenon DEF OwnerKept, HandlersKept, UserOf, OrderOf
<1> QED
  BY <1>2, Zenon DEF WorkerHolds

\* A step that starts nothing.
LEMMA AllHold ==
  ASSUME TypeInv, OwnerKept, RequestsKept, RowsKept, MessagesKept, HandlersKept
  PROVE  Holders' \subseteq Holders
  BY RequestsHold, RowsHold, MessagesHold, HandlersHold, Zenon DEF Holders

\* A holder tells what it is.
LEMMA Tags ==
  /\ \A x \in RequestHolds : x[2] = "request"
  /\ \A x \in RowHolds : x[2] = "row"
  /\ \A x \in MessageHolds : x[2] = "message"
  /\ \A x \in WorkerHolds : x[2] = "worker"
<1>1. \A x \in RequestHolds : x[2] = "request"
  BY DEF RequestHolds
<1>2. \A x \in RowHolds : x[2] = "row"
  BY DEF RowHolds
<1>3. \A x \in MessageHolds : x[2] = "message"
  BY DEF MessageHolds
<1>4. \A x \in WorkerHolds : x[2] = "worker"
  BY DEF WorkerHolds
<1> QED
  BY <1>1, <1>2, <1>3, <1>4

-----------------------------------------------------------------------------
(***************************************************************************)
(* The orders that wait, and the faults that do not happen                 *)
(***************************************************************************)

OpenKept ==
    /\ UNCHANGED owner
    /\ \A o \in Orders : status'[o] = "claimed" => status[o] = "claimed"
    /\ \A r \in Requests : claimPc'[r] = "insert" => claimPc[r] = "insert"

\* A step that makes no order wait and brings no request to its insert.
LEMMA OpenStep ==
  ASSUME OpenInv, OpenKept
  PROVE  OpenInv'
  BY Zenon DEF OpenInv, OpenKept, InsertIsClear, OneOpenOrderPerUser

\* A fault of another kind lets no key expire.
LEMMA SpendUnits ==
  ASSUME NEW S, Spend(S), "expiry" \notin S
  PROVE  faults'["expiry"] = faults["expiry"]
  BY DEF Spend, Fault

\* The faults that are excluded do not happen.
LEMMA NoFault ==
  ASSUME HandledOnce, TypeInv, NEW S, Spend(S),
         NEW f \in {"restart", "connection", "mark", "reconcile"} \cap S
  PROVE  FALSE
<1>1. FaultBound[f] = 0 /\ faults[f] < FaultBound[f]
  BY DEF HandledOnce, Spend
<1>2. faults[f] \in Nat
  BY DEF TypeInv, TypeOK, FaultsTypeOK, Fault
<1> QED
  BY <1>1, <1>2

\* What a step must do for HandledInv, beside the types.
HandledStep == HolderMove /\ OpenInv' /\ MessageOnce' /\ recPc' = "idle"

-----------------------------------------------------------------------------
(***************************************************************************)
(* One lemma per component                                                 *)
(***************************************************************************)

\* A request takes the reservation, passes it on to its outbox row, or gives
\* it back; or leaves it behind.
LEMMA ClaimHandles ==
  ASSUME HandledInv, NEW r \in Requests,
         ClaimReserve(r) \/ ClaimStep(r) \/ ClaimFault(r)
  PROVE  HandledStep
<1> DEFINE x == <<r[1], "request", r>>
<1>a. r[1] \in Users /\ x[1] = r[1] /\ x[2] = "request"
  BY DEF Requests
<1>b. TypeInv /\ HolderInv /\ OpenInv /\ MessageOnce /\ recPc = "idle"
  BY DEF HandledInv
<1>c. claimPc[r] # "idle" => x \in RequestHolds
  BY DEF RequestHolds
<1>d. UNCHANGED <<queue, workerPc, workerMsg, recPc, unmarked>>
  BY DEF ClaimReserve, ClaimStep, ClaimFault, ClaimSelect, ClaimInsert, ClaimRollback,
         ClaimDbError, ClaimAbandon, claimFrame, scanVars, workerVars, recVars
<1>e. MessageOnce' /\ recPc' = "idle" /\ MessagesKept /\ HandlersKept
  BY <1>b, <1>d DEF MessageOnce, MessagesKept, HandlersKept
<1>f. ASSUME NEW pc, Goto(r, pc)
      PROVE  \A q \in Requests : claimPc'[q] = IF q = r THEN pc ELSE claimPc[q]
  BY <1>b, <1>f DEF Goto, TypeInv, TypeOK, ClaimTypeOK
<1>g. ASSUME NEW pc, Goto(r, pc), claimPc[r] # "idle"
      PROVE  RequestsKept
  BY <1>f, <1>g DEF RequestsKept
<1>h. ASSUME UNCHANGED <<owner, outbox>>
      PROVE  /\ OwnerKept /\ RowHolds' \subseteq RowHolds
             /\ MessageHolds' \subseteq MessageHolds /\ WorkerHolds' \subseteq WorkerHolds
  <2>1. OwnerKept /\ RowsKept
    BY <1>d, <1>h DEF OwnerKept, RowsKept
  <2> QED
    BY <1>b, <1>e, <2>1, RowsHold, MessagesHold, HandlersHold
<1>i. ASSUME NEW pc, Goto(r, pc), claimPc[r] # "idle", UNCHANGED <<owner, outbox>>
      PROVE  Holders' \subseteq Holders
  <2>1. RequestHolds' \subseteq RequestHolds
    BY <1>g, <1>i, RequestsHold
  <2> QED
    BY <1>h, <1>i, <2>1, Zenon DEF Holders
<1>j. ASSUME Goto(r, "idle")
      PROVE  RequestHolds' \subseteq RequestHolds \ {x}
  <2>1. \A q \in Requests : claimPc'[q] # "idle" => claimPc[q] # "idle" /\ q # r
    BY <1>f, <1>j
  <2>2. \A q : q # r => <<q[1], "request", q>> # x
    OBVIOUS
  <2> HIDE DEF x
  <2> QED
    BY <2>1, <2>2, Zenon DEF RequestHolds
<1>k. ASSUME NEW S, S \subseteq RowHolds \cup MessageHolds \cup WorkerHolds
      PROVE  x \notin S
  BY <1>a, <1>k, Tags
<1>l. ASSUME NEW pc, Goto(r, pc), pc # "insert", UNCHANGED <<owner, status>>
      PROVE  OpenInv'
  BY <1>b, <1>f, <1>l, OpenStep DEF OpenKept
<1> HIDE DEF x
<1>1. CASE ClaimReserve(r)
  <2>1. /\ r[1] \notin claimed /\ claimed' = claimed \cup {r[1]}
        /\ stock > 0 /\ stock' = stock - 1
        /\ Goto(r, "select") /\ UNCHANGED <<owner, status, outbox, faults>>
    BY <1>1 DEF ClaimReserve, LuaClaim, outboxVars
  <2>2. RequestHolds' \subseteq RequestHolds \cup {x}
    <3>1. \A q \in Requests : claimPc'[q] # "idle" => claimPc[q] # "idle" \/ q = r
      BY <1>f, <2>1
    <3> QED
      BY <3>1, Zenon DEF RequestHolds, x
  <2>3. Holders' \subseteq Holders \cup {x}
    BY <1>h, <2>1, <2>2, Zenon DEF Holders
  <2>4. Joined
    BY <1>a, <2>1, <2>3, Zenon DEF Joined
  <2>5. OpenInv'
    BY <1>l, <2>1
  <2> QED
    BY <1>e, <2>4, <2>5 DEF HandledStep, HolderMove
<1>2. CASE ClaimSelect(r)
  <2>1. /\ claimPc[r] = "select"
        /\ Goto(r, IF ActiveOrders(r[1]) = {} THEN "insert" ELSE "rollback")
        /\ UNCHANGED <<stock, claimed, owner, status, outbox, faults>>
    BY <1>2 DEF ClaimSelect, outboxVars
  <2>2. Kept
    BY <1>i, <2>1 DEF Kept, UnitsStay
  <2>3. \A q \in Requests : claimPc'[q] = "insert" => claimPc[q] = "insert" \/ q = r
    BY <1>f, <2>1
  <2>4. claimPc'[r] = "insert" => \A o \in Orders : owner[o] = r[1] => status[o] # "claimed"
    BY <1>f, <2>1 DEF ActiveOrders, OrdersOf
  <2>5. OpenInv'
    BY <1>b, <2>1, <2>3, <2>4, Zenon DEF OpenInv, InsertIsClear, OneOpenOrderPerUser
  <2> QED
    BY <1>e, <2>2, <2>5 DEF HandledStep, HolderMove
<1>3. CASE ClaimInsert(r)
  <2>1. PICK o \in Orders : /\ NextOrder(o)
                            /\ owner' = [owner EXCEPT ![o] = r[1]]
                            /\ status' = [status EXCEPT ![o] = "claimed"]
                            /\ outbox' = [outbox EXCEPT ![o] = "init"]
    BY <1>3 DEF ClaimInsert
  <2>2. claimPc[r] = "insert" /\ Goto(r, "idle") /\ UNCHANGED <<stock, claimed, faults>>
    BY <1>3 DEF ClaimInsert
  <2>3. \A p \in Orders : /\ owner'[p] = IF p = o THEN r[1] ELSE owner[p]
                          /\ status'[p] = IF p = o THEN "claimed" ELSE status[p]
                          /\ outbox'[p] = IF p = o THEN "init" ELSE outbox[p]
    BY <1>b, <2>1 DEF TypeInv, TypeOK, OrderTypeOK, OutboxTypeOK
  <2>4. ~Known(o)
    BY <2>1 DEF NextOrder, Known
  <2>5. OwnerKept
    BY <2>3, <2>4 DEF OwnerKept
  <2> DEFINE y == <<r[1], "row", o>>
  <2>6. RowHolds' \subseteq RowHolds \cup {y}
    <3> SUFFICES ASSUME NEW z \in RowHolds' PROVE z \in RowHolds \/ z = y
      OBVIOUS
    <3>1. PICK p \in Orders : outbox'[p] = "init" /\ unmarked' # p /\ z = <<owner'[p], "row", p>>
      BY Zenon DEF RowHolds
    <3>2. CASE p = o
      BY <2>3, <3>1, <3>2
    <3>3. CASE p # o
      <4>1. outbox[p] = "init" /\ unmarked # p /\ z = <<owner[p], "row", p>>
        BY <1>d, <2>3, <3>1, <3>3
      <4> QED
        BY <4>1, Zenon DEF RowHolds
    <3> QED
      BY <3>2, <3>3
  <2>7. MessageHolds' \subseteq MessageHolds /\ WorkerHolds' \subseteq WorkerHolds
    BY <1>b, <1>e, <2>5, MessagesHold, HandlersHold
  <2>8. RequestHolds' \subseteq RequestHolds \ {x}
    BY <1>j, <2>2
  <2>9. x \in Holders /\ Holders' \subseteq (Holders \ {x}) \cup {y} /\ y[1] = x[1]
    <3>1. x \notin RowHolds /\ x \notin MessageHolds /\ x \notin WorkerHolds
      BY <1>k
    <3>2. y[1] = x[1]
      BY <1>a
    <3> HIDE DEF y
    <3> QED
      BY <1>c, <2>2, <2>6, <2>7, <2>8, <3>1, <3>2 DEF Holders
  <2>10. Passed
    <3> HIDE DEF y
    <3> QED
      BY <2>2, <2>9, Zenon DEF Passed, UnitsStay
  <2>11. InsertIsClear'
    <3>1. ASSUME NEW q \in Requests, claimPc'[q] = "insert"
          PROVE  claimPc[q] = "insert" /\ q[1] # r[1]
      <4>1. claimPc[q] = "insert" /\ q # r
        BY <1>f, <2>2, <3>1
      <4>2. <<q[1], "request", q>> \in Holders /\ x \in Holders
        BY <1>c, <2>2, <4>1 DEF Holders, RequestHolds
      <4>3. <<q[1], "request", q>> # x
        BY <4>1 DEF x
      <4> QED
        BY <1>a, <1>b, <4>1, <4>2, <4>3 DEF HolderInv, OneHolder
    <3> QED
      BY <1>b, <2>3, <3>1 DEF OpenInv, InsertIsClear
  <2>12. OneOpenOrderPerUser'
    <3>1. \A p \in Orders : owner[p] = r[1] => status[p] # "claimed"
      BY <1>b, <2>2 DEF OpenInv, InsertIsClear
    <3> QED
      BY <1>b, <2>3, <3>1 DEF OpenInv, OneOpenOrderPerUser
  <2> QED
    BY <1>e, <2>10, <2>11, <2>12 DEF HandledStep, HolderMove, OpenInv
<1>4. CASE ClaimDbError(r)
  <2>1. /\ claimPc[r] # "idle" /\ Goto(r, "rollback") /\ Spend({"db"})
        /\ UNCHANGED <<stock, claimed, owner, status, outbox>>
    BY <1>4 DEF ClaimDbError, outboxVars
  <2>2. Kept
    BY <1>i, <2>1, SpendUnits DEF Kept, UnitsStay
  <2> QED
    BY <1>e, <1>l, <2>1, <2>2 DEF HandledStep, HolderMove
<1>5. CASE ClaimRollback(r)
  <2>1. /\ claimPc[r] # "idle" /\ Goto(r, "idle")
        /\ stock' = stock + 1 /\ claimed' = claimed \ {r[1]}
        /\ UNCHANGED <<owner, status, outbox, faults>>
    BY <1>5 DEF ClaimRollback, LuaRollback, outboxVars
  <2>2. x \in Holders /\ Holders' \subseteq Holders \ {x}
    <3>1. x \notin RowHolds /\ x \notin MessageHolds /\ x \notin WorkerHolds
      BY <1>k
    <3>2. RequestHolds' \subseteq RequestHolds \ {x}
      BY <1>j, <2>1
    <3> QED
      BY <1>c, <1>h, <2>1, <3>1, <3>2 DEF Holders
  <2>3. r[1] \in claimed
    BY <1>a, <1>b, <2>2 DEF HolderInv, HoldersHaveKey
  <2>4. Left
    BY <1>a, <2>1, <2>2, <2>3, Zenon DEF Left
  <2> QED
    BY <1>e, <1>l, <2>1, <2>4 DEF HandledStep, HolderMove
<1>6. CASE ClaimAbandon(r)
  <2>1. /\ claimPc[r] # "idle" /\ Goto(r, "idle")
        /\ UNCHANGED <<stock, claimed, owner, status, outbox>>
        /\ Spend({"db"}) \/ Spend({"redis"})
    BY <1>6 DEF ClaimAbandon, outboxVars
  <2>2. Kept
    BY <1>i, <2>1, SpendUnits DEF Kept, UnitsStay
  <2> QED
    BY <1>e, <1>l, <2>1, <2>2 DEF HandledStep, HolderMove
<1> QED
  BY <1>1, <1>2, <1>3, <1>4, <1>5, <1>6 DEF ClaimStep, ClaimFault

\* A lead touches no reservation and makes no order wait.
LEMMA LeadHandles ==
  ASSUME HandledInv, NEW u \in Users, LeadCheck(u) \/ LeadStep(u) \/ LeadFault(u)
  PROVE  HandledStep
<1>a. TypeInv /\ OpenInv /\ MessageOnce /\ recPc = "idle"
  BY DEF HandledInv
<1>1. /\ UNCHANGED <<stock, claimed, owner, outbox, queue, claimPc, unmarked, workerPc, workerMsg, recPc>>
      /\ UNCHANGED faults \/ Spend({"db"}) \/ Spend({"redis"})
  BY DEF LeadCheck, LeadStep, LeadFault, LeadFind, LeadInsert, LeadUpdate, LeadMark, LeadDbError,
         LeadMarkFails, leadFrame, outboxVars, claimVars, scanVars, workerVars, recVars
<1>2. Kept
  <2>1. Holders' \subseteq Holders
    BY <1>a, <1>1, AllHold DEF OwnerKept, RequestsKept, RowsKept, MessagesKept, HandlersKept
  <2> QED
    BY <1>1, <2>1, SpendUnits DEF Kept, UnitsStay
<1>3. \A o \in Orders : status'[o] = "claimed" => status[o] = "claimed"
  <2>1. CASE LeadUpdate(u)
    <3>1. status' = [status EXCEPT ![leadOrder[u]] = "lead_submitted"]
      BY <2>1 DEF LeadUpdate
    <3> QED
      BY <1>a, <3>1 DEF TypeInv, TypeOK, OrderTypeOK
  <2>2. CASE ~LeadUpdate(u)
    BY <2>2 DEF LeadCheck, LeadStep, LeadFault, LeadFind, LeadInsert, LeadMark, LeadDbError,
                LeadMarkFails
  <2> QED
    BY <2>1, <2>2
<1>4. OpenInv'
  BY <1>a, <1>1, <1>3, OpenStep DEF OpenKept
<1> QED
  BY <1>a, <1>1, <1>2, <1>4 DEF HandledStep, HolderMove, MessageOnce

\* The scanner passes the reservation from the row to the message.
LEMMA ScanHandles ==
  ASSUME HandledOnce, HandledInv, ScanStep \/ ScanFault
  PROVE  HandledStep
<1>a. TypeInv /\ HolderInv /\ OpenInv /\ MessageOnce /\ recPc = "idle"
  BY DEF HandledInv
<1>b. UNCHANGED <<stock, claimed, owner, status, claimPc, workerPc, workerMsg, recPc>>
  BY DEF ScanStep, ScanFault, ScanFetch, ScanPublish, ScanMarkSent, ScanMarkFails,
         ScanPublishFails, scanFrame, redisVars, orderVars, claimVars, workerVars, recVars
<1>c. OwnerKept /\ RequestsKept /\ HandlersKept /\ OpenInv'
  BY <1>a, <1>b, OpenStep DEF OwnerKept, RequestsKept, HandlersKept, OpenKept
<1>d. ASSUME RowsKept, UNCHANGED queue, UNCHANGED faults \/ Spend({"publish"})
      PROVE  HandledStep
  <2>1. Holders' \subseteq Holders
    BY <1>a, <1>c, <1>d, AllHold DEF MessagesKept
  <2>2. Kept
    BY <1>b, <1>d, <2>1, SpendUnits DEF Kept, UnitsStay
  <2> QED
    BY <1>a, <1>b, <1>c, <1>d, <2>2 DEF HandledStep, HolderMove, MessageOnce
<1>1. CASE ScanFetch
  BY <1>1, <1>d DEF ScanFetch, RowsKept, outboxVars
<1>2. CASE ScanPublish
  <2>1. PICK o \in Orders : outbox[o] = "init" /\ unmarked = 0 /\ Put(Timeout(o)) /\ unmarked' = o
    BY <1>2, <1>a DEF ScanPublish, TypeInv, TypeOK, ScanTypeOK, BatchIsPending
  <2>2. UNCHANGED <<outbox, faults>>
    BY <1>2 DEF ScanPublish, outboxVars
  <2> DEFINE m == Timeout(o)
             x == <<owner[o], "row", o>>
             y == <<owner[o], "message", m>>
  <2>3. m \in Messages /\ m.order = o
    BY ConstantsOK DEF Timeout, Messages
  <2>4. 0 \notin Orders
    BY DEF Orders
  <2>5. x \in Holders
    <3>1. outbox[o] = "init" /\ unmarked # o
      BY <2>1, <2>4
    <3>2. x \in RowHolds
      BY <3>1, Zenon DEF RowHolds
    <3> QED
      BY <3>2 DEF Holders
  <2> HIDE DEF m
  <2>6. queue[m] = 0
    <3>1. queue[m] \in Nat
      BY <1>a, <2>3 DEF TypeInv, TypeOK, QueueTypeOK
    <3>2. ASSUME queue[m] > 0 PROVE FALSE
      <4>1. y \in MessageHolds
        BY <2>3, <3>2, Zenon DEF MessageHolds
      <4>2. y \in Holders
        BY <4>1 DEF Holders
      <4>3. x[1] = y[1] /\ x # y
        OBVIOUS
      <4> QED
        BY <1>a, <2>5, <4>2, <4>3 DEF HolderInv, OneHolder
    <3> QED
      BY <3>1, <3>2
  <2>7. \A n \in Messages : queue'[n] = IF n = m THEN 1 ELSE queue[n]
    <3>1. queue' = [queue EXCEPT ![m] = queue[m] + 1]
      BY <2>1 DEF Put, m
    <3>2. queue' = [queue EXCEPT ![m] = 1]
      BY <2>6, <3>1
    <3>3. queue \in [Messages -> Nat]
      BY <1>a DEF TypeInv, TypeOK, QueueTypeOK
    <3> QED
      BY <2>3, <3>2, <3>3, Zenon
  <2>8. MessageHolds' \subseteq MessageHolds \cup {y}
    <3> SUFFICES ASSUME NEW z \in MessageHolds' PROVE z \in MessageHolds \/ z = y
      OBVIOUS
    <3>1. PICK n \in Messages : queue'[n] > 0 /\ z = <<owner'[n.order], "message", n>>
      BY Zenon DEF MessageHolds
    <3>2. CASE n = m
      BY <1>b, <2>3, <3>1, <3>2
    <3>3. CASE n # m
      <4>1. queue[n] > 0 /\ z = <<owner[n.order], "message", n>>
        BY <1>b, <2>7, <3>1, <3>3
      <4> QED
        BY <4>1, Zenon DEF MessageHolds
    <3> QED
      BY <3>2, <3>3
  <2>9. RowHolds' \subseteq RowHolds \ {x}
    <3>1. \A p \in Orders : outbox'[p] = "init" /\ unmarked' # p =>
             p # o /\ outbox[p] = "init" /\ unmarked # p
      BY <2>1, <2>2, <2>4
    <3>2. \A p : p # o => <<owner[p], "row", p>> # x
      OBVIOUS
    <3> HIDE DEF x
    <3> QED
      BY <1>b, <3>1, <3>2, Zenon DEF RowHolds
  <2>10. RequestHolds' \subseteq RequestHolds /\ WorkerHolds' \subseteq WorkerHolds
    BY <1>a, <1>c, RequestsHold, HandlersHold
  <2>11. x \notin RequestHolds /\ x \notin MessageHolds /\ x \notin WorkerHolds
    <3>1. x[2] = "row"
      OBVIOUS
    <3> HIDE DEF x
    <3> QED
      BY <3>1, Tags
  <2>12. x[1] = y[1]
    OBVIOUS
  <2> HIDE DEF x, y
  <2>13. Holders' \subseteq (Holders \ {x}) \cup {y}
    BY <2>8, <2>9, <2>10, <2>11 DEF Holders
  <2>14. Passed
    BY <1>b, <2>2, <2>5, <2>12, <2>13, Zenon DEF Passed, UnitsStay
  <2>15. MessageOnce'
    BY <1>a, <2>7 DEF MessageOnce
  <2> QED
    BY <1>a, <1>b, <1>c, <2>14, <2>15 DEF HandledStep, HolderMove
<1>3. CASE ScanMarkSent
  <2>1. unmarked \in Orders /\ outbox' = [outbox EXCEPT ![unmarked] = "sent"]
        /\ unmarked' = 0 /\ UNCHANGED <<queue, faults>>
    BY <1>3, <1>a DEF ScanMarkSent, TypeInv, TypeOK, ScanTypeOK
  <2>2. RowsKept
    BY <1>a, <2>1 DEF RowsKept, TypeInv, TypeOK, OutboxTypeOK
  <2> QED
    BY <1>d, <2>1, <2>2
<1>4. CASE ScanMarkFails
  <2>1. Spend({"mark"})
    BY <1>4 DEF ScanMarkFails
  <2> QED
    BY <1>a, <2>1, NoFault
<1>5. CASE ScanPublishFails
  <2>1. PICK o \in batch : outbox' = IF retries[o] + 1 >= MaxOutboxRetries
                                     THEN [outbox EXCEPT ![o] = "failed"] ELSE outbox
    BY <1>5 DEF ScanPublishFails
  <2>2. RowsKept
    BY <1>5, <1>a, <2>1 DEF ScanPublishFails, RowsKept, TypeInv, TypeOK, OutboxTypeOK, ScanTypeOK
  <2> QED
    BY <1>5, <1>d, <2>2 DEF ScanPublishFails
<1> QED
  BY <1>1, <1>2, <1>3, <1>4, <1>5 DEF ScanStep, ScanFault

\* What the handler of a message holds, and who else holds it.
HandlerOf(w) == <<UserOf(w), "worker", w>>

\* A handler that ends gives up what it holds; one that goes on keeps it.
LEMMA AckHolds ==
  ASSUME TypeInv, NEW w \in Workers, workerPc[w] # "idle", Ack(w), OwnerKept
  PROVE  /\ HandlerOf(w) \in WorkerHolds /\ HandlersKept
         /\ WorkerHolds' \subseteq WorkerHolds \ {HandlerOf(w)}
<1>1. \A v \in Workers : /\ workerPc'[v] = IF v = w THEN "idle" ELSE workerPc[v]
                         /\ v # w => workerMsg'[v] = workerMsg[v]
  BY DEF Ack, TypeInv, TypeOK, WorkerTypeOK
<1>2. HandlerOf(w) \in WorkerHolds
  BY DEF HandlerOf, WorkerHolds
<1>3. HandlersKept
  BY <1>1 DEF HandlersKept
<1>4. WorkerHolds' \subseteq WorkerHolds
  BY <1>3, HandlersHold
<1>5. HandlerOf(w) \notin WorkerHolds'
  <2>1. \A z \in WorkerHolds' : z[3] # w
    BY <1>1 DEF WorkerHolds
  <2>2. HandlerOf(w)[3] = w
    BY DEF HandlerOf
  <2> QED
    BY <2>1, <2>2
<1> QED
  BY <1>2, <1>3, <1>4, <1>5

\* A handler that goes on holds what it held.
LEMMA GotoHolds ==
  ASSUME TypeInv, NEW w \in Workers, workerPc[w] # "idle", NEW pc, WorkerGoto(w, pc)
  PROVE  HandlersKept
  BY DEF WorkerGoto, HandlersKept, TypeInv, TypeOK, WorkerTypeOK

\* A step of a handler leaves the requests, the rows and the owners alone.
LEMMA WorkerFrame ==
  ASSUME HandledInv, NEW w \in Workers, Deliver(w) \/ WorkerStep(w) \/ WorkerFault(w)
  PROVE  /\ OwnerKept /\ UNCHANGED <<owner, recPc>>
         /\ RequestHolds' \subseteq RequestHolds /\ RowHolds' \subseteq RowHolds
         /\ \A o \in Orders : status'[o] = "claimed" => status[o] = "claimed"
         /\ OpenInv'
<1>a. TypeInv /\ OpenInv
  BY DEF HandledInv
<1>1. UNCHANGED <<owner, outbox, claimPc, unmarked, recPc>>
  BY DEF Deliver, WorkerStep, WorkerFault, WorkerCheck, WorkerConfirm, WorkerRelease, WorkerRecheck,
         WorkerLua, WorkerLuaFails, WorkerDbError, WorkerRaises, workFrame, outboxVars, claimVars,
         scanVars, recVars
<1>2. OwnerKept /\ RequestsKept /\ RowsKept
  BY <1>1 DEF OwnerKept, RequestsKept, RowsKept
<1>3. RequestHolds' \subseteq RequestHolds /\ RowHolds' \subseteq RowHolds
  BY <1>a, <1>2, RequestsHold, RowsHold
<1>4. \A o \in Orders : status'[o] = "claimed" => status[o] = "claimed"
  <2>1. workerPc[w] # "idle" => OrderOf(w) \in Orders
    BY <1>a, BusyWorker
  <2>2. status \in [Orders -> Status]
    BY <1>a DEF TypeInv, TypeOK, OrderTypeOK
  <2>3. CASE WorkerConfirm(w)
    <3>1. ConfirmLeadAndDeduct(OrderOf(w))
      BY <2>3 DEF WorkerConfirm
    <3> QED
      BY <2>2, <3>1 DEF ConfirmLeadAndDeduct
  <2>4. CASE WorkerRelease(w)
    <3>1. ReleaseOrderOnly(OrderOf(w))
      BY <2>4 DEF WorkerRelease
    <3> QED
      BY <2>2, <3>1 DEF ReleaseOrderOnly
  <2>5. CASE ~WorkerConfirm(w) /\ ~WorkerRelease(w)
    <3>1. UNCHANGED status
      BY <2>5 DEF Deliver, WorkerStep, WorkerFault, WorkerCheck, WorkerRecheck, WorkerLua,
                  WorkerLuaFails, WorkerDbError, WorkerRaises
    <3> QED
      BY <3>1
  <2> QED
    BY <2>3, <2>4, <2>5
<1>5. OpenInv'
  BY <1>a, <1>1, <1>4, OpenStep DEF OpenKept
<1> QED
  BY <1>1, <1>2, <1>3, <1>4, <1>5

\* The broker passes the reservation from a message to its handler.
LEMMA DeliverHandles ==
  ASSUME HandledInv, NEW w \in Workers, Deliver(w)
  PROVE  HandledStep
<1>a. TypeInv /\ HolderInv /\ MessageOnce /\ recPc = "idle"
  BY DEF HandledInv
<1>b. /\ OwnerKept /\ UNCHANGED <<owner, recPc>> /\ OpenInv'
      /\ RequestHolds' \subseteq RequestHolds /\ RowHolds' \subseteq RowHolds
  BY WorkerFrame
<1>1. PICK m \in Messages : /\ queue[m] > 0
                            /\ queue' = [queue EXCEPT ![m] = queue[m] - 1]
                            /\ workerMsg' = [workerMsg EXCEPT ![w] = m]
  BY DEF Deliver
<1>2. /\ workerPc[w] = "idle" /\ workerPc' = [workerPc EXCEPT ![w] = "check"]
      /\ UNCHANGED <<stock, claimed, faults>>
  BY DEF Deliver, redisVars
<1> DEFINE x == <<owner[m.order], "message", m>>
           y == <<owner[m.order], "worker", w>>
<1>3. \A n \in Messages : queue'[n] = IF n = m THEN 0 ELSE queue[n]
  <2>1. queue \in [Messages -> Nat]
    BY <1>a DEF TypeInv, TypeOK, QueueTypeOK
  <2>2. queue[m] = 1
    <3>1. queue[m] \in Nat /\ queue[m] <= 1
      BY <1>a, <2>1 DEF MessageOnce
    <3> QED
      BY <1>1, <3>1
  <2>3. queue' = [queue EXCEPT ![m] = 0]
    BY <1>1, <2>2
  <2> QED
    BY <2>1, <2>3, Zenon
<1>4. x \in Holders
  <2>1. x \in MessageHolds
    BY <1>1, Zenon DEF MessageHolds
  <2> QED
    BY <2>1 DEF Holders
<1>5. MessageHolds' \subseteq MessageHolds \ {x}
  <2>1. \A n \in Messages : queue'[n] > 0 => n # m /\ queue[n] > 0
    BY <1>3
  <2>2. \A n : n # m => <<owner[n.order], "message", n>> # x
    OBVIOUS
  <2> HIDE DEF x
  <2> QED
    BY <1>b, <2>1, <2>2, Zenon DEF MessageHolds
<1>6. WorkerHolds' \subseteq WorkerHolds \cup {y}
  <2>1. \A v \in Workers : /\ workerPc'[v] = IF v = w THEN "check" ELSE workerPc[v]
                           /\ workerMsg'[v] = IF v = w THEN m ELSE workerMsg[v]
    BY <1>1, <1>2, <1>a DEF TypeInv, TypeOK, WorkerTypeOK
  <2> SUFFICES ASSUME NEW z \in WorkerHolds' PROVE z \in WorkerHolds \/ z = y
    OBVIOUS
  <2>2. PICK v \in Workers : workerPc'[v] # "idle" /\ z = <<UserOf(v)', "worker", v>>
    BY Zenon DEF WorkerHolds
  <2>3. CASE v = w
    BY <1>b, <2>1, <2>2, <2>3 DEF UserOf, OrderOf
  <2>4. CASE v # w
    <3>1. workerPc[v] # "idle" /\ z = <<UserOf(v), "worker", v>>
      BY <1>b, <2>1, <2>2, <2>4 DEF UserOf, OrderOf
    <3> QED
      BY <3>1, Zenon DEF WorkerHolds
  <2> QED
    BY <2>3, <2>4
<1>7. x \notin RequestHolds /\ x \notin RowHolds /\ x \notin WorkerHolds /\ x[1] = y[1]
  <2>1. x[2] = "message" /\ x[1] = y[1]
    OBVIOUS
  <2> HIDE DEF x, y
  <2> QED
    BY <2>1, Tags
<1> HIDE DEF x, y
<1>8. Holders' \subseteq (Holders \ {x}) \cup {y}
  BY <1>b, <1>5, <1>6, <1>7 DEF Holders
<1>9. Passed
  BY <1>2, <1>4, <1>7, <1>8, Zenon DEF Passed, UnitsStay
<1>10. MessageOnce'
  BY <1>a, <1>3 DEF MessageOnce
<1> QED
  BY <1>a, <1>b, <1>9, <1>10 DEF HandledStep, HolderMove

\* The handler gives the reservation back, keeps it, passes it on to the
\* message it publishes again, or ends with it.
LEMMA WorkerHandles ==
  ASSUME HandledInv, NEW w \in Workers, WorkerStep(w) \/ WorkerFault(w)
  PROVE  HandledStep
<1> DEFINE x == HandlerOf(w)
<1>a. TypeInv /\ HolderInv /\ MessageOnce /\ recPc = "idle"
  BY DEF HandledInv
<1>b. /\ OwnerKept /\ UNCHANGED <<owner, recPc>> /\ OpenInv'
      /\ RequestHolds' \subseteq RequestHolds /\ RowHolds' \subseteq RowHolds
  BY WorkerFrame
<1>c. workerPc[w] # "idle"
  BY DEF WorkerStep, WorkerFault, WorkerCheck, WorkerConfirm, WorkerRelease, WorkerRecheck,
         WorkerLua, WorkerLuaFails, WorkerDbError, WorkerRaises
<1>d. x[1] = UserOf(w) /\ x[2] = "worker"
  BY DEF HandlerOf
<1>e. UserOf(w) \in Users
  BY <1>a, <1>c, BusyWorker
<1>f. ASSUME HandlersKept, UNCHANGED <<stock, claimed, queue>>,
             UNCHANGED faults \/ \E S : Spend(S) /\ "expiry" \notin S
      PROVE  HandledStep
  <2>1. WorkerHolds' \subseteq WorkerHolds
    BY <1>a, <1>b, <1>f, HandlersHold
  <2>2. MessageHolds' \subseteq MessageHolds
    BY <1>a, <1>b, <1>f, MessagesHold DEF MessagesKept
  <2>3. Holders' \subseteq Holders
    BY <1>b, <2>1, <2>2 DEF Holders
  <2>4. Kept
    BY <1>f, <2>3, SpendUnits DEF Kept, UnitsStay
  <2> QED
    BY <1>a, <1>b, <1>f, <2>4 DEF HandledStep, HolderMove, MessageOnce
<1>g. ASSUME Ack(w)
      PROVE  /\ x \in Holders /\ HandlersKept
             /\ WorkerHolds' \subseteq WorkerHolds \ {x}
             /\ x \notin RequestHolds /\ x \notin RowHolds /\ x \notin MessageHolds
  <2>1. x \in WorkerHolds /\ HandlersKept /\ WorkerHolds' \subseteq WorkerHolds \ {x}
    BY <1>a, <1>b, <1>c, <1>g, AckHolds
  <2> HIDE DEF x
  <2>2. x \notin RequestHolds /\ x \notin RowHolds /\ x \notin MessageHolds
    BY <1>d, Tags
  <2> QED
    BY <2>1, <2>2 DEF Holders
<1> HIDE DEF x
<1>1. CASE WorkerCheck(w)
  <2>1. HandlersKept
    BY <1>1, <1>a, <1>c, GotoHolds DEF WorkerCheck
  <2> QED
    BY <1>1, <1>f, <2>1 DEF WorkerCheck, redisVars
<1>2. CASE WorkerConfirm(w)
  BY <1>2, <1>f, <1>g DEF WorkerConfirm
<1>3. CASE WorkerRelease(w)
  <2>1. HandlersKept
    BY <1>3, <1>a, <1>c, GotoHolds DEF WorkerRelease
  <2> QED
    BY <1>3, <1>f, <2>1 DEF WorkerRelease, redisVars
<1>4. CASE WorkerRecheck(w)
  <2>1. HandlersKept
    BY <1>4, <1>a, <1>c, <1>g, GotoHolds DEF WorkerRecheck
  <2> QED
    BY <1>4, <1>f, <2>1 DEF WorkerRecheck
<1>5. CASE WorkerLua(w)
  <2>1. Ack(w) /\ LuaRelease(UserOf(w)) /\ UNCHANGED <<queue, faults>>
    BY <1>5 DEF WorkerLua
  <2>2. UserOf(w) \in claimed
    BY <1>a, <1>d, <1>g, <2>1 DEF HolderInv, HoldersHaveKey
  <2>3. stock' = stock + 1 /\ claimed' = claimed \ {UserOf(w)}
    BY <2>1, <2>2 DEF LuaRelease
  <2>4. MessageHolds' \subseteq MessageHolds
    BY <1>a, <1>b, <2>1, MessagesHold DEF MessagesKept
  <2>5. x \in Holders /\ Holders' \subseteq Holders \ {x}
    BY <1>b, <1>g, <2>1, <2>4 DEF Holders
  <2>6. Left
    BY <1>d, <1>e, <2>1, <2>2, <2>3, <2>5, Zenon DEF Left
  <2> QED
    BY <1>a, <1>b, <2>1, <2>6 DEF HandledStep, HolderMove, MessageOnce
<1>6. CASE WorkerLuaFails(w)
  <2>1. Ack(w) /\ Spend({"redis"}) /\ UNCHANGED <<stock, claimed, queue>>
    BY <1>6 DEF WorkerLuaFails, redisVars
  <2>2. "expiry" \notin {"redis"}
    OBVIOUS
  <2> QED
    BY <1>f, <1>g, <2>1, <2>2
<1>7. CASE WorkerDbError(w)
  <2>1. HandlersKept
    BY <1>7, <1>a, <1>c, <1>g, GotoHolds DEF WorkerDbError
  <2>2. Spend({"db"}) /\ "expiry" \notin {"db"} /\ UNCHANGED <<stock, claimed, queue>>
    BY <1>7 DEF WorkerDbError, redisVars
  <2> QED
    BY <1>f, <2>1, <2>2
<1>8. CASE WorkerRaises(w)
  <2>1. Ack(w) /\ UNCHANGED <<stock, claimed>>
    BY <1>8 DEF WorkerRaises, redisVars
  <2>2. \E S : Spend(S) /\ "expiry" \notin S
    <3>1. "expiry" \notin {"db"} /\ "expiry" \notin {"db", "publish"}
      OBVIOUS
    <3>2. Spend({"db"}) \/ Spend({"db", "publish"})
      BY <1>8 DEF WorkerRaises
    <3> QED
      BY <3>1, <3>2
  <2>3. CASE UNCHANGED queue
    BY <1>f, <1>g, <2>1, <2>2, <2>3
  <2>4. CASE /\ workerMsg[w].retry < MaxMsgRetries
             /\ Put([workerMsg[w] EXCEPT !.retry = workerMsg[w].retry + 1])
    <3> DEFINE m == [workerMsg[w] EXCEPT !.retry = workerMsg[w].retry + 1]
               y == <<UserOf(w), "message", m>>
    <3>1. workerMsg[w] \in Messages
      BY <1>a, <1>c DEF TypeInv, TypeOK, WorkerTypeOK
    <3>2. m \in Messages /\ m.order = OrderOf(w)
      BY <2>4, <3>1, ConstantsOK DEF Messages, OrderOf
    <3>3. Put(m)
      BY <2>4
    <3> HIDE DEF m
    <3>4. owner[m.order] = UserOf(w)
      BY <3>2 DEF UserOf
    <3>5. queue \in [Messages -> Nat]
      BY <1>a DEF TypeInv, TypeOK, QueueTypeOK
    <3>6. queue[m] = 0
      <4>1. ASSUME queue[m] > 0 PROVE FALSE
        <5>1. y \in MessageHolds
          BY <3>2, <3>4, <4>1, Zenon DEF MessageHolds
        <5>2. y \in Holders /\ y[1] = x[1] /\ x \in Holders /\ x \notin MessageHolds
          BY <1>d, <1>g, <2>1, <5>1 DEF Holders
        <5> HIDE DEF y
        <5> QED
          BY <1>a, <5>1, <5>2 DEF HolderInv, OneHolder
      <4>2. queue[m] \in Nat
        BY <3>2, <3>5
      <4> QED
        BY <4>1, <4>2
    <3>7. \A n \in Messages : queue'[n] = IF n = m THEN 1 ELSE queue[n]
      <4>1. queue' = [queue EXCEPT ![m] = 1]
        BY <3>3, <3>6 DEF Put
      <4> QED
        BY <3>2, <3>5, <4>1, Zenon
    <3>8. MessageHolds' \subseteq MessageHolds \cup {y}
      <4> SUFFICES ASSUME NEW z \in MessageHolds' PROVE z \in MessageHolds \/ z = y
        OBVIOUS
      <4>1. PICK n \in Messages : queue'[n] > 0 /\ z = <<owner'[n.order], "message", n>>
        BY Zenon DEF MessageHolds
      <4>2. CASE n = m
        BY <1>b, <3>4, <4>1, <4>2
      <4>3. CASE n # m
        <5>1. queue[n] > 0 /\ z = <<owner[n.order], "message", n>>
          BY <1>b, <3>7, <4>1, <4>3
        <5> QED
          BY <5>1, Zenon DEF MessageHolds
      <4> QED
        BY <4>2, <4>3
    <3>9. y[1] = x[1]
      BY <1>d
    <3> HIDE DEF y
    <3>10. Holders' \subseteq (Holders \ {x}) \cup {y}
      BY <1>b, <1>g, <2>1, <3>8 DEF Holders
    <3>11. Passed
      <4>1. x \in Holders
        BY <1>g, <2>1
      <4>2. UnitsStay
        BY <2>1, <2>2, SpendUnits DEF UnitsStay
      <4> QED
        BY <3>9, <3>10, <4>1, <4>2, Zenon DEF Passed
    <3>12. MessageOnce'
      BY <1>a, <3>7 DEF MessageOnce
    <3> QED
      BY <1>a, <1>b, <3>11, <3>12 DEF HandledStep, HolderMove
  <2> QED
    BY <1>8, <2>3, <2>4 DEF WorkerRaises
<1> QED
  BY <1>1, <1>2, <1>3, <1>4, <1>5, <1>6, <1>7, <1>8 DEF WorkerStep, WorkerFault

\* A key that expires is the key of a user nobody answers for.
LEMMA ExpiryHandles ==
  ASSUME HandledOnce, HandledInv, NEW u \in Users, ClaimedKeyExpires(u)
  PROVE  HandledStep
<1>a. TypeInv /\ OpenInv /\ MessageOnce /\ recPc = "idle"
  BY DEF HandledInv
<1>1. /\ UNCHANGED <<stock, owner, status, outbox, queue, claimPc, unmarked, workerPc, workerMsg,
                     recPc>>
      /\ u \in claimed /\ claimed' = claimed \ {u} /\ Spend({"expiry"}) /\ Settled(u)
  BY DEF ClaimedKeyExpires, HandledOnce, dbVars, orderVars, outboxVars, claimVars, scanVars,
         workerVars, recVars
<1>2. Holders' \subseteq Holders
  BY <1>a, <1>1, AllHold DEF OwnerKept, RequestsKept, RowsKept, MessagesKept, HandlersKept
<1>3. \A x \in Holders : x[1] # u
  <2>1. \A o \in Orders : owner[o] = u => ~Underway(o)
    BY <1>1 DEF Settled, OrdersOf
  <2>2. ASSUME NEW x \in RequestHolds, x[1] = u PROVE FALSE
    <3>1. PICK r \in Requests : claimPc[r] # "idle" /\ x = <<r[1], "request", r>>
      BY <2>2 DEF RequestHolds
    <3>2. r[2] \in Copies /\ r = <<u, r[2]>>
      BY <2>2, <3>1 DEF Requests
    <3> QED
      BY <1>1, <3>1, <3>2 DEF Settled
  <2>3. ASSUME NEW x \in RowHolds, x[1] = u PROVE FALSE
    <3>1. PICK o \in Orders : outbox[o] = "init" /\ unmarked # o /\ x = <<owner[o], "row", o>>
      BY <2>3 DEF RowHolds
    <3> QED
      BY <2>1, <2>3, <3>1 DEF Underway
  <2>4. ASSUME NEW x \in MessageHolds, x[1] = u PROVE FALSE
    <3>1. PICK m \in Messages : queue[m] > 0 /\ x = <<owner[m.order], "message", m>>
      BY <2>4, Zenon DEF MessageHolds
    <3>2. m.order \in Orders
      BY DEF Messages
    <3>3. owner[m.order] = u
      BY <2>4, <3>1
    <3> QED
      BY <2>1, <3>1, <3>2, <3>3, Zenon DEF Underway
  <2>5. ASSUME NEW x \in WorkerHolds, x[1] = u PROVE FALSE
    <3>1. PICK w \in Workers : workerPc[w] # "idle" /\ x = <<UserOf(w), "worker", w>>
      BY <2>5 DEF WorkerHolds
    <3>2. OrderOf(w) \in Orders /\ owner[OrderOf(w)] = u
      BY <1>a, <2>5, <3>1, BusyWorker DEF UserOf
    <3> QED
      BY <2>1, <3>1, <3>2 DEF Underway
  <2> QED
    BY <2>2, <2>3, <2>4, <2>5 DEF Holders
<1>4. faults'["expiry"] = faults["expiry"] + 1
  BY <1>1 DEF Spend, Fault
<1>5. Lapsed
  BY <1>1, <1>2, <1>3, <1>4 DEF Lapsed
<1>6. OpenInv'
  BY <1>a, <1>1, OpenStep DEF OpenKept
<1> QED
  BY <1>a, <1>1, <1>5, <1>6 DEF HandledStep, HolderMove, MessageOnce

\* Every step of the system is one of these.
LEMMA AllHandle ==
  ASSUME HandledOnce, HandledInv, [Next]_vars
  PROVE  HandledStep
<1>a. TypeInv /\ OpenInv /\ MessageOnce /\ recPc = "idle"
  BY DEF HandledInv
<1>1. ASSUME NEW S, NEW f \in {"restart", "connection", "mark", "reconcile"}, f \in S, Spend(S)
      PROVE  FALSE
  BY <1>a, <1>1, NoFault
<1>2. ~Restart
  BY <1>1 DEF Restart, InitStock
<1>3. ~ConnectionLost
  BY <1>1 DEF ConnectionLost
<1>4. ~RecStart /\ ~RecStep /\ ~RecFault
  BY <1>1, <1>a DEF RecStart, RecStep, RecFault, RecCheck, RecConfirm, RecRelease, RecLua, RecSkip,
                    RecDies
<1>5. CASE Requested
  BY <1>4, <1>5, ClaimHandles, LeadHandles DEF Requested
<1>6. CASE System
  BY <1>4, <1>6, ClaimHandles, LeadHandles, ScanHandles, DeliverHandles, WorkerHandles DEF System
<1>7. CASE Failure
  BY <1>2, <1>3, <1>4, <1>7, ClaimHandles, LeadHandles, ScanHandles, WorkerHandles, ExpiryHandles
     DEF Failure
<1>8. CASE UNCHANGED vars
  <2>1. UNCHANGED <<stock, claimed, owner, status, outbox, queue, claimPc, unmarked, workerPc,
                    workerMsg, recPc, faults>>
    BY <1>8 DEF vars, redisVars, dbVars, orderVars, outboxVars, claimVars, scanVars, workerVars,
                recVars
  <2>2. Kept
    BY <1>a, <2>1, AllHold DEF OwnerKept, RequestsKept, RowsKept, MessagesKept, HandlersKept,
                               Kept, UnitsStay
  <2>3. OpenInv'
    BY <1>a, <2>1, OpenStep DEF OpenKept
  <2> QED
    BY <1>a, <2>1, <2>2, <2>3 DEF HandledStep, HolderMove, MessageOnce
<1> QED
  BY <1>5, <1>6, <1>7, <1>8 DEF Next

\* At the start nobody holds anything.
LEMMA HandledInit == Init => HandledInv
<1> SUFFICES ASSUME Init PROVE HandledInv
  OBVIOUS
<1>1. TypeInv
  BY TypeInit
<1>2. Holders = {}
  <2>1. \A r \in Requests : claimPc[r] = "idle"
    BY DEF Init
  <2>2. \A o \in Orders : outbox[o] # "init"
    BY DEF Init
  <2>3. \A m \in Messages : ~(queue[m] > 0)
    <3>1. \A m \in Messages : queue[m] = 0
      BY Zenon DEF Init
    <3> QED
      BY <3>1
  <2>4. \A w \in Workers : workerPc[w] = "idle"
    BY DEF Init
  <2> QED
    BY <2>1, <2>2, <2>3, <2>4 DEF Holders, RequestHolds, RowHolds, MessageHolds, WorkerHolds
<1>3. MessageOnce
  <2>1. \A m \in Messages : queue[m] = 0
    BY Zenon DEF Init
  <2> QED
    BY <2>1 DEF MessageOnce
<1>4. OpenInv /\ recPc = "idle"
  BY DEF Init, OpenInv, InsertIsClear, OneOpenOrderPerUser
<1>5. StockConserved
  <2>1. stock = Total /\ claimed = {} /\ faults["expiry"] = 0
    BY DEF Init, Fault
  <2> QED
    BY <2>1, ConstantsOK, FS_EmptySet DEF StockConserved
<1> QED
  BY <1>1, <1>2, <1>3, <1>4, <1>5 DEF HandledInv, HolderInv, OneHolder, HoldersHaveKey

\* HandledInv is inductive while every timeout is handled once.
LEMMA HandledInvariant ==
  ASSUME HandledOnce
  PROVE  Spec => []HandledInv
<1>1. ASSUME HandledInv, [Next]_vars PROVE HandledInv'
  <2>1. HandledStep
    BY <1>1, AllHandle
  <2>2. TypeInv'
    BY <1>1, StepType DEF HandledInv
  <2>3. HolderInv'
    BY <1>1, <2>1, HolderStep DEF HandledInv, HandledStep
  <2>4. StockConserved'
    BY <1>1, <2>1, LedgerConserves DEF HandledInv, HandledStep
  <2> QED
    BY <2>1, <2>2, <2>3, <2>4 DEF HandledInv, HandledStep
<1> QED
  BY <1>1, HandledInit, PTL DEF Spec

-----------------------------------------------------------------------------
(***************************************************************************)
(* The theorems                                                            *)
(***************************************************************************)

\* While every timeout is handled once, no unit of the Redis stock is lost or
\* invented: it is free, held by a user, or its key expired, however requests,
\* rollbacks and releases interleave (coupon_claim.lua, coupon_claim_rollback.lua,
\* coupon_release.lua).
THEOREM NoUnitIsLost ==
  ASSUME HandledOnce
  PROVE  Spec => []StockConserved
<1>1. HandledInv => StockConserved
  BY DEF HandledInv
<1> QED
  BY <1>1, HandledInvariant, PTL

\* While every timeout is handled once, the Redis side implements the ledger:
\* every step of the system reserves a free unit for a user without one,
\* returns a unit its user holds, lets a key lapse, or changes none of them
\* (LuaClaim, LuaRollback, LuaRelease and the TTL of the claimed key).
THEOREM RedisImplementsLedger ==
  ASSUME HandledOnce
  PROVE  Spec => ImplementsLedger
<1>1. Init => Ledger!Init
  BY DEF Init, Ledger!Init, Fault
<1>2. ASSUME HandledInv, [Next]_vars PROVE [Ledger!Next]_(Ledger!ledger)
  <2>1. [Ledger!Next]_<<stock, claimed, faults["expiry"]>>
    BY <1>2, AllHandle, HolderLedger DEF HandledStep
  <2> QED
    BY <2>1 DEF Ledger!ledger
<1> QED
  BY <1>1, <1>2, HandledInvariant, PTL DEF Spec, ImplementsLedger, Ledger!Spec

\* While every timeout is handled once, an order that waits for its timeout
\* holds the key of its user: no refused request, rollback or release of the
\* same user takes it away (claim_in_transaction, _lua_rollback, release).
THEOREM WaitingOrderKeepsKey ==
  ASSUME HandledOnce
  PROVE  Spec => []WaitingOrderHoldsKey
<1>1. ASSUME HandledInv, NEW o \in Orders, Underway(o) PROVE owner[o] \in claimed
  <2>1. CASE outbox[o] = "init" /\ unmarked # o
    <3>1. <<owner[o], "row", o>> \in RowHolds
      BY <2>1, Zenon DEF RowHolds
    <3> QED
      BY <1>1, <3>1 DEF HandledInv, HolderInv, HoldersHaveKey, Holders
  <2>2. CASE \E m \in Messages : m.order = o /\ queue[m] > 0
    <3>1. PICK m \in Messages : m.order = o /\ queue[m] > 0
      BY <2>2, Zenon
    <3>2. <<owner[m.order], "message", m>> \in MessageHolds
      BY <3>1, Zenon DEF MessageHolds
    <3> QED
      BY <1>1, <3>1, <3>2 DEF HandledInv, HolderInv, HoldersHaveKey, Holders
  <2>3. CASE \E w \in Workers : workerPc[w] # "idle" /\ OrderOf(w) = o
    <3>1. PICK w \in Workers : workerPc[w] # "idle" /\ OrderOf(w) = o
      BY <2>3
    <3>2. <<UserOf(w), "worker", w>> \in WorkerHolds
      BY <3>1, Zenon DEF WorkerHolds
    <3> QED
      BY <1>1, <3>1, <3>2 DEF HandledInv, HolderInv, HoldersHaveKey, Holders, UserOf
  <2> QED
    BY <1>1, <2>1, <2>2, <2>3 DEF Underway
<1>2. HandledInv => WaitingOrderHoldsKey
  BY <1>1 DEF WaitingOrderHoldsKey
<1> QED
  BY <1>2, HandledInvariant, PTL

\* While every timeout is handled once, a user never has two orders waiting:
\* the Redis key admits one request at a time, and the SELECT of that request
\* sees every earlier order (coupon_claim.lua, claim_in_transaction).
THEOREM OneOrderWaits ==
  ASSUME HandledOnce
  PROVE  Spec => []OneOpenOrderPerUser
<1>1. HandledInv => OneOpenOrderPerUser
  BY DEF HandledInv, OpenInv
<1> QED
  BY <1>1, HandledInvariant, PTL

\* While every timeout is handled once, the users that hold a reservation never
\* outnumber the coupons, as README.md:1057 says: a unit they hold is a unit
\* that is not free (coupon_claim.lua).  A restart breaks it (NeverOversold).
THEOREM RedisDoesNotOversell ==
  ASSUME HandledOnce
  PROVE  Spec => []NeverOversold
<1>1. ASSUME SafeInv, HandledInv PROVE NeverOversold
  <2>1. /\ stock + Cardinality(claimed) + faults["expiry"] = Total
        /\ stock \in Int /\ stock >= 0
    BY <1>1 DEF SafeInv, HandledInv, TypeInv, TypeOK, RedisTypeOK, StockConserved,
                StockNeverNegative
  <2>2. faults["expiry"] \in Nat
    BY <1>1 DEF HandledInv, TypeInv, TypeOK, FaultsTypeOK, Fault
  <2>3. Cardinality(claimed) \in Nat
    <3>1. claimed \in SUBSET Users
      BY <1>1 DEF HandledInv, TypeInv, TypeOK, RedisTypeOK
    <3>2. IsFiniteSet(claimed)
      BY <3>1, ConstantsOK, FS_Subset
    <3> QED
      BY <3>2, FS_CardinalityType
  <2> QED
    BY <2>1, <2>2, <2>3, ConstantsOK DEF NeverOversold
<1>2. SafeInv /\ HandledInv => NeverOversold
  BY <1>1
<1> QED
  BY <1>2, SafeInvariant, HandledInvariant, PTL

=============================================================================
