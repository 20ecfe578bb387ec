---------------------------- MODULE OrdersProofs ----------------------------
(***************************************************************************)
(* Proofs about Orders for every set of orders and workers: the safety     *)
(* invariants of the cash counter, along one inductive invariant.  Its     *)
(* heart is SnapshotsFresh: a transaction whose UPDATE goes through has    *)
(* decided on the row as it still is.  The second half says what the       *)
(* invariant tells of single steps: which changes a row can undergo, that  *)
(* a paid order stays paid or is refunded, that a cancelled counter order  *)
(* is final, and that the cash of the orders implements TillLedger.        *)
(***************************************************************************)
EXTENDS Orders, TLAPS

(* A transaction is idle or a well-formed request. *)
LEMMA RequestType ==
  ASSUME TypeOK, NEW w \in Worker, txn[w] # Idle
  PROVE  /\ txn[w] \in Request
         /\ txn[w].order \in Order
         /\ txn[w].seen \in OrderRow
         /\ txn[w].next \in FulfillmentStatus
         /\ txn[w].expected \in Nat
BY DEF TypeOK, Request

(* A transaction with an operation of its own is not idle. *)
LEMMA BusyIsNotIdle ==
  ASSUME NEW w \in Worker, txn[w].op # "idle"
  PROVE  txn[w] # Idle
BY DEF Idle

(* The initial state has the types. *)
LEMMA InitType == Init => TypeOK
BY DEF Init, TypeOK, NoRow, OrderRow, Tender, FulfillmentStatus, PaymentStatus

(* Rows written by the services are rows. *)
LEMMA NewRowType ==
  ASSUME NEW source \in OrderSource, NEW tender \in Tender,
         NEW payment \in PaymentStatus, NEW coupon \in BOOLEAN, NEW optIn \in BOOLEAN
  PROVE  NewRow(source, tender, payment, coupon, optIn) \in OrderRow
BY DEF NewRow, OrderRow, FulfillmentStatus

(* The guarded UPDATE writes a row. *)
LEMMA UpdateRowType ==
  ASSUME TypeOK, NEW o \in Order, NEW f \in FulfillmentStatus, NEW p \in PaymentStatus,
         NEW v \in Nat, UpdateRow(o, f, p, v)
  PROVE  order' \in [Order -> OrderRow] /\ events' \in [Order -> Nat]
BY DEF TypeOK, UpdateRow, OrderRow

(* Every movement key of an order is a movement key. *)
LEMMA MovementType ==
  ASSUME TypeOK, NEW k \in MovementKey, NEW o \in Order
  PROVE  movements \cup {<<k, o>>} \subseteq MovementKey \X Order
BY DEF TypeOK

(* BeginRequest stores a request. *)
LEMMA BeginRequestType ==
  ASSUME TypeOK, NEW w \in Worker, NEW op \in Operation, NEW o \in Order,
         NEW next \in FulfillmentStatus, NEW v \in Nat,
         BeginRequest(w, op, o, next, v)
  PROVE  txn' \in [Worker -> Request \cup {Idle}]
<1>1. [op |-> op, order |-> o, seen |-> order[o], next |-> next, expected |-> v] \in Request
  BY DEF TypeOK, Request
<1>2. QED
  BY <1>1 DEF TypeOK, BeginRequest

(* Every step keeps the types of Orders' variables. *)
LEMMA NextType == TypeOK /\ [Next]_vars => TypeOK'
<1> SUFFICES ASSUME TypeOK, [Next]_vars PROVE TypeOK'
  OBVIOUS
<1> USE DEF rowVars
<1>1. ASSUME NEW o \in Order, NEW coupon \in BOOLEAN, NEW optIn \in BOOLEAN,
             CreateCashOrder(o, coupon, optIn)
      PROVE  TypeOK'
  <2>1. NewRow("storefront_cash", "cash", "pending", coupon, optIn) \in OrderRow
    BY NewRowType DEF OrderSource, Tender, PaymentStatus
  <2>2. QED
    BY <1>1, <2>1 DEF TypeOK, CreateCashOrder, InsertOrder
<1>2. ASSUME NEW o \in Order, NEW coupon \in BOOLEAN, NEW tender \in Tender,
             NEW payment \in PaymentStatus, CreateDirect(o, tender, payment, coupon)
      PROVE  TypeOK'
  <2>1. NewRow("admin_direct", tender, payment, coupon, FALSE) \in OrderRow
    BY NewRowType DEF OrderSource
  <2>2. movements' \subseteq MovementKey \X Order
    <3>1. "cash_deposit" \in MovementKey
      BY DEF MovementKey
    <3>2. CASE movements' = movements
      BY <3>2 DEF TypeOK
    <3>3. CASE movements' = movements \cup {<<"cash_deposit", o>>}
      BY <3>1, <3>3, MovementType
    <3>4. QED
      BY <1>2, <3>2, <3>3 DEF CreateDirect
  <2>3. /\ order' \in [Order -> OrderRow]
        /\ events' \in [Order -> Nat]
        /\ redemption' \in [Order -> {"none", "applied", "order_cancelled"}]
    BY <1>2, <2>1 DEF TypeOK, CreateDirect, InsertOrder
  <2>4. /\ announced' \in [Order -> PaymentStatus \cup {"none"}]
        /\ tickets' \subseteq Order /\ documents' \subseteq Order
        /\ ownerAlerts' \subseteq Order
    BY <1>2 DEF TypeOK, CreateDirect, Announce
  <2>5. QED
    BY <1>2, <2>2, <2>3, <2>4 DEF TypeOK, CreateDirect
<1>3. ASSUME NEW o \in Order, NEW coupon \in BOOLEAN, NEW optIn \in BOOLEAN,
             CreatePaidByWebhook(o, coupon, optIn) \/ CreatePaidByReconciliation(o, coupon, optIn)
      PROVE  TypeOK'
  <2>1. NewRow("mercadopago_webhook", "cash", "paid", coupon, optIn) \in OrderRow
    BY NewRowType DEF OrderSource, Tender, PaymentStatus
  <2>2. QED
    BY <1>3, <2>1 DEF TypeOK, CreatePaidByWebhook, CreatePaidByReconciliation, InsertOrder,
                      Announce, PaymentStatus
<1>4. ASSUME NEW o \in Order, ReconcileExisting(o)
      PROVE  TypeOK'
  BY <1>4 DEF TypeOK, ReconcileExisting, Announce, OrderRow, PaymentStatus
<1>5. ASSUME NEW o \in Order, PaymentWindowCloses(o)
      PROVE  TypeOK'
  BY <1>5 DEF TypeOK, PaymentWindowCloses
<1>6. ASSUME NEW w \in Worker, NEW o \in Order, NEW next \in FulfillmentStatus,
             NEW v \in 1 .. order[o].version, BeginTransition(w, o, next, v)
      PROVE  TypeOK'
  <2>1. v \in Nat
    OBVIOUS
  <2>2. txn' \in [Worker -> Request \cup {Idle}]
    BY <1>6, <2>1, BeginRequestType DEF BeginTransition, Operation
  <2>3. QED
    BY <1>6, <2>2 DEF TypeOK, BeginTransition
<1>7. ASSUME NEW w \in Worker, NEW o \in Order,
             BeginCollect(w, o) \/ BeginRefund(w, o) \/ BeginCancelUnpaid(w, o)
      PROVE  TypeOK'
  <2>1. order[o].fulfillment \in FulfillmentStatus /\ order[o].version \in Nat
    BY DEF TypeOK, OrderRow
  <2>2. txn' \in [Worker -> Request \cup {Idle}]
    BY <1>7, <2>1, BeginRequestType
       DEF BeginCollect, BeginRefund, BeginCancelUnpaid, Operation, FulfillmentStatus
  <2>3. QED
    BY <1>7, <2>2 DEF TypeOK, BeginCollect, BeginRefund, BeginCancelUnpaid
<1>8. ASSUME NEW w \in Worker, NEW o \in Order, ExpireRead(w, o)
      PROVE  TypeOK'
  <2>1. order[o].version \in Nat
    BY DEF TypeOK, OrderRow
  <2>2. txn' \in [Worker -> Request \cup {Idle}]
    BY <1>8, <2>1, BeginRequestType DEF ExpireRead, Operation, FulfillmentStatus, TypeOK
  <2>3. batch' \in [Worker -> SUBSET Order]
    BY <1>8 DEF ExpireRead, TypeOK
  <2>4. QED
    BY <1>8, <2>2, <2>3 DEF TypeOK, ExpireRead
<1>9. ASSUME NEW w \in Worker, ExpireScan(w) \/ JobCrash(w)
      PROVE  TypeOK'
  BY <1>9 DEF TypeOK, ExpireScan, JobCrash, ExpireCandidates
<1>10. ASSUME NEW w \in Worker, Rollback(w) \/ ExpireStale(w)
       PROVE  TypeOK'
  BY <1>10 DEF TypeOK, Rollback, ExpireStale, Done
<1>11. ASSUME NEW w \in Worker,
              CommitTransition(w) \/ CommitCollect(w) \/ CommitRefund(w)
                \/ CommitCancelUnpaid(w) \/ ExpireCommit(w)
       PROVE  TypeOK'
  <2> DEFINE t == txn[w]
             o == t.order
  <2>1. t # Idle
    BY <1>11, BusyIsNotIdle
       DEF CommitTransition, CommitCollect, CommitRefund, CommitCancelUnpaid, ExpireCommit
  <2>2. /\ o \in Order /\ t.next \in FulfillmentStatus /\ t.expected \in Nat
        /\ t.seen.payment \in PaymentStatus
    BY <2>1, RequestType DEF OrderRow
  <2>3. order[o].payment \in PaymentStatus /\ order[o].fulfillment \in FulfillmentStatus
    BY <2>2 DEF TypeOK, OrderRow
  <2>4. /\ {"paid", "refunded", "failed"} \subseteq PaymentStatus
        /\ "cancelled" \in FulfillmentStatus
    BY DEF PaymentStatus, FulfillmentStatus
  <2>5. order' \in [Order -> OrderRow] /\ events' \in [Order -> Nat]
    <3>1. CASE CommitTransition(w)
      BY <3>1, <2>2, <2>3, <2>4, UpdateRowType DEF CommitTransition
    <3>2. CASE CommitCollect(w)
      BY <3>2, <2>2, <2>3, <2>4, UpdateRowType DEF CommitCollect
    <3>3. CASE CommitRefund(w)
      BY <3>3, <2>2, <2>3, <2>4, UpdateRowType DEF CommitRefund
    <3>4. CASE CommitCancelUnpaid(w)
      BY <3>4, <2>2, <2>3, <2>4, UpdateRowType DEF CommitCancelUnpaid
    <3>5. CASE ExpireCommit(w)
      BY <3>5, <2>2, <2>3, <2>4, UpdateRowType DEF ExpireCommit
    <3>6. QED
      BY <1>11, <3>1, <3>2, <3>3, <3>4, <3>5
  <2>6. order'[o].payment \in PaymentStatus
    BY <2>2, <2>5 DEF OrderRow
  <2>7. movements' \subseteq MovementKey \X Order
    <3>1. {"cash_deposit", "cash_withdrawal", "cash_refund"} \subseteq MovementKey
      BY DEF MovementKey
    <3>2. CASE movements' = movements
      BY <3>2 DEF TypeOK
    <3>3. CASE \E k \in MovementKey : movements' = movements \cup {<<k, o>>}
      BY <3>3, <2>2, MovementType
    <3>4. QED
      BY <1>11, <3>1, <3>2, <3>3
         DEF CommitTransition, CommitCollect, CommitRefund, CommitCancelUnpaid, ExpireCommit
  <2>8. redemption' \in [Order -> {"none", "applied", "order_cancelled"}]
    BY <1>11, <2>2 DEF TypeOK, CancelRedemption, CommitTransition, CommitCollect, CommitRefund,
                       CommitCancelUnpaid, ExpireCommit
  <2>9. announced' \in [Order -> PaymentStatus \cup {"none"}]
    BY <1>11, <2>2, <2>4, <2>6 DEF TypeOK, Announce, CommitTransition, CommitCollect,
                                   CommitRefund, CommitCancelUnpaid, ExpireCommit
  <2>10. txn' \in [Worker -> Request \cup {Idle}]
    BY <1>11 DEF TypeOK, Done, CommitTransition, CommitCollect, CommitRefund,
                 CommitCancelUnpaid, ExpireCommit
  <2>11. QED
    <3>1. CASE CommitTransition(w)
      <4>1. readyNotices' \in [Order -> Nat]
        BY <3>1, <2>2 DEF TypeOK, CommitTransition
      <4>2. QED
        BY <3>1, <4>1, <2>5, <2>7, <2>8, <2>9, <2>10 DEF TypeOK, CommitTransition
    <3>2. CASE CommitCollect(w)
      <4>1. tickets' \subseteq Order
        BY <3>2, <2>2 DEF TypeOK, CommitCollect
      <4>2. QED
        BY <3>2, <4>1, <2>5, <2>7, <2>8, <2>9, <2>10 DEF TypeOK, CommitCollect
    <3>3. CASE CommitRefund(w)
      BY <3>3, <2>5, <2>7, <2>8, <2>9, <2>10 DEF TypeOK, CommitRefund
    <3>4. CASE CommitCancelUnpaid(w)
      BY <3>4, <2>5, <2>7, <2>8, <2>9, <2>10 DEF TypeOK, CommitCancelUnpaid
    <3>5. CASE ExpireCommit(w)
      BY <3>5, <2>5, <2>7, <2>8, <2>9, <2>10 DEF TypeOK, ExpireCommit
    <3>6. QED
      BY <1>11, <3>1, <3>2, <3>3, <3>4, <3>5
<1>12. CASE UNCHANGED vars
  BY <1>12 DEF vars, TypeOK
<1>13. QED
  BY <1>1, <1>2, <1>3, <1>4, <1>5, <1>6, <1>7, <1>8, <1>9, <1>10, <1>11, <1>12
     DEF Next, Create, Begin, Commit

(* The variables of Orders keep their types, whatever interleaves. *)
THEOREM TypeCorrect == Spec => []TypeOK
<1>1. Init => TypeOK
  BY InitType
<1>2. TypeOK /\ [Next]_vars => TypeOK'
  BY NextType
<1>3. QED
  BY <1>1, <1>2, PTL DEF Spec

-----------------------------------------------------------------------------
(* The safety invariants, order by order. *)

RowOK(o) ==
  /\ ~Exists(o) => /\ order[o] = NoRow
                   /\ ~Taken(o) /\ ~Withdrawn(o) /\ ~Refunded(o)
                   /\ o \notin tickets
                   /\ redemption[o] = "none"
  /\ order[o].source # "mercadopago_webhook" =>
       /\ Taken(o) <=> TillOrder(o) /\ order[o].payment \in {"paid", "refunded"}
       /\ order[o].payment = "refunded" <=> (Withdrawn(o) \/ Refunded(o))
       /\ ~(Withdrawn(o) /\ Refunded(o))
  /\ PrintingEnabled /\ TillOrder(o) => (o \in tickets <=> Taken(o))
  /\ order[o].tender = "cash" /\ order[o].fulfillment \in {"preparing", "ready", "delivered"}
       => order[o].payment = "paid"
  /\ TillOrder(o) /\ order[o].fulfillment = "cancelled" => order[o].payment # "paid"
  /\ CounterOrder(o) => events[o] = order[o].version
  /\ order[o].coupon =>
       (redemption[o] = "order_cancelled" <=> order[o].fulfillment = "cancelled")

IndInv == TypeOK /\ SnapshotsFresh /\ \A o \in Order : RowOK(o)

(* What the inductive invariant says of the properties the runs check. *)
LEMMA RowsGiveSafety ==
  ASSUME \A o \in Order : RowOK(o)
  PROVE  /\ DrawerMatchesOrder /\ KitchenGate /\ NoUnpaidProgress
         /\ NoPaidCancelled /\ EventPerVersion /\ RedemptionFollowsOrder
BY DEF RowOK, DrawerMatchesOrder, KitchenGate, NoUnpaidProgress, NoPaidCancelled,
       EventPerVersion, RedemptionFollowsOrder

(* An order whose row and whose traces a step leaves alone stays as it is. *)
LEMMA RowFrame ==
  ASSUME NEW o \in Order, RowOK(o),
         order'[o] = order[o], events'[o] = events[o], redemption'[o] = redemption[o],
         o \in tickets' <=> o \in tickets,
         \A k \in MovementKey : <<k, o>> \in movements' <=> <<k, o>> \in movements
  PROVE  RowOK(o)'
<1>1. Taken(o)' = Taken(o) /\ Withdrawn(o)' = Withdrawn(o) /\ Refunded(o)' = Refunded(o)
  BY DEF Taken, Withdrawn, Refunded, MovementKey
<1>2. Exists(o)' = Exists(o) /\ TillOrder(o)' = TillOrder(o) /\ CounterOrder(o)' = CounterOrder(o)
  BY DEF Exists, TillOrder, CounterOrder
<1>3. QED
  BY <1>1, <1>2 DEF RowOK

(* A committing transaction updates the row it read. *)
LEMMA CommitSeesRow ==
  ASSUME TypeOK, SnapshotsFresh, NEW w \in Worker, txn[w] # Idle,
         order[txn[w].order].version = txn[w].expected
  PROVE  /\ txn[w].order \in Order
         /\ Exists(txn[w].order)
         /\ txn[w].seen = order[txn[w].order]
         /\ Decided(txn[w])
<1>1. txn[w].order \in Order /\ txn[w].expected \in Nat /\ txn[w].seen.version \in Nat
  BY RequestType DEF OrderRow
<1>2. order[txn[w].order].version \in Nat
  BY <1>1 DEF TypeOK, OrderRow
<1>3. QED
  BY <1>1, <1>2 DEF SnapshotsFresh, Fresh

(* Rows only move forward: what a step does to a row raises its version.   *)
RowsAdvance ==
  \A o \in Order : /\ Exists(o) => Exists(o)'
                   /\ order'[o] = order[o] \/ order'[o].version > order[o].version

(* Open transactions keep their snapshots valid while rows only advance.   *)
LEMMA SnapshotsFrame ==
  ASSUME TypeOK, TypeOK', SnapshotsFresh, RowsAdvance,
         \A w \in Worker : txn'[w] \in {txn[w], Idle}
  PROVE  SnapshotsFresh'
<1> SUFFICES ASSUME NEW w \in Worker, txn'[w] # Idle
             PROVE  Fresh(txn[w])'
  BY DEF SnapshotsFresh
<1>1. txn'[w] = txn[w] /\ txn[w] # Idle
  OBVIOUS
<1>2. txn[w].order \in Order /\ txn[w].seen.version \in Nat /\ txn[w].expected \in Nat
  BY <1>1, RequestType DEF OrderRow
<1>3. order[txn[w].order].version \in Nat /\ order'[txn[w].order].version \in Nat
  BY <1>2 DEF TypeOK, OrderRow
<1>4. Fresh(txn[w])
  BY <1>1 DEF SnapshotsFresh
<1>5. Decided(txn[w])'
  BY <1>1, <1>4 DEF Fresh, Decided
<1>6. QED
  BY <1>1, <1>2, <1>3, <1>4, <1>5 DEF Fresh, RowsAdvance, Exists

(* Inserting an order leaves every existing row alone. *)
LEMMA InsertAdvances ==
  ASSUME TypeOK, NEW o \in Order, NEW row, row.version = 1, row.source # "none",
         \A p \in Order : ~Exists(p) => order[p] = NoRow,
         InsertOrder(o, row)
  PROVE  RowsAdvance
<1>1. order[o] = NoRow /\ NoRow.version = 0
  BY DEF InsertOrder, NoRow
<1>2. order' = [order EXCEPT ![o] = row]
  BY DEF InsertOrder
<1>3. QED
  BY <1>1, <1>2 DEF RowsAdvance, TypeOK, Exists, InsertOrder

(* The guarded UPDATE gives its row a new version and leaves the others alone. *)
LEMMA UpdateAdvances ==
  ASSUME TypeOK, NEW o \in Order, NEW f, NEW p, NEW v, UpdateRow(o, f, p, v)
  PROVE  RowsAdvance
<1>1. order[o].version \in Nat
  BY DEF TypeOK, OrderRow
<1>2. /\ order'[o].version = order[o].version + 1
      /\ order'[o].source = order[o].source
      /\ \A q \in Order : q # o => order'[q] = order[q]
  BY DEF UpdateRow, TypeOK, OrderRow
<1>3. QED
  BY <1>1, <1>2 DEF RowsAdvance, Exists

(* A request that begins has read the row as it is. *)
LEMMA BeginKeepsSnapshots ==
  ASSUME TypeOK, TypeOK', SnapshotsFresh, UNCHANGED order,
         NEW w \in Worker, NEW op \in Operation, NEW o \in Order, Exists(o),
         NEW next \in FulfillmentStatus, NEW v \in Nat, v <= order[o].version,
         BeginRequest(w, op, o, next, v),
         Decided([op |-> op, order |-> o, seen |-> order[o], next |-> next, expected |-> v])
  PROVE  SnapshotsFresh'
<1> DEFINE r == [op |-> op, order |-> o, seen |-> order[o], next |-> next, expected |-> v]
<1> SUFFICES ASSUME NEW x \in Worker, txn'[x] # Idle PROVE Fresh(txn[x])'
  BY DEF SnapshotsFresh
<1>1. CASE x = w
  <2>1. txn'[x] = r
    BY <1>1 DEF BeginRequest, TypeOK
  <2>2. /\ r.order = o /\ r.seen = order[o] /\ r.expected = v
        /\ Decided(r)
    OBVIOUS
  <2>3. Decided(txn[x])'
    BY <2>1, <2>2 DEF Decided
  <2>4. order[o].version \in Nat
    BY DEF TypeOK, OrderRow
  <2>5. QED
    BY <2>1, <2>2, <2>3, <2>4 DEF Fresh, Exists
<1>2. CASE x # w
  <2>1. txn'[x] = txn[x]
    BY <1>2 DEF BeginRequest, TypeOK
  <2>2. Fresh(txn[x])
    BY <2>1 DEF SnapshotsFresh
  <2>3. Decided(txn[x])'
    BY <2>1, <2>2 DEF Fresh, Decided
  <2>4. QED
    BY <2>1, <2>2, <2>3 DEF Fresh, Exists
<1>3. QED
  BY <1>1, <1>2

(* Every step keeps the snapshots of the open transactions valid. *)
LEMMA NextSnapshots ==
  ASSUME TypeOK, TypeOK', SnapshotsFresh, \A p \in Order : RowOK(p), [Next]_vars
  PROVE  SnapshotsFresh'
<1> USE DEF rowVars
<1>0. \A p \in Order : ~Exists(p) => order[p] = NoRow
  BY DEF RowOK
<1>1. ASSUME UNCHANGED order PROVE RowsAdvance
  BY <1>1 DEF RowsAdvance, Exists
<1>2. ASSUME NEW o \in Order, NEW source \in OrderSource, NEW tender, NEW payment, NEW coupon,
             NEW optIn, InsertOrder(o, NewRow(source, tender, payment, coupon, optIn)),
             UNCHANGED txn
      PROVE  SnapshotsFresh'
  <2>1. /\ NewRow(source, tender, payment, coupon, optIn).version = 1
        /\ NewRow(source, tender, payment, coupon, optIn).source # "none"
    BY DEF NewRow, OrderSource
  <2>2. RowsAdvance
    BY <1>0, <1>2, <2>1, InsertAdvances
  <2>3. QED
    BY <1>2, <2>2, SnapshotsFrame
<1>3. ASSUME Create PROVE SnapshotsFresh'
  <2>1. {"storefront_cash", "admin_direct", "mercadopago_webhook"} \subseteq OrderSource
    BY DEF OrderSource
  <2>2. QED
    BY <1>2, <1>3, <2>1, ZenonT(60)
       DEF Create, CreateCashOrder, CreateDirect, CreatePaidByWebhook, CreatePaidByReconciliation
<1>4. ASSUME NEW o \in Order, ReconcileExisting(o) PROVE SnapshotsFresh'
  <2>1. order[o].version \in Nat
    BY DEF TypeOK, OrderRow
  <2>2. /\ order'[o].version = order[o].version + 1
        /\ order'[o].source = order[o].source
        /\ \A q \in Order : q # o => order'[q] = order[q]
    BY <1>4 DEF ReconcileExisting, TypeOK, OrderRow
  <2>3. RowsAdvance
    BY <2>1, <2>2 DEF RowsAdvance, Exists
  <2>4. QED
    BY <1>4, <2>3, SnapshotsFrame DEF ReconcileExisting
<1>5. ASSUME NEW w \in Worker, NEW o \in Order, NEW next \in FulfillmentStatus,
             NEW v \in 1 .. order[o].version, BeginTransition(w, o, next, v)
      PROVE  SnapshotsFresh'
  <2>1. v \in Nat /\ v <= order[o].version /\ "transition" \in Operation
    BY DEF TypeOK, OrderRow, Operation
  <2>2. Decided([op |-> "transition", order |-> o, seen |-> order[o], next |-> next,
                 expected |-> v])
    BY <1>5 DEF Decided, BeginTransition
  <2>3. QED
    BY <1>5, <2>1, <2>2, BeginKeepsSnapshots DEF BeginTransition
<1>6. ASSUME NEW w \in Worker, NEW o \in Order,
             \/ BeginCollect(w, o) \/ BeginRefund(w, o) \/ BeginCancelUnpaid(w, o)
             \/ ExpireRead(w, o) /\ ExpireEligible(order[o], o \in due)
      PROVE  SnapshotsFresh'
  <2>1. /\ order[o].version \in Nat /\ order[o].version <= order[o].version
        /\ order[o].fulfillment \in FulfillmentStatus /\ "cancelled" \in FulfillmentStatus
        /\ {"collect", "refund", "cancelUnpaid", "expire"} \subseteq Operation
    BY DEF TypeOK, OrderRow, Operation, FulfillmentStatus
  <2>2. CASE BeginCollect(w, o)
    <3>1. Decided([op |-> "collect", order |-> o, seen |-> order[o],
                   next |-> order[o].fulfillment, expected |-> order[o].version])
      BY <2>2 DEF Decided, BeginCollect, CollectAllowed
    <3>2. QED
      BY <2>1, <2>2, <3>1, BeginKeepsSnapshots DEF BeginCollect
  <2>3. CASE BeginRefund(w, o)
    <3>1. Decided([op |-> "refund", order |-> o, seen |-> order[o],
                   next |-> "cancelled", expected |-> order[o].version])
      BY <2>3 DEF Decided, BeginRefund
    <3>2. QED
      BY <2>1, <2>3, <3>1, BeginKeepsSnapshots DEF BeginRefund
  <2>4. CASE BeginCancelUnpaid(w, o)
    <3>1. Decided([op |-> "cancelUnpaid", order |-> o, seen |-> order[o],
                   next |-> "cancelled", expected |-> order[o].version])
      BY <2>4 DEF Decided, BeginCancelUnpaid
    <3>2. QED
      BY <2>1, <2>4, <3>1, BeginKeepsSnapshots DEF BeginCancelUnpaid
  <2>5. CASE ExpireRead(w, o) /\ ExpireEligible(order[o], o \in due)
    <3>1. Decided([op |-> "expire", order |-> o, seen |-> order[o],
                   next |-> "cancelled", expected |-> order[o].version])
      BY <2>5 DEF Decided, ExpireEligible
    <3>2. Exists(o)
      BY <2>5 DEF ExpireEligible, Exists
    <3>3. QED
      BY <2>1, <2>5, <3>1, <3>2, BeginKeepsSnapshots DEF ExpireRead
  <2>6. QED
    BY <1>6, <2>2, <2>3, <2>4, <2>5
<1>7. ASSUME NEW w \in Worker, Commit(w)
      PROVE  SnapshotsFresh'
  <2>1. \A x \in Worker : txn'[x] \in {txn[x], Idle}
    BY <1>7 DEF TypeOK, Commit, CommitTransition, CommitCollect, CommitRefund,
                CommitCancelUnpaid, ExpireCommit, ExpireStale, Done
  <2>2. txn[w].order \in Order
    BY <1>7, BusyIsNotIdle, RequestType
       DEF Commit, CommitTransition, CommitCollect, CommitRefund, CommitCancelUnpaid,
           ExpireCommit, ExpireStale
  <2>3. RowsAdvance
    BY <1>1, <1>7, <2>2, UpdateAdvances
       DEF Commit, CommitTransition, CommitCollect, CommitRefund, CommitCancelUnpaid,
           ExpireCommit, ExpireStale
  <2>4. QED
    BY <2>1, <2>3, SnapshotsFrame
<1>8. ASSUME UNCHANGED order, \A x \in Worker : txn'[x] \in {txn[x], Idle}
      PROVE  SnapshotsFresh'
  BY <1>1, <1>8, SnapshotsFrame
<1>9. ASSUME NEW w \in Worker, NEW o \in Order, ExpireRead(w, o),
             ~ExpireEligible(order[o], o \in due)
      PROVE  SnapshotsFresh'
  BY <1>8, <1>9 DEF ExpireRead
<1>10. ASSUME NEW w \in Worker, ExpireScan(w) \/ Rollback(w) \/ JobCrash(w)
       PROVE  SnapshotsFresh'
  BY <1>8, <1>10 DEF ExpireScan, Rollback, JobCrash, Done, TypeOK
<1>11. ASSUME NEW o \in Order, PaymentWindowCloses(o) PROVE SnapshotsFresh'
  BY <1>8, <1>11 DEF PaymentWindowCloses
<1>12. CASE UNCHANGED vars
  BY <1>8, <1>12 DEF vars
<1>13. QED
  BY <1>3, <1>4, <1>5, <1>6, <1>7, <1>9, <1>10, <1>11, <1>12 DEF Next, Begin

-----------------------------------------------------------------------------
(* Creation gives a row that agrees with its movements and its ticket. *)
LEMMA InsertKeepsRows ==
  ASSUME TypeOK, \A p \in Order : RowOK(p), Create
  PROVE  \A p \in Order : RowOK(p)'
<1> USE DEF rowVars
<1> SUFFICES ASSUME NEW p \in Order PROVE RowOK(p)'
  OBVIOUS
<1>1. ASSUME NEW o \in Order, NEW row, InsertOrder(o, row)
      PROVE  /\ ~Exists(o) /\ order'[o] = row /\ events'[o] = 1
             /\ redemption'[o] = IF row.coupon THEN "applied" ELSE "none"
             /\ ~Taken(o) /\ ~Withdrawn(o) /\ ~Refunded(o) /\ o \notin tickets
             /\ p # o => /\ order'[p] = order[p] /\ events'[p] = events[p]
                         /\ redemption'[p] = redemption[p]
  BY <1>1 DEF InsertOrder, TypeOK, RowOK
<1>2. ASSUME NEW o \in Order, NEW coupon \in BOOLEAN, NEW optIn \in BOOLEAN,
             CreateCashOrder(o, coupon, optIn)
      PROVE  RowOK(p)'
  <2>1. InsertOrder(o, NewRow("storefront_cash", "cash", "pending", coupon, optIn))
    BY <1>2 DEF CreateCashOrder
  <2>2. CASE p = o
    BY <1>1, <1>2, <2>1, <2>2
       DEF RowOK, CreateCashOrder, NewRow, Exists, Taken, Withdrawn, Refunded, TillOrder, CounterOrder
  <2>3. CASE p # o
    BY <1>1, <1>2, <2>1, <2>3, RowFrame DEF CreateCashOrder
  <2>4. QED
    BY <2>2, <2>3
<1>3. ASSUME NEW o \in Order, NEW coupon \in BOOLEAN, NEW tender \in Tender,
             NEW payment \in PaymentStatus, CreateDirect(o, tender, payment, coupon)
      PROVE  RowOK(p)'
  <2> DEFINE row == NewRow("admin_direct", tender, payment, coupon, FALSE)
  <2>1. InsertOrder(o, row) /\ payment # "refunded"
    BY <1>3 DEF CreateDirect
  <2>2. /\ row.source = "admin_direct" /\ row.tender = tender /\ row.payment = payment
        /\ row.fulfillment = "approved" /\ row.version = 1 /\ row.coupon = coupon
    BY DEF NewRow
  <2>3. /\ Taken(o)' <=> tender = "cash" /\ payment = "paid"
        /\ ~Withdrawn(o)' /\ ~Refunded(o)'
    BY <1>1, <1>3, <2>1 DEF CreateDirect, Taken, Withdrawn, Refunded
  <2>4. PrintingEnabled /\ tender = "cash" => (o \in tickets' <=> payment = "paid")
    BY <1>1, <1>3, <2>1, <2>2 DEF CreateDirect, TicketAllowed
  <2>5. CASE p = o
    <3>a. /\ order'[o].source = "admin_direct" /\ order'[o].tender = tender
          /\ order'[o].payment = payment /\ order'[o].fulfillment = "approved"
          /\ order'[o].version = 1 /\ order'[o].coupon = coupon /\ events'[o] = 1
      BY <1>1, <2>1, <2>2
    <3>1. /\ Exists(o)' /\ CounterOrder(o)'
          /\ TillOrder(o)' <=> tender = "cash"
      BY <3>a DEF Exists, TillOrder, CounterOrder
    <3>2. redemption'[o] # "order_cancelled"
      BY <1>1, <2>1
    <3>3. QED
      BY <2>1, <2>3, <2>4, <2>5, <3>a, <3>1, <3>2 DEF RowOK
  <2>6. CASE p # o
    <3>1. /\ p \in tickets' <=> p \in tickets
          /\ \A k \in MovementKey : <<k, p>> \in movements' <=> <<k, p>> \in movements
      BY <1>3, <2>6 DEF CreateDirect
    <3>2. QED
      BY <1>1, <2>1, <2>6, <3>1, RowFrame
  <2>7. QED
    BY <2>5, <2>6
<1>4. ASSUME NEW o \in Order, NEW coupon \in BOOLEAN, NEW optIn \in BOOLEAN,
             CreatePaidByWebhook(o, coupon, optIn) \/ CreatePaidByReconciliation(o, coupon, optIn)
      PROVE  RowOK(p)'
  <2>1. InsertOrder(o, NewRow("mercadopago_webhook", "cash", "paid", coupon, optIn))
    BY <1>4 DEF CreatePaidByWebhook, CreatePaidByReconciliation
  <2>2. CASE p = o
    BY <1>1, <2>1, <2>2 DEF RowOK, NewRow, Exists, TillOrder, CounterOrder
  <2>3. CASE p # o
    <3>1. /\ p \in tickets' <=> p \in tickets
          /\ movements' = movements
      BY <1>4, <2>3 DEF CreatePaidByWebhook, CreatePaidByReconciliation
    <3>2. QED
      BY <1>1, <2>1, <2>3, <3>1, RowFrame
  <2>4. QED
    BY <2>2, <2>3
<1>5. QED
  BY <1>2, <1>3, <1>4 DEF Create

(* An UPDATE that goes through leaves a row that agrees with its traces. *)
LEMMA CommitKeepsRows ==
  ASSUME TypeOK, SnapshotsFresh, \A p \in Order : RowOK(p), NEW w \in Worker, Commit(w)
  PROVE  \A p \in Order : RowOK(p)'
<1> USE DEF rowVars
<1> SUFFICES ASSUME NEW p \in Order PROVE RowOK(p)'
  OBVIOUS
<1>1. txn[w] # Idle
  BY BusyIsNotIdle DEF Commit, CommitTransition, CommitCollect, CommitRefund,
                       CommitCancelUnpaid, ExpireCommit, ExpireStale
<1>a. PICK t \in Request : t = txn[w]
  BY <1>1, RequestType
<1>b. PICK o \in Order : o = t.order
  BY <1>1, <1>a, RequestType
<1>2. CASE ExpireStale(w)
  BY <1>2, RowFrame DEF ExpireStale
<1>3. ASSUME NEW f, NEW q, UpdateRow(o, f, q, t.expected)
      PROVE  /\ o \in Order /\ Exists(o) /\ t.seen = order[o] /\ Decided(t)
             /\ order'[o] = [order[o] EXCEPT !.fulfillment = f, !.payment = q,
                                             !.version = order[o].version + 1]
             /\ events'[o] = events[o] + 1
             /\ order'[o].source = order[o].source /\ order'[o].tender = order[o].tender
             /\ order'[o].coupon = order[o].coupon /\ order'[o].fulfillment = f
             /\ order'[o].payment = q /\ order'[o].version = order[o].version + 1
             /\ p # o => order'[p] = order[p] /\ events'[p] = events[p]
  <2>1. o \in Order /\ Exists(o) /\ t.seen = order[o] /\ Decided(t)
    BY <1>1, <1>3, <1>a, <1>b, CommitSeesRow DEF UpdateRow
  <2>2. QED
    BY <1>3, <2>1 DEF UpdateRow, TypeOK, OrderRow
<1>4. ASSUME NEW seen, seen = order[o], o \in Order, CancelRedemption(o, seen)
      PROVE  /\ order[o].coupon => redemption'[o] = "order_cancelled"
             /\ p # o => redemption'[p] = redemption[p]
  BY <1>4 DEF CancelRedemption, TypeOK
<1>5. CASE CommitTransition(w)
  <2> DEFINE refund == t.next = "cancelled" /\ isManualCash(t.seen)
             pay == IF refund THEN "refunded" ELSE order[o].payment
  <2>1. UpdateRow(o, t.next, pay, t.expected)
    BY <1>5, <1>a, <1>b DEF CommitTransition
  <2>2. o \in Order /\ t.seen = order[o] /\ TransitionAllowed(order[o], t.next) /\ RowOK(o)
    BY <1>3, <1>5, <1>a, <1>b, <2>1 DEF Decided, CommitTransition
  <2>3. CASE p = o
    <3>1. Taken(o)' = Taken(o) /\ Refunded(o)' = Refunded(o) /\ tickets' = tickets
          /\ (Withdrawn(o)' <=> refund \/ Withdrawn(o))
      BY <1>5, <1>a, <1>b DEF CommitTransition, Taken, Refunded, Withdrawn
    <3>2. order[o].fulfillment # "cancelled"
      BY <2>2 DEF TransitionAllowed, assertFulfillmentTransition, allowedTransitions,
                  FulfillmentStatus
    <3>3. order[o].coupon =>
            (redemption'[o] = "order_cancelled" <=> t.next = "cancelled")
      BY <1>4, <1>5, <1>a, <1>b, <2>2, <3>2 DEF CommitTransition, RowOK
    <3>4. Exists(o)' /\ (TillOrder(o)' <=> TillOrder(o)) /\ (CounterOrder(o)' <=> CounterOrder(o))
      BY <1>3, <2>1 DEF Exists, TillOrder, CounterOrder
    <3>5. QED
      <4>1. CASE refund
        <5>1. /\ order[o].source = "admin_direct" /\ order[o].tender = "cash"
              /\ order[o].payment = "paid" /\ pay = "refunded" /\ t.next = "cancelled"
          BY <2>2, <4>1 DEF isManualCash
        <5>2. TillOrder(o) /\ CounterOrder(o)
          BY <5>1 DEF TillOrder, CounterOrder
        <5>3. /\ order'[o].source = "admin_direct" /\ order'[o].payment = "refunded"
              /\ order'[o].fulfillment = "cancelled" /\ events'[o] = events[o] + 1
              /\ order'[o].version = order[o].version + 1 /\ order'[o].coupon = order[o].coupon
          BY <1>3, <2>1, <5>1
        <5>4. QED
          BY <2>2, <2>3, <3>1, <3>3, <3>4, <4>1, <5>1, <5>2, <5>3 DEF RowOK
      <4>2. CASE ~refund
        <5>1. pay = order[o].payment
          BY <4>2
        <5>2. /\ order'[o].source = order[o].source /\ order'[o].payment = order[o].payment
              /\ order'[o].tender = order[o].tender
              /\ order'[o].fulfillment = t.next /\ events'[o] = events[o] + 1
              /\ order'[o].version = order[o].version + 1 /\ order'[o].coupon = order[o].coupon
          BY <1>3, <2>1, <5>1, ZenonT(60)
        <5>3. order[o].tender = "cash" /\ t.next # "cancelled" => order[o].payment = "paid"
          BY <2>2 DEF TransitionAllowed
        <5>4. TillOrder(o) /\ t.next = "cancelled" => order[o].payment # "paid"
          BY <2>2, <4>2 DEF TransitionAllowed, isManualCash, TillOrder, CounterOrder
        <5>5. QED
          BY <2>2, <2>3, <3>1, <3>3, <3>4, <4>2, <5>2, <5>3, <5>4 DEF RowOK
      <4>3. QED
        BY <4>1, <4>2
  <2>4. CASE p # o
    <3>1. /\ \A k \in MovementKey : <<k, p>> \in movements' <=> <<k, p>> \in movements
          /\ tickets' = tickets /\ redemption'[p] = redemption[p]
      BY <1>4, <1>5, <1>a, <1>b, <2>2, <2>4 DEF CommitTransition
    <3>2. QED
      BY <1>3, <2>1, <2>4, <3>1, RowFrame
  <2>5. QED
    BY <2>3, <2>4
<1>6. CASE CommitCollect(w)
  <2>1. UpdateRow(o, order[o].fulfillment, "paid", t.expected)
    BY <1>6, <1>a, <1>b DEF CommitCollect
  <2>2. o \in Order /\ CollectAllowed(order[o], FALSE) /\ RowOK(o)
    BY <1>3, <1>6, <1>a, <1>b, <2>1 DEF Decided, CommitCollect
  <2>3. CASE p = o
    <3>1. Taken(o)' /\ Refunded(o)' = Refunded(o) /\ Withdrawn(o)' = Withdrawn(o)
          /\ redemption' = redemption
      BY <1>6, <1>a, <1>b DEF CommitCollect, Taken, Refunded, Withdrawn
    <3>2. PrintingEnabled => o \in tickets'
      BY <1>3, <1>6, <1>a, <1>b, <2>1 DEF CommitCollect, TicketAllowed
    <3>3. Exists(o)' /\ (TillOrder(o)' <=> TillOrder(o)) /\ (CounterOrder(o)' <=> CounterOrder(o))
      BY <1>3, <2>1 DEF Exists, TillOrder, CounterOrder
    <3>4. /\ order'[o].source = order[o].source /\ order'[o].payment = "paid"
          /\ order'[o].fulfillment = order[o].fulfillment /\ events'[o] = events[o] + 1
          /\ order'[o].version = order[o].version + 1 /\ order'[o].coupon = order[o].coupon
      BY <1>3, <2>1
    <3>5. /\ order[o].tender = "cash" /\ order[o].fulfillment # "cancelled"
          /\ order[o].payment # "refunded" /\ Exists(o)
      BY <1>3, <2>1, <2>2 DEF CollectAllowed
    <3>6. order[o].source # "mercadopago_webhook" => TillOrder(o)
      BY <1>3, <2>1, <2>2, <3>5 DEF TillOrder, CounterOrder, Exists, TypeOK, OrderRow, OrderSource
    <3>7. QED
      BY <2>2, <2>3, <3>1, <3>2, <3>3, <3>4, <3>5, <3>6 DEF RowOK
  <2>4. CASE p # o
    <3>1. /\ \A k \in MovementKey : <<k, p>> \in movements' <=> <<k, p>> \in movements
          /\ p \in tickets' <=> p \in tickets
          /\ redemption'[p] = redemption[p]
      BY <1>6, <1>a, <1>b, <2>4 DEF CommitCollect
    <3>2. QED
      BY <1>3, <2>1, <2>4, <3>1, RowFrame
  <2>5. QED
    BY <2>3, <2>4
<1>7. CASE CommitRefund(w)
  <2>1. UpdateRow(o, "cancelled", "refunded", t.expected)
    BY <1>7, <1>a, <1>b DEF CommitRefund
  <2>2. o \in Order /\ t.seen = order[o] /\ RefundAllowed(order[o]) /\ RowOK(o) /\ Exists(o)
    BY <1>3, <1>7, <1>a, <1>b, <2>1 DEF Decided, CommitRefund
  <2>3. CASE p = o
    <3>1. Taken(o)' = Taken(o) /\ Refunded(o)' /\ Withdrawn(o)' = Withdrawn(o)
          /\ tickets' = tickets
      BY <1>7, <1>a, <1>b DEF CommitRefund, Taken, Refunded, Withdrawn
    <3>2. order[o].coupon => redemption'[o] = "order_cancelled"
      BY <1>4, <1>7, <1>a, <1>b, <2>2 DEF CommitRefund
    <3>3. Exists(o)' /\ (TillOrder(o)' <=> TillOrder(o)) /\ (CounterOrder(o)' <=> CounterOrder(o))
      BY <1>3, <2>1 DEF Exists, TillOrder, CounterOrder
    <3>4. /\ order'[o].source = order[o].source /\ order'[o].payment = "refunded"
          /\ order'[o].fulfillment = "cancelled" /\ events'[o] = events[o] + 1
          /\ order'[o].version = order[o].version + 1 /\ order'[o].coupon = order[o].coupon
      BY <1>3, <2>1
    <3>5. order[o].tender = "cash" /\ order[o].payment = "paid"
      BY <2>2 DEF RefundAllowed
    <3>6. QED
      BY <2>2, <2>3, <3>1, <3>2, <3>3, <3>4, <3>5 DEF RowOK
  <2>4. CASE p # o
    <3>1. /\ \A k \in MovementKey : <<k, p>> \in movements' <=> <<k, p>> \in movements
          /\ tickets' = tickets /\ redemption'[p] = redemption[p]
      BY <1>4, <1>7, <1>a, <1>b, <2>2, <2>4 DEF CommitRefund
    <3>2. QED
      BY <1>3, <2>1, <2>4, <3>1, RowFrame
  <2>5. QED
    BY <2>3, <2>4
<1>8. CASE CommitCancelUnpaid(w) \/ ExpireCommit(w)
  <2>1. PICK q : UpdateRow(o, "cancelled", q, t.expected)
                 /\ q \in {order[o].payment, "failed"}
    BY <1>8, <1>a, <1>b DEF CommitCancelUnpaid, ExpireCommit
  <2>2. /\ o \in Order /\ t.seen = order[o] /\ RowOK(o) /\ Exists(o)
        /\ order[o].payment = "pending"
    BY <1>3, <1>8, <1>a, <1>b, <2>1
       DEF Decided, CommitCancelUnpaid, ExpireCommit, CancelUnpaidAllowed, ExpireEligible
  <2>3. movements' = movements /\ tickets' = tickets /\ CancelRedemption(o, t.seen)
    BY <1>8, <1>a, <1>b DEF CommitCancelUnpaid, ExpireCommit
  <2>4. CASE p = o
    <3>1. Taken(o)' = Taken(o) /\ Refunded(o)' = Refunded(o) /\ Withdrawn(o)' = Withdrawn(o)
      BY <2>3 DEF Taken, Refunded, Withdrawn
    <3>2. order[o].coupon => redemption'[o] = "order_cancelled"
      BY <1>4, <2>2, <2>3
    <3>3. Exists(o)' /\ (TillOrder(o)' <=> TillOrder(o)) /\ (CounterOrder(o)' <=> CounterOrder(o))
      BY <1>3, <2>1 DEF Exists, TillOrder, CounterOrder
    <3>4. /\ order'[o].source = order[o].source /\ order'[o].payment \in {"pending", "failed"}
          /\ order'[o].fulfillment = "cancelled" /\ events'[o] = events[o] + 1
          /\ order'[o].version = order[o].version + 1 /\ order'[o].coupon = order[o].coupon
      BY <1>3, <2>1, <2>2
    <3>5. QED
      BY <2>2, <2>3, <2>4, <3>1, <3>2, <3>3, <3>4 DEF RowOK
  <2>5. CASE p # o
    BY <1>3, <1>4, <2>1, <2>2, <2>3, <2>5, RowFrame
  <2>6. QED
    BY <2>4, <2>5
<1>9. QED
  BY <1>2, <1>5, <1>6, <1>7, <1>8, <1>a, <1>b DEF Commit

(* Every step keeps every row in agreement with its traces. *)
LEMMA NextRows ==
  ASSUME TypeOK, SnapshotsFresh, \A p \in Order : RowOK(p), [Next]_vars
  PROVE  \A p \in Order : RowOK(p)'
<1> USE DEF rowVars
<1>1. CASE Create
  BY <1>1, InsertKeepsRows
<1>2. ASSUME NEW w \in Worker, Commit(w) PROVE \A p \in Order : RowOK(p)'
  BY <1>2, CommitKeepsRows
<1>3. ASSUME UNCHANGED rowVars PROVE \A p \in Order : RowOK(p)'
  BY <1>3, RowFrame
<1>4. ASSUME NEW w \in Worker, Begin(w) \/ ExpireScan(w) \/ Rollback(w) \/ JobCrash(w)
      PROVE  \A p \in Order : RowOK(p)'
  <2>1. UNCHANGED rowVars
    BY <1>4 DEF Begin, BeginTransition, BeginCollect, BeginRefund, BeginCancelUnpaid,
                ExpireRead, ExpireScan, Rollback, JobCrash
  <2>2. QED
    BY <1>3, <2>1
<1>5. ASSUME NEW o \in Order, ReconcileExisting(o) PROVE \A p \in Order : RowOK(p)'
  <2> SUFFICES ASSUME NEW p \in Order PROVE RowOK(p)'
    OBVIOUS
  <2>1. CASE p = o
    <3>1. /\ order'[o].source = "mercadopago_webhook" /\ order'[o].payment = "paid"
          /\ order'[o].coupon = order[o].coupon /\ order'[o].tender = order[o].tender
          /\ order'[o].fulfillment = order[o].fulfillment
          /\ redemption'[o] = redemption[o]
      BY <1>5 DEF ReconcileExisting, TypeOK, OrderRow
    <3>2. Exists(o)' /\ ~CounterOrder(o)' /\ ~TillOrder(o)'
      BY <3>1 DEF Exists, CounterOrder, TillOrder
    <3>3. QED
      BY <2>1, <3>1, <3>2 DEF RowOK
  <2>2. CASE p # o
    BY <1>5, <2>2, RowFrame DEF ReconcileExisting, TypeOK
  <2>3. QED
    BY <2>1, <2>2
<1>6. ASSUME NEW o \in Order, PaymentWindowCloses(o) PROVE \A p \in Order : RowOK(p)'
  BY <1>3, <1>6 DEF PaymentWindowCloses
<1>7. CASE UNCHANGED vars
  BY <1>3, <1>7 DEF vars
<1>8. QED
  BY <1>1, <1>2, <1>4, <1>5, <1>6, <1>7 DEF Next

(* The inductive invariant holds before any order exists. *)
LEMMA InitInductive == Init => IndInv
<1> SUFFICES ASSUME Init PROVE IndInv
  OBVIOUS
<1>1. SnapshotsFresh
  BY DEF Init, SnapshotsFresh
<1>2. \A o \in Order : RowOK(o)
  BY DEF Init, RowOK, NoRow, Exists, Taken, Withdrawn, Refunded, TillOrder, CounterOrder
<1>3. QED
  BY <1>1, <1>2, InitType DEF IndInv

(* Every step preserves the inductive invariant. *)
LEMMA NextInductive == IndInv /\ [Next]_vars => IndInv'
<1> SUFFICES ASSUME IndInv, [Next]_vars PROVE IndInv'
  OBVIOUS
<1>1. TypeOK'
  BY NextType DEF IndInv
<1>2. SnapshotsFresh'
  BY <1>1, NextSnapshots DEF IndInv
<1>3. (\A o \in Order : RowOK(o))'
  BY NextRows DEF IndInv
<1>4. QED
  BY <1>1, <1>2, <1>3 DEF IndInv

(* The inductive invariant holds of every behaviour. *)
THEOREM Inductive == Spec => []IndInv
<1>1. QED
  BY InitInductive, NextInductive, PTL DEF Spec

(* The optimistic lock: no transaction of any service commits a decision   *)
(* taken on a row that has changed since.                                  *)
THEOREM OptimisticLock == Spec => []SnapshotsFresh
<1>1. IndInv => SnapshotsFresh
  BY DEF IndInv
<1>2. QED
  BY <1>1, Inductive, PTL

(* collect-cash, refund-cash and the manual cancellation keep the drawer   *)
(* and the order in agreement.                                             *)
THEOREM DrawerAgrees == Spec => []DrawerMatchesOrder
<1>1. IndInv => DrawerMatchesOrder
  BY RowsGiveSafety DEF IndInv
<1>2. QED
  BY <1>1, Inductive, PTL

(* The kitchen gate, the collection gate of the transitions, the rule that *)
(* a paid till order is not simply cancelled, one event per version and    *)
(* the redemption that follows the order.                                  *)
THEOREM CounterSafety == Spec => []CounterSafe
<1>1. IndInv => CounterSafe
  BY RowsGiveSafety DEF IndInv, CounterSafe
<1>2. QED
  BY <1>1, Inductive, PTL

-----------------------------------------------------------------------------
(* The changes a step can make to one row. *)

(* A creation. *)
Born(o) ==
  /\ ~Exists(o)
  /\ order'[o].fulfillment = "approved"
  /\ order'[o].payment \in {"paid", "pending", "verification_required"}

(* The unguarded update of the reconciliation. *)
Reconciled(o) ==
  /\ order[o].source = "mercadopago_webhook"
  /\ order'[o].source = "mercadopago_webhook"
  /\ order'[o].payment = "paid"

(* A guarded update: the row was not cancelled, and its payment stays, is  *)
(* collected, is given back with the order or fails with the order.        *)
Updated(o) ==
  /\ order'[o].source = order[o].source
  /\ order'[o].tender = order[o].tender
  /\ order[o].fulfillment # "cancelled"
  /\ \/ order'[o].payment = order[o].payment
     \/ /\ order[o].payment \notin {"paid", "refunded"}
        /\ order'[o].payment = "paid"
     \/ /\ order[o].payment = "paid"
        /\ order'[o].payment = "refunded"
        /\ order'[o].fulfillment = "cancelled"
     \/ /\ order[o].payment = "pending"
        /\ order'[o].payment = "failed"
        /\ order'[o].fulfillment = "cancelled"

RowChange(o) ==
  /\ \A p \in Order \ {o} : order'[p] = order[p]
  /\ Born(o) \/ Reconciled(o) \/ Updated(o)

(* A creation inserts one row, in a state a new order may have. *)
LEMMA CreateChangesRow ==
  ASSUME TypeOK, Create
  PROVE  \E o \in Order : RowChange(o)
<1>1. ASSUME NEW o \in Order, NEW s, NEW t, NEW q, NEW c, NEW i,
             q \in {"paid", "pending", "verification_required"},
             InsertOrder(o, NewRow(s, t, q, c, i))
      PROVE  RowChange(o)
  BY <1>1 DEF InsertOrder, NewRow, RowChange, Born, TypeOK
<1>2. PICK o \in Order, c \in BOOLEAN :
        \/ \E i \in BOOLEAN : CreateCashOrder(o, c, i)
        \/ \E t \in Tender, q \in PaymentStatus : CreateDirect(o, t, q, c)
        \/ \E i \in BOOLEAN : CreatePaidByWebhook(o, c, i)
        \/ \E i \in BOOLEAN : CreatePaidByReconciliation(o, c, i)
  BY DEF Create
<1>3. ASSUME NEW i \in BOOLEAN, CreateCashOrder(o, c, i) PROVE RowChange(o)
  BY <1>1, <1>3 DEF CreateCashOrder
<1>4. ASSUME NEW t \in Tender, NEW q \in PaymentStatus, CreateDirect(o, t, q, c)
      PROVE  RowChange(o)
  <2>1. InsertOrder(o, NewRow("admin_direct", t, q, c, FALSE))
    BY <1>4 DEF CreateDirect
  <2>2. q \in {"paid", "pending", "verification_required"}
    BY <1>4 DEF CreateDirect
  <2>3. QED
    BY <2>1, <2>2 DEF InsertOrder, NewRow, RowChange, Born, TypeOK
<1>5. ASSUME NEW i \in BOOLEAN, CreatePaidByWebhook(o, c, i) PROVE RowChange(o)
  BY <1>1, <1>5 DEF CreatePaidByWebhook
<1>6. ASSUME NEW i \in BOOLEAN, CreatePaidByReconciliation(o, c, i) PROVE RowChange(o)
  BY <1>1, <1>6 DEF CreatePaidByReconciliation
<1>7. QED
  BY <1>2, <1>3, <1>4, <1>5, <1>6

(* A commit updates the row it read, within what its service decided. *)
LEMMA CommitChangesRow ==
  ASSUME TypeOK, SnapshotsFresh, NEW w \in Worker, Commit(w)
  PROVE  UNCHANGED order \/ \E o \in Order : RowChange(o)
<1>1. txn[w] # Idle
  BY BusyIsNotIdle DEF Commit, CommitTransition, CommitCollect, CommitRefund,
                       CommitCancelUnpaid, ExpireCommit, ExpireStale
<1>a. PICK t \in Request : t = txn[w]
  BY <1>1, RequestType
<1>b. PICK o \in Order : o = t.order
  BY <1>1, <1>a, RequestType
<1>2. CASE ExpireStale(w)
  BY <1>2 DEF ExpireStale, rowVars
<1>3. ASSUME NEW f, NEW q, UpdateRow(o, f, q, t.expected)
      PROVE  /\ t.seen = order[o] /\ Decided(t)
             /\ order'[o].source = order[o].source /\ order'[o].tender = order[o].tender
             /\ order'[o].fulfillment = f /\ order'[o].payment = q
             /\ \A p \in Order \ {o} : order'[p] = order[p]
  <2>1. t.seen = order[o] /\ Decided(t)
    BY <1>1, <1>3, <1>a, <1>b, CommitSeesRow DEF UpdateRow
  <2>2. QED
    BY <1>3, <2>1 DEF UpdateRow, TypeOK, OrderRow
<1>4. CASE CommitTransition(w)
  <2> DEFINE refund == t.next = "cancelled" /\ isManualCash(t.seen)
             pay == IF refund THEN "refunded" ELSE order[o].payment
  <2>1. UpdateRow(o, t.next, pay, t.expected)
    BY <1>4, <1>a, <1>b DEF CommitTransition
  <2>2. TransitionAllowed(order[o], t.next)
    BY <1>3, <1>4, <1>a, <2>1 DEF Decided, CommitTransition
  <2>3. order[o].fulfillment # "cancelled"
    BY <2>2 DEF TransitionAllowed, assertFulfillmentTransition, allowedTransitions,
                FulfillmentStatus
  <2>4. refund => order[o].payment = "paid" /\ t.next = "cancelled"
    BY <1>3, <2>1 DEF isManualCash
  <2>5. QED
    BY <1>3, <2>1, <2>3, <2>4 DEF RowChange, Updated
<1>5. CASE CommitCollect(w)
  <2>1. UpdateRow(o, order[o].fulfillment, "paid", t.expected)
    BY <1>5, <1>a, <1>b DEF CommitCollect
  <2>2. CollectAllowed(order[o], FALSE)
    BY <1>3, <1>5, <1>a, <2>1 DEF Decided, CommitCollect
  <2>3. QED
    BY <1>3, <2>1, <2>2 DEF RowChange, Updated, CollectAllowed
<1>6. CASE CommitRefund(w)
  <2>1. UpdateRow(o, "cancelled", "refunded", t.expected)
    BY <1>6, <1>a, <1>b DEF CommitRefund
  <2>2. RefundAllowed(order[o])
    BY <1>3, <1>6, <1>a, <2>1 DEF Decided, CommitRefund
  <2>3. QED
    BY <1>3, <2>1, <2>2 DEF RowChange, Updated, RefundAllowed
<1>7. CASE CommitCancelUnpaid(w)
  <2>1. UpdateRow(o, "cancelled", order[o].payment, t.expected)
    BY <1>7, <1>a, <1>b DEF CommitCancelUnpaid
  <2>2. CancelUnpaidAllowed(order[o])
    BY <1>3, <1>7, <1>a, <2>1 DEF Decided, CommitCancelUnpaid
  <2>3. QED
    BY <1>3, <2>1, <2>2 DEF RowChange, Updated, CancelUnpaidAllowed
<1>8. CASE ExpireCommit(w)
  <2>1. UpdateRow(o, "cancelled", "failed", t.expected)
    BY <1>8, <1>a, <1>b DEF ExpireCommit
  <2>2. ExpireEligible(order[o], TRUE)
    BY <1>3, <1>8, <1>a, <2>1 DEF Decided, ExpireCommit
  <2>3. QED
    BY <1>3, <2>1, <2>2 DEF RowChange, Updated, ExpireEligible
<1>9. QED
  BY <1>2, <1>4, <1>5, <1>6, <1>7, <1>8 DEF Commit

(* Every step changes at most one row, in one of the known ways. *)
LEMMA StepChangesRow ==
  ASSUME TypeOK, SnapshotsFresh, [Next]_vars
  PROVE  UNCHANGED order \/ \E o \in Order : RowChange(o)
<1>1. CASE Create
  BY <1>1, CreateChangesRow
<1>2. ASSUME NEW w \in Worker, Commit(w)
      PROVE  UNCHANGED order \/ \E o \in Order : RowChange(o)
  BY <1>2, CommitChangesRow
<1>3. ASSUME NEW w \in Worker, Begin(w) \/ ExpireScan(w) \/ Rollback(w) \/ JobCrash(w)
      PROVE  UNCHANGED order
  BY <1>3 DEF Begin, BeginTransition, BeginCollect, BeginRefund, BeginCancelUnpaid,
              ExpireRead, ExpireScan, Rollback, JobCrash, rowVars
<1>4. ASSUME NEW o \in Order, ReconcileExisting(o) PROVE RowChange(o)
  BY <1>4 DEF ReconcileExisting, RowChange, Reconciled, TypeOK, OrderRow
<1>5. ASSUME NEW o \in Order, PaymentWindowCloses(o) PROVE UNCHANGED order
  BY <1>5 DEF PaymentWindowCloses, rowVars
<1>6. CASE UNCHANGED vars
  BY <1>6 DEF vars, rowVars
<1>7. QED
  BY <1>1, <1>2, <1>3, <1>4, <1>5, <1>6 DEF Next

-----------------------------------------------------------------------------
(* The action properties. *)

(* A confirmed collection prevails over every later cancellation, expiry   *)
(* and transition: a paid order stays paid or is refunded and cancelled.   *)
THEOREM CollectionPrevails == Spec => PaidPrevails
<1> DEFINE Prevails ==
      \A o \in Order : order[o].payment = "paid" =>
        \/ order'[o].payment = "paid"
        \/ order'[o].payment = "refunded" /\ order'[o].fulfillment = "cancelled"
<1>1. ASSUME IndInv, [Next]_vars PROVE [Prevails]_vars
  <2> SUFFICES ASSUME NEW o \in Order, order[o].payment = "paid"
               PROVE  \/ order'[o].payment = "paid"
                      \/ order'[o].payment = "refunded" /\ order'[o].fulfillment = "cancelled"
    OBVIOUS
  <2>1. UNCHANGED order \/ \E p \in Order : RowChange(p)
    BY <1>1, StepChangesRow DEF IndInv
  <2>2. Exists(o)
    BY <1>1 DEF IndInv, RowOK, NoRow
  <2>3. QED
    BY <2>1, <2>2 DEF RowChange, Born, Reconciled, Updated
<1>2. QED
  BY <1>1, Inductive, PTL DEF Spec, PaidPrevails

(* No late transaction touches a cancelled counter order. *)
THEOREM CancellationIsFinal == Spec => CancelledIsFinal
<1> DEFINE Final ==
      \A o \in Order : CounterOrder(o) /\ order[o].fulfillment = "cancelled"
                         => order'[o] = order[o]
<1>1. ASSUME IndInv, [Next]_vars PROVE [Final]_vars
  <2> SUFFICES ASSUME NEW o \in Order, CounterOrder(o), order[o].fulfillment = "cancelled"
               PROVE  order'[o] = order[o]
    OBVIOUS
  <2>1. UNCHANGED order \/ \E p \in Order : RowChange(p)
    BY <1>1, StepChangesRow DEF IndInv
  <2>2. QED
    BY <2>1 DEF RowChange, Born, Reconciled, Updated, CounterOrder, Exists
<1>2. QED
  BY <1>1, Inductive, PTL DEF Spec, CancelledIsFinal

-----------------------------------------------------------------------------
(* The refinement of TillLedger. *)

DrawerIsHeld ==
  LedgerDrawer = [o \in Order |-> IF LedgerMoney[o] = "held" THEN 1 ELSE 0]

(* The drawer holds the price of exactly the orders whose money is held. *)
LEMMA DrawerFollowsMoney == IndInv => DrawerIsHeld
<1> SUFFICES ASSUME IndInv, NEW o \in Order
             PROVE  LedgerDrawer[o] = IF LedgerMoney[o] = "held" THEN 1 ELSE 0
  BY DEF LedgerDrawer, DrawerIsHeld
<1>1. order[o].source # "mercadopago_webhook" \/ ~TillOrder(o)
  BY DEF TillOrder, CounterOrder
<1>2. CASE ~TillOrder(o)
  BY <1>2 DEF LedgerDrawer, LedgerMoney
<1>3. CASE TillOrder(o)
  <2>1. /\ Taken(o) <=> order[o].payment \in {"paid", "refunded"}
        /\ order[o].payment = "refunded" <=> (Withdrawn(o) \/ Refunded(o))
        /\ ~(Withdrawn(o) /\ Refunded(o))
    BY <1>1, <1>3 DEF IndInv, RowOK
  <2>2. LedgerDrawer[o] = (IF Taken(o) THEN 1 ELSE 0) - (IF Withdrawn(o) THEN 1 ELSE 0)
                                                      - (IF Refunded(o) THEN 1 ELSE 0)
    BY <1>3 DEF LedgerDrawer
  <2>3. LedgerMoney[o] = "held" <=> order[o].payment = "paid"
    BY <1>3 DEF LedgerMoney
  <2>4. QED
    BY <2>1, <2>2, <2>3
<1>4. QED
  BY <1>2, <1>3

(* A step of one order's money is a step of the ledger. *)
LEMMA LedgerMove ==
  ASSUME NEW o \in Order,
         DrawerIsHeld, DrawerIsHeld',
         \A p \in Order \ {o} : LedgerMoney'[p] = LedgerMoney[p],
         \/ LedgerMoney[o] = "absent" /\ LedgerMoney'[o] \in {"owed", "held"}
         \/ LedgerMoney[o] = "owed" /\ LedgerMoney'[o] \in {"held", "waived"}
         \/ LedgerMoney[o] = "held" /\ LedgerMoney'[o] = "returned"
  PROVE  Ledger!Next
<1> DEFINE from == LedgerMoney[o]
           to == LedgerMoney'[o]
           delta == (IF to = "held" THEN 1 ELSE 0) - (IF from = "held" THEN 1 ELSE 0)
<1>1. LedgerMoney' = [LedgerMoney EXCEPT ![o] = to]
  BY ZenonT(60) DEF LedgerMoney
<1>2. LedgerDrawer' = [LedgerDrawer EXCEPT ![o] = @ + delta]
  BY DEF DrawerIsHeld
<1>3. Ledger!Move(o, from, to, delta)
  BY <1>1, <1>2 DEF Ledger!Move
<1>4. CASE from = "absent" /\ to = "owed"
  BY <1>3, <1>4 DEF Ledger!Next, Ledger!Owe
<1>5. CASE from = "absent" /\ to = "held"
  BY <1>3, <1>5 DEF Ledger!Next, Ledger!Sell
<1>6. CASE from = "owed" /\ to = "held"
  BY <1>3, <1>6 DEF Ledger!Next, Ledger!Collect
<1>7. CASE from = "owed" /\ to = "waived"
  BY <1>3, <1>7 DEF Ledger!Next, Ledger!Waive
<1>8. CASE from = "held" /\ to = "returned"
  BY <1>3, <1>8 DEF Ledger!Next, Ledger!Return
<1>9. QED
  BY <1>4, <1>5, <1>6, <1>7, <1>8

(* The money of a row follows from the row alone. *)
LEMMA MoneyOfRow ==
  ASSUME NEW o \in Order
  PROVE  /\ ~TillOrder(o) => LedgerMoney[o] = "absent"
         /\ TillOrder(o) /\ order[o].payment = "paid" => LedgerMoney[o] = "held"
         /\ TillOrder(o) /\ order[o].payment = "refunded" => LedgerMoney[o] = "returned"
         /\ TillOrder(o) /\ order[o].payment \notin {"paid", "refunded"} =>
              LedgerMoney[o] = IF order[o].fulfillment = "cancelled" THEN "waived" ELSE "owed"
BY DEF LedgerMoney

(* What a change of a row does to its money. *)
LEMMA RowChangeMoves ==
  ASSUME TypeOK, NEW o \in Order, RowOK(o), RowChange(o)
  PROVE  \/ LedgerMoney'[o] = LedgerMoney[o]
         \/ LedgerMoney[o] = "absent" /\ LedgerMoney'[o] \in {"owed", "held"}
         \/ LedgerMoney[o] = "owed" /\ LedgerMoney'[o] \in {"held", "waived"}
         \/ LedgerMoney[o] = "held" /\ LedgerMoney'[o] = "returned"
<1>1. /\ ~TillOrder(o)' => LedgerMoney'[o] = "absent"
      /\ TillOrder(o)' /\ order'[o].payment = "paid" => LedgerMoney'[o] = "held"
      /\ TillOrder(o)' /\ order'[o].payment = "refunded" => LedgerMoney'[o] = "returned"
      /\ TillOrder(o)' /\ order'[o].payment \notin {"paid", "refunded"} =>
           LedgerMoney'[o] = IF order'[o].fulfillment = "cancelled" THEN "waived" ELSE "owed"
  BY DEF LedgerMoney
<1>2. CASE Born(o)
  <2>1. ~TillOrder(o)
    BY <1>2 DEF Born, Exists, TillOrder, CounterOrder
  <2>2. QED
    BY <1>1, <1>2, <2>1, MoneyOfRow DEF Born
<1>3. CASE Reconciled(o)
  <2>1. ~TillOrder(o) /\ ~TillOrder(o)'
    BY <1>3 DEF Reconciled, TillOrder, CounterOrder
  <2>2. QED
    BY <1>1, <2>1, MoneyOfRow
<1>4. CASE Updated(o)
  <2>1. TillOrder(o)' <=> TillOrder(o)
    BY <1>4 DEF Updated, TillOrder, CounterOrder
  <2>2. QED
    BY <1>1, <1>4, <2>1, MoneyOfRow DEF Updated
<1>5. QED
  BY <1>2, <1>3, <1>4 DEF RowChange

(* Every step of Orders is a step of the ledger or changes nothing in it. *)
LEMMA StepImplementsLedger ==
  ASSUME IndInv, IndInv', [Next]_vars
  PROVE  [Ledger!Next]_<<LedgerMoney, LedgerDrawer>>
<1>1. DrawerIsHeld
  BY DrawerFollowsMoney
<1>2. DrawerIsHeld'
  BY DrawerFollowsMoney, PTL
<1>3. ASSUME LedgerMoney' = LedgerMoney PROVE UNCHANGED <<LedgerMoney, LedgerDrawer>>
  BY <1>1, <1>2, <1>3 DEF DrawerIsHeld
<1>4. CASE UNCHANGED order
  <2>1. LedgerMoney' = LedgerMoney
    BY <1>4 DEF LedgerMoney, TillOrder, CounterOrder
  <2>2. QED
    BY <1>3, <2>1
<1>5. ASSUME NEW o \in Order, RowChange(o)
      PROVE  [Ledger!Next]_<<LedgerMoney, LedgerDrawer>>
  <2>1. \A p \in Order \ {o} : LedgerMoney'[p] = LedgerMoney[p]
    BY <1>5 DEF RowChange, LedgerMoney, TillOrder, CounterOrder
  <2>2. CASE LedgerMoney'[o] = LedgerMoney[o]
    <3>1. LedgerMoney' = LedgerMoney
      BY <2>1, <2>2 DEF LedgerMoney
    <3>2. QED
      BY <1>3, <3>1
  <2>3. CASE LedgerMoney'[o] # LedgerMoney[o]
    BY <1>1, <1>2, <1>5, <2>1, <2>3, LedgerMove, RowChangeMoves DEF IndInv
  <2>4. QED
    BY <2>2, <2>3
<1>6. UNCHANGED order \/ \E o \in Order : RowChange(o)
  BY StepChangesRow DEF IndInv
<1>7. QED
  BY <1>4, <1>5, <1>6

(* The rows and the movements, under every interleaving of the services    *)
(* and the expiry job, behave like the atomic ledger of the till.          *)
THEOREM TillRefinement == Spec => ImplementsLedger
<1>1. Init => Ledger!Init
  BY DEF Init, Ledger!Init, LedgerMoney, LedgerDrawer, TillOrder, CounterOrder, NoRow
<1>2. IndInv /\ IndInv' /\ [Next]_vars => [Ledger!Next]_<<LedgerMoney, LedgerDrawer>>
  BY StepImplementsLedger
<1>3. QED
  BY <1>1, <1>2, Inductive, PTL DEF Spec, ImplementsLedger, Ledger!Spec

=============================================================================
