------------------------------- MODULE Orders -------------------------------
(***************************************************************************)
(* The life of an order after its cart became a row of tenant_orders: the  *)
(* kitchen's transitions, collecting and refunding cash at the counter,    *)
(* the customer's own cancellation and the cron job that expires unpaid    *)
(* orders, all racing on the same row.                                     *)
(*                                                                         *)
(* Every service runs in one READ COMMITTED transaction: it reads the row  *)
(* without a lock, decides on what it read, and then updates the row       *)
(* WHERE version = the version it expects.  A request is therefore two     *)
(* steps here.  The read step takes the snapshot into txn[w]; the commit   *)
(* step is the guarded UPDATE with everything the transaction writes after *)
(* it (once the UPDATE holds the row lock no other request can interfere,  *)
(* so those writes and the COMMIT are one step).  A stale version, a       *)
(* duplicate movement key, an error or a crash is Rollback.  Requests that *)
(* end in an early return change nothing and have no action.               *)
(*                                                                         *)
(* Idempotency records are claimed inside the same transaction, so they    *)
(* only remove behaviours (a repeated key waits, then replays); requests   *)
(* here carry distinct keys, the worst case.                               *)
(***************************************************************************)
EXTENDS OrderRules, Integers, FiniteSets

CONSTANTS
  Order,              \* ids of the orders that may be created
  Worker,             \* transactions that can be open at the same time
  Cron,               \* the workers that run the expiry job
  BatchSize,          \* candidates one expiry scan takes (50 in the code)
  PrintingEnabled,    \* the tenant's printing entitlement
  OwnerAlertEnabled   \* Express preset with an owner phone configured

ASSUME CronAssumption      == Cron \subseteq Worker
ASSUME BatchSizeAssumption == BatchSize \in Nat \ {0}
ASSUME SettingsAssumption  == PrintingEnabled \in BOOLEAN /\ OwnerAlertEnabled \in BOOLEAN

VARIABLES
  order,       \* tenant_orders
  movements,   \* cash_register_movements, by idempotency key
  tickets,     \* orders with a kitchen print job
  documents,   \* orders with an internal billing document
  events,      \* number of order_events of each order
  announced,   \* payment status in the order's newest outbox event
  readyNotices,\* number of order.whatsapp_ready outbox events
  ownerAlerts, \* orders with an order.whatsapp_owner_cash_pending event
  redemption,  \* state of the order's discount_redemptions row
  due,         \* orders whose payment_expires_at has passed
  txn,         \* what the transaction open in each worker has read
  batch        \* candidates a cron invocation still has to visit

rowVars  == <<order, movements, tickets, documents, events, announced,
              readyNotices, ownerAlerts, redemption>>
vars     == <<rowVars, due, txn, batch>>

MovementKey == {"cash_deposit", "cash_withdrawal", "cash_refund"}

Idle == [op |-> "idle"]

Operation == {"transition", "collect", "refund", "cancelUnpaid", "expire"}

Request == [op: Operation, order: Order, seen: OrderRow,
            next: FulfillmentStatus, expected: Nat]

Exists(o) == order[o].source # "none"

(* A request handler with no transaction open. *)
Free(w) == w \notin Cron /\ txn[w] = Idle

\* The tables, the requests in flight and the payment windows keep their types.
TypeOK ==
  /\ order \in [Order -> OrderRow]
  /\ movements \subseteq MovementKey \X Order
  /\ tickets \subseteq Order
  /\ documents \subseteq Order
  /\ events \in [Order -> Nat]
  /\ announced \in [Order -> PaymentStatus \cup {"none"}]
  /\ readyNotices \in [Order -> Nat]
  /\ ownerAlerts \subseteq Order
  /\ redemption \in [Order -> {"none", "applied", "order_cancelled"}]
  /\ due \subseteq Order
  /\ txn \in [Worker -> Request \cup {Idle}]
  /\ batch \in [Worker -> SUBSET Order]

Init ==
  /\ order = [o \in Order |-> NoRow]
  /\ movements = {}
  /\ tickets = {}
  /\ documents = {}
  /\ events = [o \in Order |-> 0]
  /\ announced = [o \in Order |-> "none"]
  /\ readyNotices = [o \in Order |-> 0]
  /\ ownerAlerts = {}
  /\ redemption = [o \in Order |-> "none"]
  /\ due = {}
  /\ txn = [w \in Worker |-> Idle]
  /\ batch = [w \in Worker |-> {}]

-----------------------------------------------------------------------------
(* Creation.  The race on the cart is the subject of Checkout; here each   *)
(* entry point inserts one fresh row with what the service adds to it.     *)

(* appendOutboxEvent with the order's payment status in its payload.       *)
Announce(o, status) == announced' = [announced EXCEPT ![o] = status]

(* createFromCartSnapshot: the row, its redemption and order.created.      *)
InsertOrder(o, row) ==
  /\ ~Exists(o)
  /\ order' = [order EXCEPT ![o] = row]
  /\ redemption' = [redemption EXCEPT ![o] = IF row.coupon THEN "applied" ELSE "none"]
  /\ events' = [events EXCEPT ![o] = 1]

NewRow(source, tender, payment, coupon, optIn) ==
  [source |-> source, tender |-> tender, fulfillment |-> "approved",
   payment |-> payment, version |-> 1, coupon |-> coupon, optIn |-> optIn]

(* CreateCashOrderService.create: pending, no outbox event, no ticket.     *)
CreateCashOrder(o, coupon, optIn) ==
  /\ InsertOrder(o, NewRow("storefront_cash", "cash", "pending", coupon, optIn))
  /\ UNCHANGED <<movements, tickets, documents, announced, readyNotices,
                 ownerAlerts, due, txn, batch>>

(* createDirect and createDirectFromItems: the counter sells over the till.*)
CreateDirect(o, tender, payment, coupon) ==
  LET row == NewRow("admin_direct", tender, payment, coupon, FALSE)
  IN  /\ payment \in {"paid", "pending", "verification_required"}
      /\ InsertOrder(o, row)
      /\ movements' = IF tender = "cash" /\ payment = "paid"
                      THEN movements \cup {<<"cash_deposit", o>>} ELSE movements
      /\ Announce(o, payment)
      /\ tickets' = IF TicketAllowed(row, PrintingEnabled)
                    THEN tickets \cup {o} ELSE tickets
      /\ documents' = IF payment = "paid" THEN documents \cup {o} ELSE documents
      /\ ownerAlerts' = IF OwnerAlertEnabled /\ tender = "cash" /\ payment = "pending"
                        THEN ownerAlerts \cup {o} ELSE ownerAlerts
      /\ UNCHANGED <<readyNotices, due, txn, batch>>

(* receiveMercadoPagoWebhook: no tender is passed, so the row gets the     *)
(* default "cash" although Mercado Pago collected the money, and the       *)
(* order.created outbox event carries no payment status.                   *)
CreatePaidByWebhook(o, coupon, optIn) ==
  LET row == NewRow("mercadopago_webhook", "cash", "paid", coupon, optIn)
  IN  /\ InsertOrder(o, row)
      /\ tickets' = IF TicketAllowed(row, PrintingEnabled)
                    THEN tickets \cup {o} ELSE tickets
      /\ UNCHANGED <<movements, documents, announced, readyNotices, ownerAlerts,
                     due, txn, batch>>

(* reconcilePaymentAttempt without an order: it announces the order and a  *)
(* print.intent.created event, but enqueues no print job.                  *)
CreatePaidByReconciliation(o, coupon, optIn) ==
  /\ InsertOrder(o, NewRow("mercadopago_webhook", "cash", "paid", coupon, optIn))
  /\ Announce(o, "paid")
  /\ UNCHANGED <<movements, tickets, documents, readyNotices, ownerAlerts,
                 due, txn, batch>>

(* reconcilePaymentAttempt with an order that is not paid: the update is   *)
(* not guarded by a version, writes no order event and leaves the          *)
(* fulfilment alone; the outbox gets an order.paid event.  Which payment   *)
(* attempts lead here is the subject of Checkout; here it may happen at    *)
(* any time.                                                               *)
ReconcileExisting(o) ==
  /\ order[o].source = "mercadopago_webhook"
  /\ order[o].payment # "paid"
  /\ order' = [order EXCEPT ![o].payment = "paid", ![o].version = @ + 1]
  /\ Announce(o, "paid")
  /\ UNCHANGED <<movements, tickets, documents, events, readyNotices,
                 ownerAlerts, redemption, due, txn, batch>>

-----------------------------------------------------------------------------
(* Requests.                                                               *)

BeginRequest(w, op, o, next, expected) ==
  txn' = [txn EXCEPT ![w] = [op |-> op, order |-> o, seen |-> order[o],
                             next |-> next, expected |-> expected]]

\* Slip: the UPDATE is not guarded by the version.
UpdateRowUnversioned(o, fulfillment, payment, expected) ==
  /\ order' = [order EXCEPT ![o].fulfillment = fulfillment,
                            ![o].payment = payment,
                            ![o].version = @ + 1]
  /\ events' = [events EXCEPT ![o] = @ + 1]

\* Slip: the update leaves the version alone.
UpdateRowSameVersion(o, fulfillment, payment, expected) ==
  /\ order[o].version = expected
  /\ order' = [order EXCEPT ![o].fulfillment = fulfillment, ![o].payment = payment]
  /\ events' = [events EXCEPT ![o] = @ + 1]

(* An update that a version guard lets through, with the order event.      *)
UpdateRow(o, fulfillment, payment, expected) ==
  /\ order[o].version = expected
  /\ order' = [order EXCEPT ![o].fulfillment = fulfillment,
                            ![o].payment = payment,
                            ![o].version = @ + 1]
  /\ events' = [events EXCEPT ![o] = @ + 1]

\* Slip: a status that the column does not have.
CancelRedemptionAs(o, seen) ==
  redemption' = IF seen.coupon THEN [redemption EXCEPT ![o] = "cancelled"]
                ELSE redemption

CancelRedemption(o, seen) ==
  redemption' = IF seen.coupon THEN [redemption EXCEPT ![o] = "order_cancelled"]
                ELSE redemption

Done(w) == txn' = [txn EXCEPT ![w] = Idle]

(* PATCH order: expected is the version the operator's screen shows, which *)
(* may be any version the order has had.                                   *)
BeginTransition(w, o, next, expected) ==
  /\ Free(w) /\ Exists(o)
  /\ expected \in 1 .. order[o].version
  /\ TransitionAllowed(order[o], next)
  /\ BeginRequest(w, "transition", o, next, expected)
  /\ UNCHANGED <<rowVars, due, batch>>

CommitTransition(w) ==
  LET t == txn[w]
      o == t.order
      refund == t.next = "cancelled" /\ isManualCash(t.seen)
  IN  /\ t.op = "transition"
      /\ UpdateRow(o, t.next, IF refund THEN "refunded" ELSE order[o].payment, t.expected)
      /\ IF refund
         THEN /\ <<"cash_withdrawal", o>> \notin movements
              /\ movements' = movements \cup {<<"cash_withdrawal", o>>}
         ELSE movements' = movements
      /\ IF t.next = "cancelled" THEN CancelRedemption(o, t.seen)
                                 ELSE redemption' = redemption
      /\ Announce(o, order'[o].payment)
      /\ readyNotices' = IF ReadyNoticeDue(order'[o], t.next) /\ readyNotices[o] = 0
                         THEN [readyNotices EXCEPT ![o] = @ + 1] ELSE readyNotices
      /\ Done(w)
      /\ UNCHANGED <<tickets, documents, ownerAlerts, due, batch>>

(* POST collect-cash.                                                      *)
BeginCollect(w, o) ==
  /\ Free(w) /\ Exists(o)
  /\ CollectAllowed(order[o], o \in due)
  /\ BeginRequest(w, "collect", o, order[o].fulfillment, order[o].version)
  /\ UNCHANGED <<rowVars, due, batch>>

CommitCollect(w) ==
  LET t == txn[w]
      o == t.order
  IN  /\ t.op = "collect"
      /\ UpdateRow(o, order[o].fulfillment, "paid", t.expected)
      /\ <<"cash_deposit", o>> \notin movements
      /\ movements' = movements \cup {<<"cash_deposit", o>>}
      /\ tickets' = IF TicketAllowed(order'[o], PrintingEnabled)
                    THEN tickets \cup {o} ELSE tickets
      /\ Announce(o, "paid")
      /\ Done(w)
      /\ UNCHANGED <<documents, readyNotices, ownerAlerts, redemption, due, batch>>

(* POST refund-cash.                                                       *)
BeginRefund(w, o) ==
  /\ Free(w) /\ Exists(o)
  /\ RefundAllowed(order[o])
  /\ BeginRequest(w, "refund", o, "cancelled", order[o].version)
  /\ UNCHANGED <<rowVars, due, batch>>

CommitRefund(w) ==
  LET t == txn[w]
      o == t.order
  IN  /\ t.op = "refund"
      /\ UpdateRow(o, "cancelled", "refunded", t.expected)
      /\ <<"cash_refund", o>> \notin movements
      /\ movements' = movements \cup {<<"cash_refund", o>>}
      /\ CancelRedemption(o, t.seen)
      /\ Announce(o, "refunded")
      /\ Done(w)
      /\ UNCHANGED <<tickets, documents, readyNotices, ownerAlerts, due, batch>>

(* POST cancel-unpaid, by the customer: the payment stays pending.         *)
BeginCancelUnpaid(w, o) ==
  /\ Free(w) /\ Exists(o)
  /\ CancelUnpaidAllowed(order[o])
  /\ BeginRequest(w, "cancelUnpaid", o, "cancelled", order[o].version)
  /\ UNCHANGED <<rowVars, due, batch>>

CommitCancelUnpaid(w) ==
  LET t == txn[w]
      o == t.order
  IN  /\ t.op = "cancelUnpaid"
      /\ UpdateRow(o, "cancelled", order[o].payment, t.expected)
      /\ CancelRedemption(o, t.seen)
      /\ Announce(o, t.seen.payment)
      /\ Done(w)
      /\ UNCHANGED <<movements, tickets, documents, readyNotices, ownerAlerts,
                     due, batch>>

-----------------------------------------------------------------------------
(* The expiry job: one scan, then one transaction per candidate.           *)

\* Slip: the comparison with payment_expires_at is the wrong way round.
ExpireCandidatesEarly == {o \in Order : ExpireEligible(order[o], o \notin due)}

ExpireCandidates == {o \in Order : ExpireEligible(order[o], o \in due)}

(* ORDER BY payment_expires_at LIMIT BatchSize: any full batch.            *)
ExpireScan(w) ==
  /\ w \in Cron /\ txn[w] = Idle /\ batch[w] = {}
  /\ ExpireCandidates # {}
  /\ \E found \in SUBSET ExpireCandidates :
       /\ \/ found = ExpireCandidates /\ Cardinality(found) <= BatchSize
          \/ Cardinality(found) = BatchSize
       /\ batch' = [batch EXCEPT ![w] = found]
  /\ UNCHANGED <<rowVars, due, txn>>

(* The re-read; a candidate that no longer qualifies is passed over.       *)
ExpireRead(w, o) ==
  /\ txn[w] = Idle
  /\ o \in batch[w]
  /\ IF ExpireEligible(order[o], o \in due)
     THEN /\ BeginRequest(w, "expire", o, "cancelled", order[o].version)
          /\ batch' = batch
     ELSE /\ batch' = [batch EXCEPT ![w] = @ \ {o}]
          /\ txn' = txn
  /\ UNCHANGED <<rowVars, due>>

(* The outbox payload carries the payment status that was read.            *)
ExpireCommit(w) ==
  LET t == txn[w]
      o == t.order
  IN  /\ t.op = "expire"
      /\ UpdateRow(o, "cancelled", "failed", t.expected)
      /\ CancelRedemption(o, t.seen)
      /\ Announce(o, t.seen.payment)
      /\ Done(w)
      /\ batch' = [batch EXCEPT ![w] = @ \ {o}]
      /\ UNCHANGED <<movements, tickets, documents, readyNotices, ownerAlerts, due>>

(* The update matched no row: the order changed since the re-read.         *)
ExpireStale(w) ==
  /\ txn[w].op = "expire"
  /\ order[txn[w].order].version # txn[w].expected
  /\ Done(w)
  /\ batch' = [batch EXCEPT ![w] = @ \ {txn[w].order}]
  /\ UNCHANGED <<rowVars, due>>

-----------------------------------------------------------------------------
(* A stale version, a duplicate key, an error or a lost connection; the    *)
(* job catches it and goes on to its next candidate.                       *)
Rollback(w) ==
  /\ txn[w] # Idle
  /\ Done(w)
  /\ batch' = [batch EXCEPT ![w] = @ \ {txn[w].order}]
  /\ UNCHANGED <<rowVars, due>>

(* The cron process dies between two candidates.                           *)
JobCrash(w) ==
  /\ txn[w] = Idle /\ batch[w] # {}
  /\ batch' = [batch EXCEPT ![w] = {}]
  /\ UNCHANGED <<rowVars, due, txn>>

(* payment_expires_at passes; only storefront orders have one.             *)
PaymentWindowCloses(o) ==
  /\ order[o].source = "storefront_cash"
  /\ o \notin due
  /\ due' = due \cup {o}
  /\ UNCHANGED <<rowVars, txn, batch>>

Create ==
  \E o \in Order, coupon \in BOOLEAN :
    \/ \E optIn \in BOOLEAN : CreateCashOrder(o, coupon, optIn)
    \/ \E tender \in Tender, payment \in PaymentStatus :
         CreateDirect(o, tender, payment, coupon)
    \/ \E optIn \in BOOLEAN : CreatePaidByWebhook(o, coupon, optIn)
    \/ \E optIn \in BOOLEAN : CreatePaidByReconciliation(o, coupon, optIn)

Begin(w) ==
  \E o \in Order :
    \/ \E next \in FulfillmentStatus, v \in 1 .. order[o].version :
         BeginTransition(w, o, next, v)
    \/ BeginCollect(w, o)
    \/ BeginRefund(w, o)
    \/ BeginCancelUnpaid(w, o)
    \/ ExpireRead(w, o)

Commit(w) ==
  \/ CommitTransition(w)
  \/ CommitCollect(w)
  \/ CommitRefund(w)
  \/ CommitCancelUnpaid(w)
  \/ ExpireCommit(w)
  \/ ExpireStale(w)

Next ==
  \/ Create
  \/ \E w \in Worker : Begin(w) \/ Commit(w) \/ ExpireScan(w) \/ Rollback(w) \/ JobCrash(w)
  \/ \E o \in Order : PaymentWindowCloses(o) \/ ReconcileExisting(o)

Spec == Init /\ [][Next]_vars

(* The scheduler keeps calling the expiry endpoint and the job's           *)
(* transactions do not fail for ever; nothing is assumed of the requests.  *)
FairSpec ==
  /\ Spec
  /\ \A w \in Cron :
       /\ WF_vars(ExpireScan(w))
       /\ SF_vars(\E o \in Order : ExpireRead(w, o))
       /\ SF_vars(ExpireCommit(w))
       /\ WF_vars(ExpireStale(w))

-----------------------------------------------------------------------------
(* Properties.                                                             *)

Taken(o)     == <<"cash_deposit", o>> \in movements
Withdrawn(o) == <<"cash_withdrawal", o>> \in movements
Refunded(o)  == <<"cash_refund", o>> \in movements

\* Sold at the counter or ordered in the storefront to pay at the counter.
CounterOrder(o) == order[o].source \in {"admin_direct", "storefront_cash"}

\* An order whose money goes through the cash drawer.
TillOrder(o) == CounterOrder(o) /\ order[o].tender = "cash"

\* What the service decided on, before its update.
Decided(t) ==
  /\ t.op = "transition"   => TransitionAllowed(t.seen, t.next)
  /\ t.op = "collect"      => CollectAllowed(t.seen, FALSE)
  /\ t.op = "refund"       => RefundAllowed(t.seen)
  /\ t.op = "cancelUnpaid" => CancelUnpaidAllowed(t.seen)
  /\ t.op = "expire"       => ExpireEligible(t.seen, TRUE)

\* While the row has the version it was read at, it is what was read.
Fresh(t) ==
  /\ Exists(t.order)
  /\ t.expected <= t.seen.version
  /\ t.seen.version <= order[t.order].version
  /\ t.seen.version = order[t.order].version => t.seen = order[t.order]
  /\ Decided(t)

(* The optimistic lock works: while the version a transaction expects is   *)
(* the row's version, the row is exactly what the transaction read, so its *)
(* guards still hold when its UPDATE goes through.                         *)
SnapshotsFresh == \A w \in Worker : txn[w] # Idle => Fresh(txn[w])

(* The drawer agrees with the order, whatever races: a till order that is  *)
(* paid has its sale_deposit and no withdrawal; one that is refunded has   *)
(* the deposit and exactly one withdrawal although refund-cash and the     *)
(* manual cancellation use different idempotency keys; any other order     *)
(* that is not Mercado Pago's has moved no cash at all.                    *)
DrawerMatchesOrder ==
  \A o \in Order : order[o].source # "mercadopago_webhook" =>
    /\ Taken(o) <=> TillOrder(o) /\ order[o].payment \in {"paid", "refunded"}
    /\ order[o].payment = "refunded" <=> (Withdrawn(o) \/ Refunded(o))
    /\ ~(Withdrawn(o) /\ Refunded(o))

(* The kitchen gate (AD-3): a till order has its ticket exactly from the   *)
(* moment its cash entered the drawer.                                     *)
KitchenGate ==
  PrintingEnabled => \A o \in Order : TillOrder(o) => (o \in tickets <=> Taken(o))

(* No cash order is prepared, ready or delivered without being paid ("No   *)
(* se puede avanzar el pedido hasta confirmar su cobro en caja").          *)
NoUnpaidProgress ==
  \A o \in Order :
    order[o].tender = "cash" /\ order[o].fulfillment \in {"preparing", "ready", "delivered"}
      => order[o].payment = "paid"

(* A cancelled till order does not keep the customer's money: neither the  *)
(* expiry, the customer nor a transition cancels an order that was paid in *)
(* the meantime.                                                           *)
NoPaidCancelled ==
  \A o \in Order :
    TillOrder(o) /\ order[o].fulfillment = "cancelled" => order[o].payment # "paid"

(* A confirmed collection prevails: once paid, an order's payment can only *)
(* become refunded, in a step that also cancels it.                        *)
PaidPrevails ==
  [][\A o \in Order : order[o].payment = "paid" =>
       \/ order'[o].payment = "paid"
       \/ order'[o].payment = "refunded" /\ order'[o].fulfillment = "cancelled"]_vars

(* Nothing a late transaction does changes a cancelled counter order.      *)
CancelledIsFinal ==
  [][\A o \in Order :
       CounterOrder(o) /\ order[o].fulfillment = "cancelled" => order'[o] = order[o]]_vars

(* Every committed version of a counter order has exactly one order event, *)
(* so a screen that follows the event stream has seen every version.       *)
EventPerVersion ==
  \A o \in Order : CounterOrder(o) => events[o] = order[o].version

(* The coupon of an order is given back exactly when the order is          *)
(* cancelled, whichever of the four ways of cancelling won.                *)
RedemptionFollowsOrder ==
  \A o \in Order :
    order[o].coupon =>
      (redemption[o] = "order_cancelled" <=> order[o].fulfillment = "cancelled")

(* Every unpaid storefront order whose payment window closed is settled:   *)
(* the job cancels it unless a collection that began in time won.          *)
ExpiredOrdersSettle ==
  \A o \in Order :
    ExpireEligible(order[o], o \in due) ~> ~ExpireEligible(order[o], o \in due)

(* What the counter relies on at any moment: the kitchen works only on     *)
(* paid orders, no cancelled order keeps its money or its coupon, and no   *)
(* version of an order went by without its event.                          *)
CounterSafe ==
  KitchenGate /\ NoUnpaidProgress /\ NoPaidCancelled /\ EventPerVersion
  /\ RedemptionFollowsOrder

(* The refinement of TillLedger: what a row says about the order's price   *)
(* and what its movements say about the drawer.  Orders that are not paid  *)
(* over the till never enter the ledger.                                   *)
LedgerMoney ==
  [o \in Order |->
     IF ~TillOrder(o) THEN "absent"
     ELSE IF order[o].payment = "paid" THEN "held"
     ELSE IF order[o].payment = "refunded" THEN "returned"
     ELSE IF order[o].fulfillment = "cancelled" THEN "waived"
     ELSE "owed"]

LedgerDrawer ==
  [o \in Order |->
     IF TillOrder(o)
     THEN (IF Taken(o) THEN 1 ELSE 0) - (IF Withdrawn(o) THEN 1 ELSE 0)
                                      - (IF Refunded(o) THEN 1 ELSE 0)
     ELSE 0]

Ledger == INSTANCE TillLedger WITH money <- LedgerMoney, drawer <- LedgerDrawer

(* However the requests and the job interleave, the rows and the movements *)
(* behave like the atomic ledger.                                          *)
ImplementsLedger == Ledger!Spec
=============================================================================
