------------------------------ MODULE Checkout ------------------------------
(***************************************************************************)
(* From a cart to an order: Mercado Pago sessions of the storefront and    *)
(* the kiosk, the provider's notifications (delivered at least once, in    *)
(* any order), the reconciliation job, the kiosk's cancellation and cash   *)
(* orders, all racing on payment_attempts and carts.                       *)
(*                                                                         *)
(* A transaction is split where another one can come between: what it      *)
(* reads before it holds a lock ("read"), the provider call, the UPDATE    *)
(* of payment_attempts that locks the row until the end ("locked"), and    *)
(* the COMMIT.  Writes become visible at the COMMIT, so they are made      *)
(* there.  The provider is external: its payments change by themselves and *)
(* its answers are what the lookup returns at that moment.                 *)
(***************************************************************************)
EXTENDS Naturals, FiniteSets

CONSTANTS
  Cart,        \* carts with something payable in them
  KioskCart,   \* the carts that a kiosk session creates for itself
  Attempt,     \* ids of payment_attempts
  Payment,     \* ids of the provider's payments
  Worker,      \* transactions open at the same time
  MaxCash      \* bound: cash-order requests per cart

ASSUME KioskCartAssumption == KioskCart \subseteq Cart
ASSUME MaxCashAssumption   == MaxCash \in Nat
ASSUME WorkerAssumption    == IsFiniteSet(Worker)

VARIABLES
  cart,        \* status of carts
  cashOrders,  \* tenant_orders made from a cart by cash-order requests
  attempt,     \* payment_attempts
  mpOrder,     \* payment_status of the order with key payment-attempt:<id>
  payment,     \* the provider's payments
  notices,     \* notifications the provider keeps delivering
  persisted,   \* webhook_events
  txn          \* the open transactions

vars == <<cart, cashOrders, attempt, mpOrder, payment, notices, persisted, txn>>

AttemptStatus == {"initiated", "processing", "pending", "approved", "rejected",
                  "failed", "verification_required"}

\* payment.status at the provider; "refunded" stands for the statuses that the
\* code has no case for.
ProviderStatus == {"pending", "approved", "rejected", "refunded"}

NoPayment == "none"
NoCart    == "none"
Absent == [status |-> "absent", cart |-> NoCart, payId |-> NoPayment, payable |-> FALSE]
Unpaid == [status |-> "absent", attempt |-> "none"]
Idle   == [op |-> "idle", step |-> "idle"]

\* The absence of a cart or a payment is not one.
ASSUME NullsAssumption == NoCart \notin Cart /\ NoPayment \notin Payment

Active == {"initiated", "processing", "pending", "verification_required"}

Exists(a) == attempt[a].status # "absent"

AttemptsOf(c) == {a \in Attempt : attempt[a].cart = c}

\* The row lock that the UPDATE of payment_attempts takes.
Locked(a)  == \E w \in Worker : txn[w].step = "locked" /\ txn[w].attempt = a
\* The unique key that an uncommitted webhook event holds.
Claimed(e) == \E w \in Worker : txn[w].op = "webhook" /\ txn[w].step = "locked"
                                /\ txn[w].event = e

-----------------------------------------------------------------------------
(* Rules of the payment services. *)

paymentStatus(s) ==
  CASE s = "approved" -> "approved"
    [] s = "rejected" -> "rejected"
    [] s = "pending"  -> "pending"
    [] OTHER          -> "failed"

priority(s) ==
  CASE s = "approved"                  -> 4
    [] s \in {"pending", "processing"} -> 3
    [] s = "initiated"                 -> 2
    [] OTHER                           -> 1

\* Slip: a notification is never out of order.
NeverOutOfOrder(status, seen) == FALSE

\* Slip: an attempt that was settled once is never opened again.
SettledIsFinal(status, seen) == seen \in {"approved", "rejected", "failed"}

outOfOrder(status, seen) == priority(status) < priority(seen)

\* findActiveByCartId
ActiveAttempt(c) == \E a \in AttemptsOf(c) : attempt[a].status \in Active

(* What the reconciliation job selects.                                    *)
Uncertain(a) ==
  /\ attempt[a].status \in {"verification_required", "pending", "processing"}
  /\ attempt[a].payId # NoPayment

(* The attempt's next status after the provider answered s.                *)
ReconciledStatus(s) ==
  CASE s = "approved" -> "approved"
    [] s = "rejected" -> "rejected"
    [] OTHER          -> "verification_required"

-----------------------------------------------------------------------------
Init ==
  /\ cart = [c \in Cart |-> "open"]
  /\ cashOrders = [c \in Cart |-> 0]
  /\ attempt = [a \in Attempt |-> Absent]
  /\ mpOrder = [a \in Attempt |-> "none"]
  /\ payment = [p \in Payment |-> Unpaid]
  /\ notices = {}
  /\ persisted = {}
  /\ txn = [w \in Worker |-> Idle]

Done(w) == txn' = [txn EXCEPT ![w] = Idle]

-----------------------------------------------------------------------------
(* PaymentSessionService.create: prepare reads the cart and looks for an   *)
(* active attempt; the attempt is inserted and committed before the        *)
(* provider is called.                                                     *)
SessionRead(w, c) ==
  /\ txn[w] = Idle /\ c \notin KioskCart
  /\ cart[c] = "open"
  /\ ~ActiveAttempt(c)
  /\ txn' = [txn EXCEPT ![w] = [op |-> "session", step |-> "read", cart |-> c]]
  /\ UNCHANGED <<cart, cashOrders, attempt, mpOrder, payment, notices, persisted>>

(* createPaymentAttempt: the row is new, or it is the row of the same key and *)
(* cart, which is used again as it is (when a key may be claimed again is the *)
(* subject of PaymentSession).                                                *)
SessionInsert(w, a) ==
  /\ txn[w].op = "session" /\ txn[w].step = "read"
  /\ attempt[a].cart \in {NoCart, txn[w].cart}
  /\ attempt' = IF Exists(a) THEN attempt
                ELSE [attempt EXCEPT ![a] = [status |-> "initiated", cart |-> txn[w].cart,
                                             payId |-> NoPayment, payable |-> FALSE]]
  /\ txn' = [txn EXCEPT ![w] = [op |-> "session", step |-> "call", attempt |-> a]]
  /\ UNCHANGED <<cart, cashOrders, mpOrder, payment, notices, persisted>>

(* The provider made the preference; attachPreference does not look at the *)
(* attempt's status, whatever became of a row that is used again.          *)
SessionAttach(w) ==
  /\ txn[w].op = "session" /\ txn[w].step = "call"
  /\ ~Locked(txn[w].attempt)
  /\ attempt' = [attempt EXCEPT ![txn[w].attempt].status = "processing",
                                ![txn[w].attempt].payable = TRUE]
  /\ Done(w)
  /\ UNCHANGED <<cart, cashOrders, mpOrder, payment, notices, persisted>>

(* KioskPaymentService.createSession: cart, attempt, provider call and     *)
(* preference in one transaction.                                          *)
KioskAttempt(c) ==
  [status |-> "processing", cart |-> c, payId |-> NoPayment, payable |-> TRUE]

KioskSession(a, c) ==
  /\ c \in KioskCart /\ AttemptsOf(c) = {}
  /\ ~Exists(a)
  /\ attempt' = [attempt EXCEPT ![a] = KioskAttempt(c)]
  /\ UNCHANGED <<cart, cashOrders, mpOrder, payment, notices, persisted, txn>>

KioskCancelRead(w, a) ==
  /\ txn[w] = Idle /\ Exists(a) /\ attempt[a].cart \in KioskCart
  /\ attempt[a].status \in {"initiated", "processing", "pending"}
  /\ txn' = [txn EXCEPT ![w] = [op |-> "kioskCancel", step |-> "read", attempt |-> a,
                                seen |-> attempt[a].status]]
  /\ UNCHANGED <<cart, cashOrders, attempt, mpOrder, payment, notices, persisted>>

KioskCancelCommit(w) ==
  /\ txn[w].op = "kioskCancel"
  /\ ~Locked(txn[w].attempt)
  /\ attempt' = [attempt EXCEPT ![txn[w].attempt].status = "failed"]
  /\ Done(w)
  /\ UNCHANGED <<cart, cashOrders, mpOrder, payment, notices, persisted>>

-----------------------------------------------------------------------------
(* CreateCashOrderService.create: the cart is read and checked without a   *)
(* lock, the order is inserted under a key of its own.                     *)
CashRead(w, c) ==
  /\ txn[w] = Idle /\ c \notin KioskCart
  /\ cart[c] = "open" /\ cashOrders[c] < MaxCash
  /\ txn' = [txn EXCEPT ![w] = [op |-> "cash", step |-> "read", cart |-> c]]
  /\ UNCHANGED <<cart, cashOrders, attempt, mpOrder, payment, notices, persisted>>

CashCommit(w) ==
  /\ txn[w].op = "cash"
  /\ cashOrders' = [cashOrders EXCEPT ![txn[w].cart] = @ + 1]
  /\ cart' = [cart EXCEPT ![txn[w].cart] = "converted"]
  /\ Done(w)
  /\ UNCHANGED <<attempt, mpOrder, payment, notices, persisted>>

-----------------------------------------------------------------------------
(* The provider. *)

Notify(p, s) ==
  /\ payment' = [payment EXCEPT ![p].status = s]
  /\ notices' = notices \cup {<<p, s>>}

(* The customer pays a preference that has no payment open or approved.    *)
Pay(p, a, s) ==
  /\ payment[p] = Unpaid
  /\ attempt[a].payable
  /\ \A q \in Payment : payment[q].attempt = a => payment[q].status = "rejected"
  /\ s \in {"pending", "approved", "rejected"}
  /\ payment' = [payment EXCEPT ![p] = [status |-> s, attempt |-> a]]
  /\ notices' = notices \cup {<<p, s>>}
  /\ UNCHANGED <<cart, cashOrders, attempt, mpOrder, persisted, txn>>

ProviderSettles(p, s) ==
  /\ \/ payment[p].status = "pending" /\ s \in {"approved", "rejected"}
     \/ payment[p].status = "approved" /\ s = "refunded"
  /\ Notify(p, s)
  /\ UNCHANGED <<cart, cashOrders, attempt, mpOrder, persisted, txn>>

-----------------------------------------------------------------------------
(* receiveMercadoPagoWebhook: the lookup comes before the transaction.     *)
WebhookFetch(w, e) ==
  /\ txn[w] = Idle /\ e \in notices
  /\ txn' = [txn EXCEPT ![w] = [op |-> "webhook", step |-> "fetched", event |-> e,
                                attempt |-> payment[e[1]].attempt,
                                status |-> paymentStatus(payment[e[1]].status)]]
  /\ UNCHANGED <<cart, cashOrders, attempt, mpOrder, payment, notices, persisted>>

WebhookRead(w, e) ==
  /\ txn[w].op = "webhook" /\ txn[w].step = "fetched" /\ txn[w].event = e
  /\ txn' = [txn EXCEPT ![w] = [op |-> "webhook", step |-> "read", event |-> e,
                                attempt |-> txn[w].attempt, status |-> txn[w].status,
                                seen |-> attempt[txn[w].attempt].status]]
  /\ UNCHANGED <<cart, cashOrders, attempt, mpOrder, payment, notices, persisted>>

(* persistEvent found the event: a duplicate changes nothing.              *)
WebhookDuplicate(w, e) ==
  /\ txn[w].op = "webhook" /\ txn[w].step = "read" /\ txn[w].event = e
  /\ e \in persisted
  /\ Done(w)
  /\ UNCHANGED <<cart, cashOrders, attempt, mpOrder, payment, notices, persisted>>

(* An out-of-order notification is persisted and otherwise ignored.        *)
WebhookIgnore(w, e) ==
  /\ txn[w].op = "webhook" /\ txn[w].step = "read" /\ txn[w].event = e
  /\ e \notin persisted /\ ~Claimed(e)
  /\ outOfOrder(txn[w].status, txn[w].seen)
  /\ persisted' = persisted \cup {e}
  /\ Done(w)
  /\ UNCHANGED <<cart, cashOrders, attempt, mpOrder, payment, notices>>

(* The UPDATE holds the attempt's row lock; after it the cart is read      *)
(* (loadCart and the check of createFromCartSnapshot).                     *)
WebhookWrite(w, e) ==
  LET t == txn[w]
  IN  /\ t.op = "webhook" /\ t.step = "read" /\ t.event = e
      /\ e \notin persisted /\ ~Claimed(e)
      /\ ~outOfOrder(t.status, t.seen)
      /\ ~Locked(t.attempt)
      /\ txn' = [txn EXCEPT ![w] = [op |-> "webhook", step |-> "locked", event |-> e,
                                    attempt |-> t.attempt, status |-> t.status,
                                    seen |-> t.seen,
                                    open |-> cart[attempt[t.attempt].cart] = "open"]]
      /\ UNCHANGED <<cart, cashOrders, attempt, mpOrder, payment, notices, persisted>>

\* Slip: the attempt is approved although no order could be made.
PlaceNothing(a, status, open) == UNCHANGED <<cart, mpOrder>>

(* createFromCartSnapshot under the key payment-attempt:<a>.               *)
PlaceOrder(a, status, open) ==
  IF status = "approved" /\ open /\ mpOrder[a] = "none"
  THEN /\ mpOrder' = [mpOrder EXCEPT ![a] = "paid"]
       /\ cart' = [cart EXCEPT ![attempt[a].cart] = "converted"]
  ELSE UNCHANGED <<cart, mpOrder>>

WebhookCommit(w, e) ==
  LET t == txn[w]
  IN  /\ t.op = "webhook" /\ t.step = "locked" /\ t.event = e
      /\ attempt' = [attempt EXCEPT ![t.attempt].status = t.status,
                                    ![t.attempt].payId = e[1]]
      /\ PlaceOrder(t.attempt, t.status, t.open)
      /\ persisted' = persisted \cup {e}
      /\ Done(w)
      /\ UNCHANGED <<cashOrders, payment, notices>>

-----------------------------------------------------------------------------
(* reconcilePaymentAttempt: reads the attempt, asks the provider, reads    *)
(* the attempt's order, updates the attempt, then the order.               *)
ReconcileRead(w, a) ==
  /\ txn[w] = Idle /\ Uncertain(a)
  /\ txn' = [txn EXCEPT ![w] = [op |-> "reconcile", step |-> "read", attempt |-> a,
                                seen |-> attempt[a].status, payId |-> attempt[a].payId]]
  /\ UNCHANGED <<cart, cashOrders, attempt, mpOrder, payment, notices, persisted>>

ReconcileFetch(w) ==
  LET t == txn[w]
  IN  /\ t.op = "reconcile" /\ t.step = "read"
      /\ txn' = [txn EXCEPT ![w] = [op |-> "reconcile", step |-> "fetched",
                                    attempt |-> t.attempt, seen |-> t.seen,
                                    provider |-> payment[t.payId].status,
                                    existing |-> mpOrder[t.attempt]]]
      /\ UNCHANGED <<cart, cashOrders, attempt, mpOrder, payment, notices, persisted>>

(* A payment still undecided that was already marked is not written again. *)
ReconcileNothing(w) ==
  /\ txn[w].op = "reconcile" /\ txn[w].step = "fetched"
  /\ ReconciledStatus(txn[w].provider) = txn[w].seen
  /\ Done(w)
  /\ UNCHANGED <<cart, cashOrders, attempt, mpOrder, payment, notices, persisted>>

ReconcileWrite(w) ==
  LET t == txn[w]
      status == ReconciledStatus(t.provider)
  IN  /\ t.op = "reconcile" /\ t.step = "fetched"
      /\ status # t.seen
      /\ ~Locked(t.attempt)
      /\ txn' = [txn EXCEPT ![w] = [op |-> "reconcile", step |-> "locked",
                                    attempt |-> t.attempt, status |-> status,
                                    seen |-> t.seen, existing |-> t.existing,
                                    open |-> cart[attempt[t.attempt].cart] = "open"]]
      /\ UNCHANGED <<cart, cashOrders, attempt, mpOrder, payment, notices, persisted>>

(* An order that was read and is not paid is set to paid without a guard.  *)
ReconcileCommit(w) ==
  LET t == txn[w]
      a == t.attempt
  IN  /\ t.op = "reconcile" /\ t.step = "locked"
      /\ attempt' = [attempt EXCEPT ![a].status = t.status]
      /\ IF t.existing = "none"
         THEN PlaceOrder(a, t.status, t.open)
         ELSE /\ mpOrder' = IF t.status = "approved" /\ t.existing # "paid"
                            THEN [mpOrder EXCEPT ![a] = "paid"] ELSE mpOrder
              /\ cart' = cart
      /\ Done(w)
      /\ UNCHANGED <<cashOrders, payment, notices, persisted>>

(* An error, a crash, no stock for the order, or the provider's failure:   *)
(* nothing of the open transaction remains.                                *)
Rollback(w) ==
  /\ txn[w] # Idle
  /\ Done(w)
  /\ UNCHANGED <<cart, cashOrders, attempt, mpOrder, payment, notices, persisted>>

(* refund-cash, which accepts orders of Mercado Pago (see Orders).         *)
CounterRefund(a) ==
  /\ mpOrder[a] = "paid"
  /\ mpOrder' = [mpOrder EXCEPT ![a] = "refunded"]
  /\ UNCHANGED <<cart, cashOrders, attempt, payment, notices, persisted, txn>>

Webhook(w, e) ==
  \/ WebhookFetch(w, e)
  \/ WebhookRead(w, e)
  \/ WebhookDuplicate(w, e)
  \/ WebhookIgnore(w, e)
  \/ WebhookWrite(w, e)
  \/ WebhookCommit(w, e)

Next ==
  \/ \E w \in Worker :
       \/ \E c \in Cart : SessionRead(w, c) \/ CashRead(w, c)
       \/ \E a \in Attempt : SessionInsert(w, a) \/ KioskCancelRead(w, a) \/ ReconcileRead(w, a)
       \/ SessionAttach(w) \/ KioskCancelCommit(w) \/ CashCommit(w)
       \/ \E e \in notices : Webhook(w, e)
       \/ ReconcileFetch(w) \/ ReconcileNothing(w) \/ ReconcileWrite(w) \/ ReconcileCommit(w)
       \/ Rollback(w)
  \/ \E a \in Attempt, c \in Cart : KioskSession(a, c)
  \/ \E p \in Payment, s \in ProviderStatus :
       ProviderSettles(p, s) \/ \E a \in Attempt : Pay(p, a, s)
  \/ \E a \in Attempt : CounterRefund(a)

Spec == Init /\ [][Next]_vars

(* The provider delivers the notification of an approval again until it is *)
(* acknowledged, and its deliveries do not fail for ever.  No transaction  *)
(* stays open for ever: it commits or the server's timeouts end it.        *)
(* Nothing else is assumed of other notifications, the job or customers.   *)
FairSpec ==
  /\ Spec
  /\ \A w \in Worker : WF_vars(Next /\ txn[w] # Idle /\ txn'[w] = Idle)
  /\ \A p \in Payment :
       LET e == <<p, "approved">>
       IN  /\ SF_vars(e \notin persisted /\ \E w \in Worker : WebhookFetch(w, e))
           /\ SF_vars(\E w \in Worker : WebhookRead(w, e))
           /\ SF_vars(\E w \in Worker : WebhookWrite(w, e) \/ WebhookIgnore(w, e))
           /\ SF_vars(\E w \in Worker : WebhookCommit(w, e))

-----------------------------------------------------------------------------
(* Properties.                                                             *)

\* Carts, attempts, orders and payments keep their shapes.
TypeOK ==
  /\ cart \in [Cart -> {"open", "converted"}]
  /\ cashOrders \in [Cart -> 0 .. MaxCash + Cardinality(Worker)]
  /\ \A a \in Attempt :
       /\ attempt[a].status \in AttemptStatus \cup {"absent"}
       /\ attempt[a].cart \in Cart \cup {NoCart}
       /\ attempt[a].payId \in Payment \cup {NoPayment}
  /\ mpOrder \in [Attempt -> {"none", "paid", "refunded"}]
  /\ \A p \in Payment : payment[p].status \in ProviderStatus \cup {"absent"}
  /\ notices \subseteq Payment \X ProviderStatus
  /\ persisted \subseteq notices

OrdersOf(c) == {a \in AttemptsOf(c) : mpOrder[a] # "none"}

Approved(a) == \E p \in Payment : /\ payment[p].attempt = a
                                   /\ payment[p].status \in {"approved", "refunded"}

(* No order of Mercado Pago is paid unless the provider approved a payment *)
(* of its own attempt, however late or stale the notification was.         *)
PaidOrderBacked == \A a \in Attempt : mpOrder[a] # "none" => Approved(a)

(* An approval and its order become visible together: no attempt reads     *)
(* approved while its cart still awaits an order.                          *)
ApprovedHasOrder ==
  \A a \in Attempt : attempt[a].status = "approved" => cart[attempt[a].cart] = "converted"

(* A cart is converted exactly when an order was made from it.             *)
ConvertedHasOrder ==
  \A c \in Cart : cart[c] = "converted" <=> cashOrders[c] > 0 \/ OrdersOf(c) # {}

(* Attempts, payments, carts and orders agree after every step: paid       *)
(* orders are backed by an approval, an approval and its order appear      *)
(* together, and a converted cart has the order it became.                 *)
CheckoutAgrees == TypeOK /\ PaidOrderBacked /\ ApprovedHasOrder /\ ConvertedHasOrder

\* The transaction that commits in this step acted on a status of a that it
\* read before a was approved, or on a cart that it read before a converted it.
StaleReader(w, a) ==
  /\ txn[w] # Idle /\ txn'[w] = Idle
  /\ \/ txn[w].op \in {"webhook", "reconcile"} /\ txn[w].step = "locked"
     \/ txn[w].op = "kioskCancel"
     \/ txn[w].op = "session" /\ txn[w].step = "call"
  /\ txn[w].attempt = a
  /\ txn[w].op # "session" => txn[w].seen # "approved"

(* An approved attempt is only overwritten by a transaction that read it   *)
(* before it was approved, or by a repeated session (attachPreference does *)
(* not look at the status): the priority check stops every other late      *)
(* notification.                                                           *)
ApprovedLeftByStaleReader ==
  [][\A a \in Attempt :
       attempt[a].status = "approved" /\ attempt'[a].status # "approved" =>
         \E w \in Worker : StaleReader(w, a)]_vars

(* An approved payment leads to an order for its cart.                     *)
ApprovedPaymentConverts ==
  \A a \in Attempt :
    (\E p \in Payment : payment[p].attempt = a /\ payment[p].status = "approved")
      ~> (Exists(a) /\ (cart[attempt[a].cart] = "converted"
                        \/ \E p \in Payment : payment[p].attempt = a
                                               /\ payment[p].status = "refunded"))

(* "Cart is already converted to an order.": a cart becomes one order.     *)
OneOrderPerCart ==
  \A c \in Cart : cashOrders[c] + Cardinality(OrdersOf(c)) <= 1
=============================================================================
