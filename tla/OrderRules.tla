----------------------------- MODULE OrderRules -----------------------------
(***************************************************************************)
(* The pure rules of features/orders: the status tables, the fulfilment    *)
(* transition rule and, for every order service, the predicate its early   *)
(* returns leave to the optimistic update.  An order row is a record       *)
(*   [source, tender, fulfillment, payment, version, coupon, optIn]        *)
(* where coupon says that discountSnapshot is set and optIn that the       *)
(* customer opted in to the "ready" message with a valid phone number.     *)
(***************************************************************************)
EXTENDS Naturals

FulfillmentStatus == {"approved", "preparing", "ready", "delivered", "cancelled"}

PaymentStatus == {"pending", "paid", "failed", "refunded", "verification_required"}

OrderSource == {"mercadopago_webhook", "admin_direct", "storefront_cash"}

Tender == {"cash", "posnet"}

\* A row of tenant_orders; source "none" stands for an id not inserted yet.
OrderRow == [source: OrderSource \cup {"none"}, tender: Tender,
             fulfillment: FulfillmentStatus, payment: PaymentStatus,
             version: Nat, coupon: BOOLEAN, optIn: BOOLEAN]

NoRow == [source |-> "none", tender |-> "cash", fulfillment |-> "approved",
          payment |-> "pending", version |-> 0, coupon |-> FALSE, optIn |-> FALSE]

allowedTransitions ==
  [s \in FulfillmentStatus |->
     CASE s = "approved"  -> {"ready", "preparing", "cancelled"}
       [] s = "preparing" -> {"ready", "cancelled"}
       [] s = "ready"     -> {"delivered"}
       [] OTHER           -> {}]

assertFulfillmentTransition(current, next, source) ==
  \/ current = next
  \/ source = "admin_direct" /\ next = "cancelled" /\ current # "cancelled"
  \/ next \in allowedTransitions[current]

(* What TransitionOrderService.transition lets through to the update.      *)
TransitionAllowed(row, next) ==
  /\ assertFulfillmentTransition(row.fulfillment, next, row.source)
  /\ \/ row.source # "storefront_cash" /\ row.tender # "cash"
     \/ row.payment = "paid"
     \/ next = "cancelled"
  /\ ~ /\ next = "cancelled"
       /\ row.tender = "cash"
       /\ row.payment = "paid"
       /\ row.source # "admin_direct"
  /\ ~(next = "delivered" /\ row.payment = "verification_required")
  /\ row.fulfillment # next

\* Slip: the drawer pays out a manual order that was never collected.
isManualCashUnpaid(row) ==
  row.source = "admin_direct" /\ row.tender = "cash"

isManualCash(row) ==
  row.source = "admin_direct" /\ row.tender = "cash" /\ row.payment = "paid"

\* Slip: a cancelled order can still be collected.
CollectCancelled(row, expired) ==
  row.payment \notin {"paid", "refunded"} /\ row.tender = "cash" /\ ~expired

(* CollectCashService: everything between the read and the update.         *)
CollectAllowed(row, expired) ==
  /\ row.payment \notin {"paid", "refunded"}
  /\ row.fulfillment # "cancelled"
  /\ row.tender = "cash"
  /\ ~expired

(* RefundCashService.                                                      *)
RefundAllowed(row) ==
  /\ row.payment = "paid"
  /\ row.fulfillment \notin {"cancelled", "delivered"}
  /\ row.tender = "cash"

(* CancelUnpaidOrderService, after the pickup PIN matched.                 *)
CancelUnpaidAllowed(row) ==
  /\ row.fulfillment \notin {"cancelled", "delivered"}
  /\ row.payment = "pending"
  /\ row.tender = "cash"

(* The filter of the expiry scan, checked again on the re-read row.        *)
ExpireEligible(row, expired) ==
  /\ row.source = "storefront_cash"
  /\ row.payment = "pending"
  /\ row.fulfillment = "approved"
  /\ expired

\* Slip: the gate of the kitchen ticket is forgotten.
TicketUngated(row, printingEnabled) == printingEnabled

(* The kitchen gate (AD-3) of enqueueOrderTicketInTransaction.             *)
TicketAllowed(row, printingEnabled) ==
  /\ ~(row.tender = "cash" /\ row.payment # "paid")
  /\ printingEnabled

(* Customers of the two storefront sources are told when an order is ready.*)
ReadyNoticeDue(row, next) ==
  /\ next = "ready"
  /\ row.payment = "paid"
  /\ row.source \in {"storefront_cash", "mercadopago_webhook"}
  /\ row.optIn
=============================================================================
