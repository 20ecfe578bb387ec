--------------------------- MODULE CheckoutProofs ---------------------------
(***************************************************************************)
(* Proofs about Checkout for every set of carts, attempts, payments and    *)
(* transactions.  What an open transaction has read is only ever overtaken *)
(* in one direction: a converted cart stays converted, an order stays an   *)
(* order, an approved payment stays approved or refunded (Forward).  So    *)
(* what it read still supports what it writes (Agrees).                    *)
(***************************************************************************)
EXTENDS Checkout, FiniteSetTheorems, TLAPS

(* The rows, with their fields. *)
AttemptRow == [status : AttemptStatus \cup {"absent"}, cart : Cart \cup {NoCart},
               payId : Payment \cup {NoPayment}, payable : BOOLEAN]
PaymentRow == [status : ProviderStatus \cup {"absent"}, attempt : Attempt \cup {"none"}]

(* The open transactions, with what each has read. *)
Lookup   == {"pending", "approved", "rejected", "failed"}
Seen     == AttemptStatus \cup {"absent"}
Event    == Payment \X ProviderStatus
Reading  == [op : {"session", "cash"}, step : {"read"}, cart : Cart \ KioskCart]
Calling  == [op : {"session"}, step : {"call"}, attempt : Attempt]
Cancel   == [op : {"kioskCancel"}, step : {"read"}, attempt : Attempt, seen : Seen]
Fetched  == [op : {"webhook"}, step : {"fetched"}, event : Event, attempt : Attempt,
             status : Lookup]
Read     == [op : {"webhook"}, step : {"read"}, event : Event, attempt : Attempt,
             status : Lookup, seen : Seen]
Writing  == [op : {"webhook"}, step : {"locked"}, event : Event, attempt : Attempt,
             status : Lookup, seen : Seen, open : BOOLEAN]
Asking   == [op : {"reconcile"}, step : {"read"}, attempt : Attempt, seen : Seen,
             payId : Payment]
Answered == [op : {"reconcile"}, step : {"fetched"}, attempt : Attempt, seen : Seen,
             provider : ProviderStatus \cup {"absent"},
             existing : {"none", "paid", "refunded"}]
Settling == [op : {"reconcile"}, step : {"locked"}, attempt : Attempt, status : AttemptStatus,
             seen : Seen, existing : {"none", "paid", "refunded"}, open : BOOLEAN]

Transaction ==
    {Idle} \cup Reading \cup Calling \cup Cancel \cup Fetched \cup Read \cup Writing
    \cup Asking \cup Answered \cup Settling

At(t, op, step) == t.op = op /\ t.step = step

Typed ==
    /\ attempt \in [Attempt -> AttemptRow]
    /\ payment \in [Payment -> PaymentRow]
    /\ txn \in [Worker -> Transaction]

(* p is a payment of attempt a. *)
PaidBy(p, a) == payment[p].status # "absent" /\ payment[p].attempt = a

(* A row has a cart from its insertion on, and an order or a payment needs the row. *)
AttemptsShaped ==
    \A a \in Attempt :
        /\ attempt[a].status = "absent" <=> attempt[a].cart = NoCart
        /\ attempt[a].payable => Exists(a)
        /\ attempt[a].cart \in KioskCart => attempt[a].payable
        /\ attempt[a].payId # NoPayment => PaidBy(attempt[a].payId, a)
        /\ mpOrder[a] # "none" => Exists(a)

(* A payment is of an attempt whose preference was handed out. *)
PaymentsShaped ==
    /\ \A p \in Payment : payment[p].status # "absent" =>
         payment[p].attempt \in Attempt /\ attempt[payment[p].attempt].payable
    /\ \A e \in notices : payment[e[1]].status # "absent"

(* What a transaction has read supports what it goes on to write. *)
Agrees(t) ==
    /\ At(t, "session", "call") => attempt[t.attempt].cart \in Cart
    /\ t.op \in {"kioskCancel", "webhook", "reconcile"} =>
        /\ attempt[t.attempt].payable
        /\ t.op = "webhook" => PaidBy(t.event[1], t.attempt)
        /\ At(t, "reconcile", "read") => PaidBy(t.payId, t.attempt)
        /\ At(t, "reconcile", "fetched") =>
             /\ t.provider = "approved" => Approved(t.attempt)
             /\ t.existing # "none" => mpOrder[t.attempt] # "none"
        /\ At(t, "reconcile", "locked") /\ t.existing # "none" => mpOrder[t.attempt] # "none"
        /\ t.op = "webhook" \/ At(t, "reconcile", "locked") =>
             (t.status = "approved" => Approved(t.attempt))
        /\ t.step = "locked" /\ ~ t.open => cart[attempt[t.attempt].cart] = "converted"
        /\ At(t, "webhook", "locked") => ~ outOfOrder(t.status, t.seen)
        /\ t.op \in {"kioskCancel", "reconcile"} => t.seen # "approved"

TransactionsAgree == \A w \in Worker : Agrees(txn[w])

(* Cash-order requests in progress for a cart. *)
CashTxns(c) == {w \in Worker : txn[w].op = "cash" /\ txn[w].cart = c}

CashCounted ==
    \A c \in Cart : cashOrders[c] + Cardinality(CashTxns(c)) <= MaxCash + Cardinality(Worker)

(* The inductive invariant. *)
Inv == /\ CheckoutAgrees /\ Typed /\ AttemptsShaped /\ PaymentsShaped
       /\ TransactionsAgree /\ CashCounted

-----------------------------------------------------------------------------
(* Lemmas about transactions and rows *)

(* The operation and the step of a transaction say what it has read. *)
LEMMA Kinds ==
  ASSUME NEW t \in Transaction
  PROVE  /\ At(t, "session", "read") => t \in Reading
         /\ t.op = "cash" => t \in Reading
         /\ At(t, "session", "call") => t \in Calling
         /\ t.op = "kioskCancel" => t \in Cancel
         /\ At(t, "webhook", "fetched") => t \in Fetched
         /\ At(t, "webhook", "read") => t \in Read
         /\ At(t, "webhook", "locked") => t \in Writing
         /\ At(t, "reconcile", "read") => t \in Asking
         /\ At(t, "reconcile", "fetched") => t \in Answered
         /\ At(t, "reconcile", "locked") => t \in Settling
         /\ t.op \in {"kioskCancel", "webhook", "reconcile"} => t.attempt \in Attempt
         /\ t.op = "webhook" =>
              /\ t.step \in {"fetched", "read", "locked"}
              /\ t.event[1] \in Payment
         /\ t.op = "reconcile" => t.step \in {"read", "fetched", "locked"}
         /\ t.step = "locked" => t.op \in {"webhook", "reconcile"}
BY DEF Transaction, Reading, Calling, Cancel, Fetched, Read, Writing, Asking, Answered,
       Settling, Idle, At, Event

(* What every step leaves true of the rows. *)
Forward ==
    /\ \A c \in Cart : cart[c] = "converted" => cart'[c] = "converted"
    /\ \A a \in Attempt :
         /\ mpOrder[a] # "none" => mpOrder'[a] # "none"
         /\ attempt[a].payable => attempt'[a].payable
         /\ Exists(a) => attempt'[a].cart = attempt[a].cart
    /\ \A p \in Payment :
         /\ payment[p].status # "absent" =>
              payment'[p].status # "absent" /\ payment'[p].attempt = payment[p].attempt
         /\ payment[p].status \in {"approved", "refunded"} =>
              payment'[p].status \in {"approved", "refunded"}

(* An approved attempt stays one with an approval, and a payment its payment. *)
LEMMA ApprovalsStay ==
  ASSUME Forward, NEW a \in Attempt
  PROVE  /\ Approved(a) => Approved(a)'
         /\ \A p \in Payment : PaidBy(p, a) => PaidBy(p, a)'
<1>1. \A p \in Payment : PaidBy(p, a) => PaidBy(p, a)'
  BY DEF Forward, PaidBy
<1>2. ASSUME NEW p \in Payment, payment[p].attempt = a,
             payment[p].status \in {"approved", "refunded"}
      PROVE  Approved(a)'
  BY <1>2 DEF Forward, Approved
<1>3. QED
  BY <1>1, <1>2 DEF Approved

(* What a transaction has read keeps supporting what it writes. *)
LEMMA AgreesStays ==
  ASSUME Inv, Forward, NEW t \in Transaction, Agrees(t)
  PROVE  Agrees(t)'
<1>6. ASSUME At(t, "session", "call") PROVE attempt'[t.attempt].cart \in Cart
  <2>1. t.attempt \in Attempt /\ attempt[t.attempt].cart \in Cart
    BY <1>6, Kinds DEF Calling, Agrees
  <2>2. Exists(t.attempt)
    BY <2>1, NullsAssumption DEF Inv, AttemptsShaped, Exists
  <2>3. QED
    BY <2>1, <2>2 DEF Forward
<1> SUFFICES ASSUME t.op \in {"kioskCancel", "webhook", "reconcile"}
             PROVE  Agrees(t)'
  BY <1>6 DEF Agrees, At
<1>1. /\ t.attempt \in Attempt
      /\ t.op = "webhook" => t.event[1] \in Payment
      /\ At(t, "reconcile", "read") => t.payId \in Payment
  BY Kinds DEF Asking
<1>2. attempt[t.attempt].payable /\ Exists(t.attempt) /\ attempt[t.attempt].cart \in Cart
  BY <1>1 DEF Agrees, Inv, CheckoutAgrees, TypeOK, AttemptsShaped, Exists
<1>3. /\ attempt'[t.attempt].payable
      /\ mpOrder[t.attempt] # "none" => mpOrder'[t.attempt] # "none"
      /\ cart[attempt[t.attempt].cart] = "converted" =>
           cart'[attempt'[t.attempt].cart] = "converted"
  BY <1>1, <1>2 DEF Forward
<1>4. /\ Approved(t.attempt) => Approved(t.attempt)'
      /\ \A p \in Payment : PaidBy(p, t.attempt) => PaidBy(p, t.attempt)'
  BY <1>1, ApprovalsStay
<1>5. QED
  BY <1>1, <1>3, <1>4 DEF Agrees, At

(* An idle transaction has read nothing, and is about nothing. *)
LEMMA IdleAgrees ==
  /\ Idle \in Transaction /\ Agrees(Idle)
  /\ ~ At(Idle, "session", "call") /\ Idle.op = "idle" /\ Idle.step = "idle"
BY DEF Idle, Agrees, Transaction, At

(* The transactions after a step that ends or replaces one of them. *)
LEMMA TransactionsStay ==
  ASSUME Inv, Forward, NEW w \in Worker, NEW t \in Transaction, Agrees(t)',
         txn' = [txn EXCEPT ![w] = t]
  PROVE  TransactionsAgree'
<1> SUFFICES ASSUME NEW v \in Worker PROVE Agrees(txn[v])'
  BY DEF TransactionsAgree
<1>1. PICK u \in Transaction : u = txn[v] /\ Agrees(u)
  BY DEF Inv, Typed, TransactionsAgree
<1>2. Agrees(u)'
  BY <1>1, AgreesStays
<1>3. txn'[v] = IF v = w THEN t ELSE u
  BY <1>1 DEF Inv, Typed
<1>4. CASE v = w
  <2>1. txn'[v] = t
    BY <1>3, <1>4
  <2>2. QED
    BY <2>1 DEF Agrees, At
<1>5. CASE v # w
  <2>1. txn'[v] = u
    BY <1>3, <1>5
  <2>2. QED
    BY <1>2, <2>1 DEF Agrees, At
<1>6. QED
  BY <1>4, <1>5

(* Cash-order requests are finitely many. *)
LEMMA CashFinite ==
  ASSUME NEW c
  PROVE  /\ IsFiniteSet(CashTxns(c)) /\ Cardinality(CashTxns(c)) \in Nat
         /\ Cardinality(CashTxns(c)) <= Cardinality(Worker) /\ Cardinality(Worker) \in Nat
<1>1. CashTxns(c) \in SUBSET Worker
  BY DEF CashTxns
<1>2. QED
  BY <1>1, WorkerAssumption, FS_Subset, FS_CardinalityType

(* The cash-order requests after a step that stores no cash order. *)
LEMMA CashStays ==
  ASSUME Inv, cashOrders' = cashOrders, NEW w \in Worker, NEW t \in Transaction,
         txn' = [txn EXCEPT ![w] = t],
         t.op = "cash" => cashOrders[t.cart] < MaxCash
  PROVE  CashCounted'
<1> SUFFICES ASSUME NEW c \in Cart
             PROVE  cashOrders[c] + Cardinality(CashTxns(c)') <= MaxCash + Cardinality(Worker)
  BY DEF CashCounted
<1>1. \A v \in Worker : txn'[v] = IF v = w THEN t ELSE txn[v]
  BY DEF Inv, Typed
<1> DEFINE S == {v \in Worker : txn'[v].op = "cash" /\ txn'[v].cart = c}
<1>2. CashTxns(c)' = S /\ S \in SUBSET Worker
  BY DEF CashTxns
<1>3. IsFiniteSet(S) /\ Cardinality(S) \in Nat /\ Cardinality(S) <= Cardinality(Worker)
  BY <1>2, WorkerAssumption, FS_Subset, FS_CardinalityType
<1>4. cashOrders[c] \in Nat /\ MaxCash \in Nat /\ Cardinality(Worker) \in Nat
  <2>1. Cardinality(Worker) \in Nat
    BY WorkerAssumption, FS_CardinalityType
  <2>2. QED
    BY <2>1, MaxCashAssumption DEF Inv, CheckoutAgrees, TypeOK
<1>5. CASE t.op = "cash" /\ t.cart = c
  BY <1>2, <1>3, <1>4, <1>5
<1>6. CASE ~ (t.op = "cash" /\ t.cart = c)
  <2>1. S \in SUBSET CashTxns(c)
    BY <1>1, <1>6 DEF CashTxns
  <2>2. Cardinality(S) <= Cardinality(CashTxns(c)) /\ Cardinality(CashTxns(c)) \in Nat
    BY <2>1, CashFinite, FS_Subset
  <2>3. cashOrders[c] + Cardinality(CashTxns(c)) <= MaxCash + Cardinality(Worker)
    BY DEF Inv, CashCounted
  <2>4. QED
    BY <1>2, <1>3, <1>4, <2>2, <2>3
<1>7. QED
  BY <1>5, <1>6

(* A step that only opens, moves or ends a transaction. *)
LEMMA MoveKeeps ==
  ASSUME Inv, NEW w \in Worker, NEW t \in Transaction, Agrees(t),
         txn' = [txn EXCEPT ![w] = t],
         t.op = "cash" => cashOrders[t.cart] < MaxCash,
         UNCHANGED <<cart, cashOrders, attempt, mpOrder, payment, notices>>,
         persisted \subseteq persisted', persisted' \subseteq notices
  PROVE  Inv'
<1>1. Forward
  BY DEF Forward
<1>2. Agrees(t)'
  BY <1>1, AgreesStays
<1>3. CheckoutAgrees'
  BY DEF Inv, CheckoutAgrees, TypeOK, PaidOrderBacked, Approved, ApprovedHasOrder,
         ConvertedHasOrder, OrdersOf, AttemptsOf
<1>4. Typed' /\ AttemptsShaped' /\ PaymentsShaped'
  BY DEF Inv, Typed, AttemptsShaped, PaymentsShaped, PaidBy, Exists
<1>5. TransactionsAgree'
  BY <1>1, <1>2, TransactionsStay
<1>6. CashCounted'
  BY CashStays
<1>7. QED
  BY <1>3, <1>4, <1>5, <1>6 DEF Inv

(* It holds initially. *)
LEMMA InvInit == Init => Inv
<1> SUFFICES ASSUME Init PROVE Inv
  OBVIOUS
<1>1. /\ Absent \in AttemptRow /\ Absent.status = "absent" /\ Absent.cart = NoCart
      /\ ~ Absent.payable /\ Absent.payId = NoPayment
      /\ Unpaid \in PaymentRow /\ Unpaid.status = "absent"
  BY DEF Absent, Unpaid, AttemptRow, PaymentRow, AttemptStatus
<1>2. Typed
  BY <1>1, IdleAgrees DEF Init, Typed
<1>3. AttemptsShaped /\ PaymentsShaped
  BY <1>1, NullsAssumption, KioskCartAssumption DEF Init, AttemptsShaped, PaymentsShaped, Exists
<1>4. TransactionsAgree
  BY IdleAgrees DEF Init, TransactionsAgree
<1>5. CheckoutAgrees
  <2>1. 0 \in 0 .. MaxCash + Cardinality(Worker)
    BY WorkerAssumption, FS_CardinalityType, MaxCashAssumption
  <2>2. TypeOK
    BY <1>1, <2>1 DEF Init, TypeOK, AttemptRow
  <2>3. PaidOrderBacked /\ ApprovedHasOrder /\ ConvertedHasOrder
    BY <1>1 DEF Init, PaidOrderBacked, ApprovedHasOrder, ConvertedHasOrder, OrdersOf, AttemptsOf
  <2>4. QED
    BY <2>2, <2>3 DEF CheckoutAgrees
<1>6. CashCounted
  <2> SUFFICES ASSUME NEW c \in Cart
               PROVE  cashOrders[c] + Cardinality(CashTxns(c)) <= MaxCash + Cardinality(Worker)
    BY DEF CashCounted
  <2>1. CashTxns(c) = {}
    BY IdleAgrees DEF Init, CashTxns
  <2>2. QED
    BY <2>1, FS_EmptySet, CashFinite, MaxCashAssumption DEF Init
<1>7. QED
  BY <1>2, <1>3, <1>4, <1>5, <1>6 DEF Inv

-----------------------------------------------------------------------------
(* Transactions that open, move or end without writing a row *)

(* An open transaction is of some kind, and agrees with the rows. *)
LEMMA TransactionType ==
  ASSUME Inv, NEW w \in Worker
  PROVE  txn[w] \in Transaction /\ Agrees(txn[w])
BY DEF Inv, Typed, TransactionsAgree

(* The attempt of a later transaction has a cart. *)
LEMMA LaterAttempt ==
  ASSUME Inv, NEW a \in Attempt, attempt[a].payable
  PROVE  /\ Exists(a) /\ attempt[a].cart \in Cart
         /\ attempt[a].status \in AttemptStatus /\ attempt[a] \in AttemptRow
  BY DEF Inv, CheckoutAgrees, TypeOK, Typed, AttemptsShaped, Exists

(* A session, cash or kiosk request reads what it needs. *)
LEMMA ReadsKeep ==
  ASSUME Inv, NEW w \in Worker,
         \/ \E c \in Cart : SessionRead(w, c) \/ CashRead(w, c)
         \/ \E a \in Attempt : KioskCancelRead(w, a)
  PROVE  Inv'
<1>1. ASSUME NEW c \in Cart, SessionRead(w, c) \/ CashRead(w, c)
      PROVE  Inv'
  <2> DEFINE t(o) == [op |-> o, step |-> "read", cart |-> c]
  <2>1. c \in Cart \ KioskCart
    BY <1>1 DEF SessionRead, CashRead
  <2>2. ASSUME NEW o \in {"session", "cash"}
        PROVE  /\ t(o) \in Transaction /\ Agrees(t(o))
               /\ t(o).cart = c /\ t(o).op = o
    BY <2>1 DEF Transaction, Reading, Agrees, At
  <2>3. UNCHANGED <<cart, cashOrders, attempt, mpOrder, payment, notices, persisted>>
    BY <1>1 DEF SessionRead, CashRead
  <2>4. persisted \subseteq persisted' /\ persisted' \subseteq notices
    BY <2>3 DEF Inv, CheckoutAgrees, TypeOK
  <2>5. CASE SessionRead(w, c)
    <3>1. txn' = [txn EXCEPT ![w] = t("session")]
      BY <2>5 DEF SessionRead
    <3> HIDE DEF t
    <3>2. t("session").op # "cash"
      BY <2>2
    <3>3. QED
      BY <2>2, <2>3, <2>4, <3>1, <3>2, MoveKeeps
  <2>6. CASE CashRead(w, c)
    <3>1. txn' = [txn EXCEPT ![w] = t("cash")] /\ cashOrders[c] < MaxCash
      BY <2>6 DEF CashRead
    <3> HIDE DEF t
    <3>2. QED
      BY <2>2, <2>3, <2>4, <3>1, MoveKeeps
  <2>7. QED
    BY <1>1, <2>5, <2>6
<1>2. ASSUME NEW a \in Attempt, KioskCancelRead(w, a)
      PROVE  Inv'
  <2> DEFINE t == [op |-> "kioskCancel", step |-> "read", attempt |-> a,
                   seen |-> attempt[a].status]
  <2>1. /\ attempt[a].payable /\ attempt[a].status # "approved" /\ attempt[a].status \in Seen
    BY <1>2 DEF KioskCancelRead, Inv, AttemptsShaped, CheckoutAgrees, TypeOK, Seen
  <2>2. t \in Transaction /\ Agrees(t) /\ t.op # "cash"
    BY <2>1 DEF Transaction, Cancel, Agrees, At
  <2>3. /\ UNCHANGED <<cart, cashOrders, attempt, mpOrder, payment, notices, persisted>>
        /\ persisted \subseteq persisted' /\ persisted' \subseteq notices
        /\ txn' = [txn EXCEPT ![w] = t]
    BY <1>2 DEF KioskCancelRead, Inv, CheckoutAgrees, TypeOK
  <2> HIDE DEF t
  <2>4. QED
    BY <2>2, <2>3, MoveKeeps
<1>3. QED
  BY <1>1, <1>2

(* A transaction that ends without a write, or only persists a notification. *)
LEMMA EndsKeep ==
  ASSUME Inv, NEW w \in Worker,
         \/ \E e \in notices : WebhookDuplicate(w, e) \/ WebhookIgnore(w, e)
         \/ ReconcileNothing(w) \/ Rollback(w)
  PROVE  Inv'
<1>1. /\ UNCHANGED <<cart, cashOrders, attempt, mpOrder, payment, notices>>
      /\ persisted \subseteq persisted' /\ persisted' \subseteq notices
      /\ txn' = [txn EXCEPT ![w] = Idle]
  BY DEF WebhookDuplicate, WebhookIgnore, ReconcileNothing, Rollback, Done,
         Inv, CheckoutAgrees, TypeOK
<1>2. Idle.op # "cash"
  BY DEF Idle
<1>3. QED
  BY <1>1, <1>2, IdleAgrees, MoveKeeps

(* A notification's handler looks up the payment, reads the attempt and locks it. *)
LEMMA WebhookKeeps ==
  ASSUME Inv, NEW w \in Worker, NEW e \in notices,
         WebhookFetch(w, e) \/ WebhookRead(w, e) \/ WebhookWrite(w, e)
  PROVE  Inv'
<1>1. /\ UNCHANGED <<cart, cashOrders, attempt, mpOrder, payment, notices, persisted>>
      /\ persisted \subseteq persisted' /\ persisted' \subseteq notices
  BY DEF WebhookFetch, WebhookRead, WebhookWrite, Inv, CheckoutAgrees, TypeOK
<1>2. PICK u \in Transaction : u = txn[w] /\ Agrees(u)
  BY TransactionType
<1>3. e \in Event /\ e[1] \in Payment
  BY DEF Inv, CheckoutAgrees, TypeOK, Event
<1>4. CASE WebhookFetch(w, e)
  <2> DEFINE a == payment[e[1]].attempt
             s == paymentStatus(payment[e[1]].status)
             t == [op |-> "webhook", step |-> "fetched", event |-> e, attempt |-> a,
                   status |-> s]
  <2>1. PaidBy(e[1], a) /\ a \in Attempt /\ attempt[a].payable
    BY <1>3 DEF Inv, PaymentsShaped, PaidBy
  <2>2. s \in Lookup /\ (s = "approved" => payment[e[1]].status = "approved")
    BY DEF paymentStatus, Lookup
  <2>3. s = "approved" => Approved(a)
    BY <1>3, <2>2 DEF Approved
  <2>4. txn' = [txn EXCEPT ![w] = t]
    BY <1>4 DEF WebhookFetch
  <2> HIDE DEF a, s
  <2>5. t \in Transaction /\ Agrees(t) /\ t.op # "cash"
    BY <1>3, <2>1, <2>2, <2>3 DEF Transaction, Fetched, Agrees, At
  <2> HIDE DEF t
  <2>6. QED
    BY <1>1, <2>4, <2>5, MoveKeeps
<1>5. CASE WebhookRead(w, e)
  <2>1. u \in Fetched /\ u.event = e
    BY <1>2, <1>5, Kinds DEF WebhookRead, At
  <2>2. u.attempt \in Attempt /\ u.status \in Lookup
    BY <2>1 DEF Fetched
  <2> DEFINE s == attempt[u.attempt].status
             t == [op |-> "webhook", step |-> "read", event |-> e, attempt |-> u.attempt,
                   status |-> u.status, seen |-> s]
  <2>3. txn' = [txn EXCEPT ![w] = t]
    BY <1>2, <1>5 DEF WebhookRead
  <2>4. s \in Seen
    BY <2>2 DEF Inv, CheckoutAgrees, TypeOK, Seen
  <2> HIDE DEF s
  <2>5. t \in Transaction /\ Agrees(t) /\ t.op # "cash"
    <3>1. t \in Read
      BY <1>3, <2>2, <2>4 DEF Read
    <3>2. Agrees(t)
      BY <1>2, <2>1 DEF Agrees, At, Fetched
    <3>3. QED
      BY <3>1, <3>2 DEF Transaction, At
  <2> HIDE DEF t
  <2>6. QED
    BY <1>1, <2>3, <2>5, MoveKeeps
<1>6. CASE WebhookWrite(w, e)
  <2>1. u \in Read /\ u.event = e /\ ~ outOfOrder(u.status, u.seen)
    BY <1>2, <1>6, Kinds DEF WebhookWrite, At
  <2>2. u.attempt \in Attempt /\ u.status \in Lookup /\ u.seen \in Seen
    BY <2>1 DEF Read
  <2> DEFINE o == cart[attempt[u.attempt].cart] = "open"
             t == [op |-> "webhook", step |-> "locked", event |-> e, attempt |-> u.attempt,
                   status |-> u.status, seen |-> u.seen, open |-> o]
  <2>3. txn' = [txn EXCEPT ![w] = t]
    BY <1>2, <1>6 DEF WebhookWrite
  <2>4. attempt[u.attempt].payable
    BY <1>2, <2>1 DEF Agrees, Read
  <2>5. o \in BOOLEAN /\ (~ o => cart[attempt[u.attempt].cart] = "converted")
    BY <2>2, <2>4, LaterAttempt DEF Inv, CheckoutAgrees, TypeOK
  <2> HIDE DEF o
  <2>6. t \in Transaction /\ Agrees(t) /\ t.op # "cash"
    <3>1. t \in Writing
      BY <1>3, <2>2, <2>5 DEF Writing
    <3>2. Agrees(t)
      BY <1>2, <2>1, <2>5 DEF Agrees, At, Read
    <3>3. QED
      BY <3>1, <3>2 DEF Transaction, At
  <2> HIDE DEF t
  <2>7. QED
    BY <1>1, <2>3, <2>6, MoveKeeps
<1>7. QED
  BY <1>4, <1>5, <1>6

(* The reconciliation job reads an uncertain attempt, asks the provider and locks it. *)
LEMMA ReconcileKeeps ==
  ASSUME Inv, NEW w \in Worker,
         (\E a \in Attempt : ReconcileRead(w, a)) \/ ReconcileFetch(w) \/ ReconcileWrite(w)
  PROVE  Inv'
<1>1. /\ UNCHANGED <<cart, cashOrders, attempt, mpOrder, payment, notices, persisted>>
      /\ persisted \subseteq persisted' /\ persisted' \subseteq notices
  BY DEF ReconcileRead, ReconcileFetch, ReconcileWrite, Inv, CheckoutAgrees, TypeOK
<1>2. PICK u \in Transaction : u = txn[w] /\ Agrees(u)
  BY TransactionType
<1>3. ASSUME NEW a \in Attempt, ReconcileRead(w, a)
      PROVE  Inv'
  <2> DEFINE s == attempt[a].status
             p == attempt[a].payId
             t == [op |-> "reconcile", step |-> "read", attempt |-> a, seen |-> s, payId |-> p]
  <2>1. /\ s \in Seen /\ s # "approved" /\ p \in Payment /\ PaidBy(p, a)
        /\ txn' = [txn EXCEPT ![w] = t]
    BY <1>3 DEF ReconcileRead, Uncertain, Inv, CheckoutAgrees, TypeOK, AttemptsShaped, Seen
  <2>2. attempt[a].payable
    BY <2>1 DEF Inv, PaymentsShaped, PaidBy
  <2> HIDE DEF s, p
  <2>3. t \in Transaction /\ Agrees(t) /\ t.op # "cash"
    BY <2>1, <2>2 DEF Transaction, Asking, Agrees, At
  <2> HIDE DEF t
  <2>4. QED
    BY <1>1, <2>1, <2>3, MoveKeeps
<1>4. CASE ReconcileFetch(w)
  <2>1. u \in Asking
    BY <1>2, <1>4, Kinds DEF ReconcileFetch, At
  <2>2. u.attempt \in Attempt /\ u.seen \in Seen /\ u.payId \in Payment
    BY <2>1 DEF Asking
  <2> DEFINE s == payment[u.payId].status
             m == mpOrder[u.attempt]
             t == [op |-> "reconcile", step |-> "fetched", attempt |-> u.attempt,
                   seen |-> u.seen, provider |-> s, existing |-> m]
  <2>3. txn' = [txn EXCEPT ![w] = t]
    BY <1>2, <1>4 DEF ReconcileFetch
  <2>4. /\ attempt[u.attempt].payable /\ u.seen # "approved" /\ PaidBy(u.payId, u.attempt)
    BY <1>2, <2>1 DEF Agrees, At, Asking
  <2>5. /\ s \in ProviderStatus \cup {"absent"} /\ m \in {"none", "paid", "refunded"}
        /\ m # "none" => mpOrder[u.attempt] # "none"
        /\ s = "approved" => Approved(u.attempt)
    BY <2>2, <2>4 DEF Inv, CheckoutAgrees, TypeOK, Approved, PaidBy
  <2> HIDE DEF s, m
  <2>6. t \in Transaction /\ Agrees(t) /\ t.op # "cash"
    BY <2>2, <2>4, <2>5 DEF Transaction, Answered, Agrees, At
  <2> HIDE DEF t
  <2>7. QED
    BY <1>1, <2>3, <2>6, MoveKeeps
<1>5. CASE ReconcileWrite(w)
  <2>1. u \in Answered
    BY <1>2, <1>5, Kinds DEF ReconcileWrite, At
  <2>2. /\ u.attempt \in Attempt /\ u.seen \in Seen
        /\ u.existing \in {"none", "paid", "refunded"}
    BY <2>1 DEF Answered
  <2> DEFINE s == ReconciledStatus(u.provider)
             o == cart[attempt[u.attempt].cart] = "open"
             t == [op |-> "reconcile", step |-> "locked", attempt |-> u.attempt, status |-> s,
                   seen |-> u.seen, existing |-> u.existing, open |-> o]
  <2>3. txn' = [txn EXCEPT ![w] = t]
    BY <1>2, <1>5 DEF ReconcileWrite
  <2>4. /\ attempt[u.attempt].payable /\ u.seen # "approved"
        /\ u.provider = "approved" => Approved(u.attempt)
        /\ u.existing # "none" => mpOrder[u.attempt] # "none"
    BY <1>2, <2>1 DEF Agrees, At, Answered
  <2>5. s \in AttemptStatus /\ (s = "approved" => Approved(u.attempt))
    BY <2>4 DEF ReconciledStatus, AttemptStatus
  <2>6. o \in BOOLEAN /\ (~ o => cart[attempt[u.attempt].cart] = "converted")
    BY <2>2, <2>4, LaterAttempt DEF Inv, CheckoutAgrees, TypeOK
  <2> HIDE DEF s, o
  <2>7. t \in Transaction /\ Agrees(t) /\ t.op # "cash"
    BY <2>2, <2>4, <2>5, <2>6 DEF Transaction, Settling, Agrees, At
  <2> HIDE DEF t
  <2>8. QED
    BY <1>1, <2>3, <2>7, MoveKeeps
<1>6. QED
  BY <1>3, <1>4, <1>5

-----------------------------------------------------------------------------
(* Steps that write rows *)

(* Attempt a of cart c, whose row exists, becomes r. *)
RowMoves(a, c, r) ==
    /\ Exists(a) /\ attempt[a].cart = c /\ r.cart = c /\ r.status # "absent"
    /\ attempt[a].payable \/ c \in KioskCart => r.payable
    /\ r.payId # NoPayment => PaidBy(r.payId, a)
    /\ attempt' = [attempt EXCEPT ![a] = r]

(* The order of attempt a becomes m, with the cart, beside an attempt of this status. *)
OrderMoves(a, c, m, status) ==
    /\ mpOrder' = [mpOrder EXCEPT ![a] = m]
    /\ mpOrder[a] # "none" => m # "none"
    /\ m # "none" => Approved(a)
    /\ status = "approved" => m # "none" \/ cart[c] = "converted"
    /\ cart' \in [Cart -> {"open", "converted"}]
    /\ \A d \in Cart : d # c => cart'[d] = cart[d]
    /\ cart'[c] = IF m = "none" THEN cart[c] ELSE "converted"

(* The commit that gives attempt a its next row and its order its next status: the *)
(* cart is converted with the order, and an approval comes with one or the other.  *)
LEMMA SettleKeeps ==
  ASSUME Inv, NEW w \in Worker, NEW a \in Attempt, NEW c \in Cart, NEW r \in AttemptRow,
         NEW m \in {"none", "paid", "refunded"},
         RowMoves(a, c, r), OrderMoves(a, c, m, r.status), Done(w),
         UNCHANGED <<cashOrders, payment, notices>>,
         persisted' \subseteq notices
  PROVE  Inv'
<1> USE DEF RowMoves, OrderMoves, Done
<1>1. /\ \A x \in Attempt : attempt'[x] = IF x = a THEN r ELSE attempt[x]
      /\ \A x \in Attempt : mpOrder'[x] = IF x = a THEN m ELSE mpOrder[x]
      /\ attempt' \in [Attempt -> AttemptRow]
      /\ mpOrder' \in [Attempt -> {"none", "paid", "refunded"}]
  BY DEF Inv, Typed, CheckoutAgrees, TypeOK
<1>2. Forward
  BY <1>1 DEF Forward
<1>3. TypeOK'
  BY <1>1 DEF AttemptRow, Inv, CheckoutAgrees, TypeOK
<1>4. PaidOrderBacked'
  BY <1>1 DEF PaidOrderBacked, Approved, Inv, CheckoutAgrees
<1>5. ApprovedHasOrder'
  <2> SUFFICES ASSUME NEW x \in Attempt, attempt'[x].status = "approved"
               PROVE  cart'[attempt'[x].cart] = "converted"
    BY DEF ApprovedHasOrder
  <2>1. CASE x = a
    BY <1>1, <2>1
  <2>2. CASE x # a
    <3>1. cart[attempt[x].cart] = "converted" /\ attempt[x].cart \in Cart
      BY <1>1, <2>2 DEF Inv, CheckoutAgrees, TypeOK, ApprovedHasOrder, AttemptsShaped
    <3>2. QED
      BY <1>1, <1>2, <2>2, <3>1 DEF Forward
  <2>3. QED
    BY <2>1, <2>2
<1>6. ConvertedHasOrder'
  <2> SUFFICES ASSUME NEW d \in Cart
               PROVE  cart'[d] = "converted" <=> cashOrders[d] > 0 \/ OrdersOf(d)' # {}
    BY DEF ConvertedHasOrder
  <2>1. cart[d] = "converted" <=> cashOrders[d] > 0 \/ OrdersOf(d) # {}
    BY DEF Inv, CheckoutAgrees, ConvertedHasOrder
  <2>2. \A x \in Attempt : x \in OrdersOf(d)' <=> attempt'[x].cart = d /\ mpOrder'[x] # "none"
    BY DEF OrdersOf, AttemptsOf
  <2>3. \A x \in Attempt : x \in OrdersOf(d) <=> attempt[x].cart = d /\ mpOrder[x] # "none"
    BY DEF OrdersOf, AttemptsOf
  <2>4. OrdersOf(d) \subseteq Attempt /\ OrdersOf(d)' \subseteq Attempt
    BY DEF OrdersOf, AttemptsOf
  <2>5. CASE d = c /\ m # "none"
    <3>1. a \in OrdersOf(d)'
      BY <1>1, <2>2, <2>5
    <3>2. QED
      BY <2>5, <3>1
  <2>6. CASE d # c \/ m = "none"
    <3>1. \A x \in Attempt : x \in OrdersOf(d)' <=> x \in OrdersOf(d)
      BY <1>1, <2>2, <2>3, <2>6
    <3>2. OrdersOf(d)' = OrdersOf(d)
      BY <2>4, <3>1
    <3>3. QED
      BY <1>1, <2>1, <2>6, <3>2
  <2>7. QED
    BY <2>5, <2>6
<1>7. Typed'
  BY <1>1, IdleAgrees DEF Inv, Typed
<1>8. AttemptsShaped'
  <2> SUFFICES ASSUME NEW x \in Attempt
               PROVE  /\ attempt'[x].status = "absent" <=> attempt'[x].cart = NoCart
                      /\ attempt'[x].payable => attempt'[x].status # "absent"
                      /\ attempt'[x].cart \in KioskCart => attempt'[x].payable
                      /\ attempt'[x].payId # NoPayment => PaidBy(attempt'[x].payId, x)
                      /\ mpOrder'[x] # "none" => attempt'[x].status # "absent"
    BY DEF AttemptsShaped, Exists, PaidBy
  <2>1. CASE x = a
    BY <1>1, <2>1, NullsAssumption DEF Exists
  <2>2. CASE x # a
    BY <1>1, <2>2 DEF Inv, AttemptsShaped, Exists
  <2>3. QED
    BY <2>1, <2>2
<1>9. PaymentsShaped'
  BY <1>1 DEF Inv, PaymentsShaped
<1>10. TransactionsAgree'
  <2>1. Agrees(Idle)'
    BY <1>2, IdleAgrees, AgreesStays
  <2>2. QED
    BY <1>2, <2>1, IdleAgrees, TransactionsStay
<1>12. CashCounted'
  <2>1. Idle.op # "cash"
    BY DEF Idle
  <2>2. QED
    BY <2>1, IdleAgrees, CashStays
<1>13. QED
  BY <1>3, <1>4, <1>5, <1>6, <1>7, <1>8, <1>9, <1>10, <1>12 DEF Inv, CheckoutAgrees

(* attachPreference and the kiosk's cancellation write a status and no order. *)
LEMMA StatusKeeps ==
  ASSUME Inv, NEW w \in Worker, SessionAttach(w) \/ KioskCancelCommit(w)
  PROVE  Inv'
<1>1. PICK u \in Transaction : u = txn[w] /\ Agrees(u)
  BY TransactionType
<1>2. /\ At(u, "session", "call") => u.attempt \in Attempt
      /\ u.op = "kioskCancel" => u.attempt \in Attempt
  BY Kinds DEF Calling
<1>3. PICK a \in Attempt : a = u.attempt
  BY <1>1, <1>2 DEF SessionAttach, KioskCancelCommit, At
<1>4. /\ attempt[a] \in AttemptRow
      /\ SessionAttach(w) => attempt[a].cart \in Cart
      /\ KioskCancelCommit(w) => attempt[a].payable
  BY <1>1, <1>3 DEF Inv, Typed, Agrees, SessionAttach, KioskCancelCommit, At
<1>5. PICK c \in Cart : c = attempt[a].cart /\ Exists(a)
  <2>1. SessionAttach(w) \/ KioskCancelCommit(w)
    OBVIOUS
  <2>2. attempt[a].cart \in Cart => Exists(a)
    BY NullsAssumption DEF Inv, AttemptsShaped, Exists
  <2>3. attempt[a].payable => Exists(a) /\ attempt[a].cart \in Cart
    BY <1>4 DEF Inv, AttemptsShaped, Exists, AttemptRow
  <2>4. QED
    BY <1>4, <2>1, <2>2, <2>3
<1>6. PICK m \in {"none", "paid", "refunded"} : m = mpOrder[a]
  BY DEF Inv, CheckoutAgrees, TypeOK
<1>7. Done(w)
  BY DEF SessionAttach, KioskCancelCommit
<1>8. /\ m # "none" => Approved(a) /\ cart[c] = "converted"
      /\ mpOrder' = [mpOrder EXCEPT ![a] = m]
      /\ cart' = cart /\ cart \in [Cart -> {"open", "converted"}]
      /\ txn' = [txn EXCEPT ![w] = Idle]
      /\ UNCHANGED <<cashOrders, payment, notices>>
      /\ persisted' \subseteq notices
  <2>1. m # "none" => a \in OrdersOf(c)
    BY <1>5, <1>6 DEF OrdersOf, AttemptsOf
  <2>2. QED
    BY <1>6, <2>1 DEF Inv, CheckoutAgrees, TypeOK, PaidOrderBacked, ConvertedHasOrder,
       SessionAttach, KioskCancelCommit, Done
<1>9. PICK r \in AttemptRow :
        /\ attempt' = [attempt EXCEPT ![a] = r]
        /\ r.cart = c /\ r.payId = attempt[a].payId /\ r.status \in {"processing", "failed"}
        /\ attempt[a].payable \/ c \in KioskCart => r.payable
  <2>1. CASE SessionAttach(w)
    <3>1. attempt' = [attempt EXCEPT ![a] =
                        [attempt[a] EXCEPT !.status = "processing", !.payable = TRUE]]
      BY <1>1, <1>3, <2>1 DEF SessionAttach, Inv, Typed
    <3>2. [attempt[a] EXCEPT !.status = "processing", !.payable = TRUE] \in AttemptRow
      BY <1>4 DEF AttemptRow, AttemptStatus
    <3>3. QED
      BY <1>4, <1>5, <3>1, <3>2 DEF AttemptRow
  <2>2. CASE KioskCancelCommit(w)
    <3>1. attempt' = [attempt EXCEPT ![a] = [attempt[a] EXCEPT !.status = "failed"]]
      BY <1>1, <1>3, <2>2 DEF KioskCancelCommit
    <3>2. [attempt[a] EXCEPT !.status = "failed"] \in AttemptRow
      BY <1>4 DEF AttemptRow, AttemptStatus
    <3>3. QED
      BY <1>4, <1>5, <2>2, <3>1, <3>2 DEF AttemptRow
  <2>3. QED
    BY <2>1, <2>2
<1>10. r.payId # NoPayment => PaidBy(r.payId, a)
  BY <1>9 DEF Inv, AttemptsShaped
<1>11. RowMoves(a, c, r)
  BY <1>5, <1>9, <1>10 DEF RowMoves
<1>12. OrderMoves(a, c, m, r.status)
  BY <1>6, <1>8, <1>9 DEF OrderMoves
<1>13. QED
  BY <1>7, <1>8, <1>11, <1>12, SettleKeeps

(* What createFromCartSnapshot does to the cart and the order of an attempt. *)
LEMMA PlaceOrderWrites ==
  ASSUME Inv, NEW a \in Attempt, NEW c \in Cart, c = attempt[a].cart,
         NEW status, NEW open \in BOOLEAN, PlaceOrder(a, status, open),
         status = "approved" => Approved(a),
         ~ open => cart[c] = "converted"
  PROVE  \E m \in {"none", "paid", "refunded"} : OrderMoves(a, c, m, status)
<1> USE DEF OrderMoves
<1>1. /\ mpOrder \in [Attempt -> {"none", "paid", "refunded"}]
      /\ cart \in [Cart -> {"open", "converted"}]
      /\ mpOrder[a] # "none" => Approved(a)
  BY DEF Inv, CheckoutAgrees, TypeOK, PaidOrderBacked
<1>2. mpOrder[a] # "none" => cart[c] = "converted"
  <2>1. mpOrder[a] # "none" => a \in OrdersOf(c)
    BY DEF OrdersOf, AttemptsOf
  <2>2. QED
    BY <2>1 DEF Inv, CheckoutAgrees, ConvertedHasOrder
<1>3. CASE status = "approved" /\ open /\ mpOrder[a] = "none"
  <2>1. mpOrder' = [mpOrder EXCEPT ![a] = "paid"] /\ cart' = [cart EXCEPT ![c] = "converted"]
    BY <1>3 DEF PlaceOrder
  <2>2. QED
    BY <1>1, <1>3, <2>1
<1>4. CASE ~ (status = "approved" /\ open /\ mpOrder[a] = "none")
  <2>1. mpOrder' = mpOrder /\ cart' = cart
    BY <1>4 DEF PlaceOrder
  <2>2. mpOrder' = [mpOrder EXCEPT ![a] = mpOrder[a]]
    BY <1>1, <2>1
  <2>3. QED
    BY <1>1, <1>2, <1>4, <2>1, <2>2
<1>5. QED
  BY <1>3, <1>4

(* A notification's commit: the attempt, its payment and its order together. *)
LEMMA WebhookCommitKeeps ==
  ASSUME Inv, NEW w \in Worker, NEW e \in notices, WebhookCommit(w, e)
  PROVE  Inv'
<1>1. PICK u \in Transaction : u = txn[w] /\ Agrees(u)
  BY TransactionType
<1>2. u \in Writing /\ u.event = e
  BY <1>1, Kinds DEF WebhookCommit, At
<1>3. PICK a \in Attempt : a = u.attempt
  BY <1>2 DEF Writing
<1>4. /\ attempt[a].payable /\ PaidBy(e[1], a) /\ e[1] \in Payment
      /\ u.status = "approved" => Approved(a)
      /\ ~ u.open => cart[attempt[a].cart] = "converted"
      /\ u.status \in Lookup /\ u.open \in BOOLEAN
  <2>1. e[1] \in Payment
    BY <1>2 DEF Writing, Event
  <2>2. QED
    BY <1>1, <1>2, <1>3, <2>1 DEF Agrees, Writing
<1>5. PICK c \in Cart : c = attempt[a].cart /\ Exists(a) /\ attempt[a] \in AttemptRow
  BY <1>4, LaterAttempt
<1>6. PlaceOrder(a, u.status, u.open)
  BY <1>1, <1>3 DEF WebhookCommit
<1>7. PICK m \in {"none", "paid", "refunded"} : OrderMoves(a, c, m, u.status)
  BY <1>4, <1>5, <1>6, PlaceOrderWrites
<1>8. PICK r \in AttemptRow : RowMoves(a, c, r) /\ r.status = u.status
  <2> DEFINE r == [attempt[a] EXCEPT !.status = u.status, !.payId = e[1]]
  <2>1. attempt' = [attempt EXCEPT ![a] = r]
    BY <1>1, <1>3 DEF WebhookCommit, Inv, Typed
  <2>2. r \in AttemptRow /\ r.status = u.status /\ r.cart = c /\ r.payId = e[1] /\ r.payable
    BY <1>4, <1>5 DEF AttemptRow, AttemptStatus, Lookup
  <2> HIDE DEF r
  <2>3. u.status # "absent"
    BY <1>4 DEF Lookup
  <2>4. RowMoves(a, c, r)
    BY <1>4, <1>5, <2>1, <2>2, <2>3 DEF RowMoves
  <2>5. QED
    BY <2>2, <2>4
<1>9. Done(w)
  BY <1>4 DEF WebhookCommit
<1>10. UNCHANGED <<cashOrders, payment, notices>> /\ persisted' \subseteq notices
  BY DEF WebhookCommit, Inv, CheckoutAgrees, TypeOK
<1>11. QED
  BY <1>7, <1>8, <1>9, <1>10, SettleKeeps

(* The job's commit: the attempt and its order together. *)
LEMMA ReconcileCommitKeeps ==
  ASSUME Inv, NEW w \in Worker, ReconcileCommit(w)
  PROVE  Inv'
<1>1. PICK u \in Transaction : u = txn[w] /\ Agrees(u)
  BY TransactionType
<1>2. u \in Settling
  BY <1>1, Kinds DEF ReconcileCommit, At
<1>3. PICK a \in Attempt : a = u.attempt
  BY <1>2 DEF Settling
<1>4. /\ attempt[a].payable
      /\ u.status = "approved" => Approved(a)
      /\ ~ u.open => cart[attempt[a].cart] = "converted"
      /\ u.existing # "none" => mpOrder[a] # "none"
      /\ u.status \in AttemptStatus /\ u.open \in BOOLEAN
  BY <1>1, <1>2, <1>3 DEF Agrees, Settling, At
<1>5. PICK c \in Cart : c = attempt[a].cart /\ Exists(a) /\ attempt[a] \in AttemptRow
  BY <1>4, LaterAttempt
<1>6. PICK m \in {"none", "paid", "refunded"} : OrderMoves(a, c, m, u.status)
  <2>1. CASE u.existing = "none"
    <3>1. PlaceOrder(a, u.status, u.open)
      BY <1>1, <1>3, <2>1 DEF ReconcileCommit
    <3>2. QED
      BY <1>4, <1>5, <3>1, PlaceOrderWrites
  <2>2. CASE u.existing # "none"
    <3>1. /\ mpOrder \in [Attempt -> {"none", "paid", "refunded"}]
          /\ cart \in [Cart -> {"open", "converted"}]
          /\ mpOrder[a] # "none" /\ Approved(a)
      BY <1>4, <2>2 DEF Inv, CheckoutAgrees, TypeOK, PaidOrderBacked
    <3>2. cart[c] = "converted"
      <4>1. a \in OrdersOf(c)
        BY <1>5, <3>1 DEF OrdersOf, AttemptsOf
      <4>2. QED
        BY <4>1 DEF Inv, CheckoutAgrees, ConvertedHasOrder
    <3>3. cart' = cart /\ (mpOrder' = mpOrder \/ mpOrder' = [mpOrder EXCEPT ![a] = "paid"])
      BY <1>1, <1>3, <2>2 DEF ReconcileCommit
    <3>4. CASE mpOrder' = mpOrder
      <4>1. mpOrder' = [mpOrder EXCEPT ![a] = mpOrder[a]]
        BY <3>1, <3>4
      <4>2. QED
        BY <3>1, <3>2, <3>3, <4>1 DEF OrderMoves
    <3>5. CASE mpOrder' = [mpOrder EXCEPT ![a] = "paid"]
      BY <3>1, <3>2, <3>3, <3>5 DEF OrderMoves
    <3>6. QED
      BY <3>3, <3>4, <3>5
  <2>3. QED
    BY <2>1, <2>2
<1>7. PICK r \in AttemptRow : RowMoves(a, c, r) /\ r.status = u.status
  <2> DEFINE r == [attempt[a] EXCEPT !.status = u.status]
  <2>1. attempt' = [attempt EXCEPT ![a] = r]
    BY <1>1, <1>3 DEF ReconcileCommit
  <2>2. /\ r \in AttemptRow /\ r.status = u.status /\ r.cart = c /\ r.payable
        /\ r.payId = attempt[a].payId
    BY <1>4, <1>5 DEF AttemptRow
  <2> HIDE DEF r
  <2>3. u.status # "absent" /\ (attempt[a].payId # NoPayment => PaidBy(attempt[a].payId, a))
    BY <1>4 DEF AttemptStatus, Inv, AttemptsShaped
  <2>4. RowMoves(a, c, r)
    BY <1>4, <1>5, <2>1, <2>2, <2>3 DEF RowMoves
  <2>5. QED
    BY <2>2, <2>4
<1>8. Done(w)
  BY <1>4 DEF ReconcileCommit
<1>9. UNCHANGED <<cashOrders, payment, notices>> /\ persisted' \subseteq notices
  BY DEF ReconcileCommit, Inv, CheckoutAgrees, TypeOK
<1>10. QED
  BY <1>6, <1>7, <1>8, <1>9, SettleKeeps

(* A cash order converts its cart. *)
LEMMA CashCommitKeeps ==
  ASSUME Inv, NEW w \in Worker, CashCommit(w)
  PROVE  Inv'
<1>1. PICK c \in Cart : txn[w].op = "cash" /\ txn[w].cart = c
  BY TransactionType, Kinds DEF CashCommit, Reading
<1>2. /\ cashOrders' = [cashOrders EXCEPT ![c] = cashOrders[c] + 1]
      /\ cart' = [cart EXCEPT ![c] = "converted"]
      /\ txn' = [txn EXCEPT ![w] = Idle]
      /\ UNCHANGED <<attempt, mpOrder, payment, notices, persisted>>
  BY <1>1 DEF CashCommit, Done
<1>3. /\ cart \in [Cart -> {"open", "converted"}]
      /\ cashOrders \in [Cart -> 0 .. MaxCash + Cardinality(Worker)]
      /\ MaxCash \in Nat /\ Cardinality(Worker) \in Nat
  BY MaxCashAssumption, CashFinite DEF Inv, CheckoutAgrees, TypeOK
<1>4. Forward
  BY <1>2, <1>3 DEF Forward
<1>5. \A d \in Cart : cashOrders'[d] + Cardinality(CashTxns(d)') <= MaxCash + Cardinality(Worker)
  <2> SUFFICES ASSUME NEW d \in Cart
               PROVE  cashOrders'[d] + Cardinality(CashTxns(d)') <= MaxCash + Cardinality(Worker)
    OBVIOUS
  <2>1. CashTxns(d)' = IF d = c THEN CashTxns(d) \ {w} ELSE CashTxns(d)
    BY <1>1, <1>2 DEF CashTxns, Inv, Typed, Idle
  <2>2. w \in CashTxns(c)
    BY <1>1 DEF CashTxns
  <2>3. Cardinality(CashTxns(c) \ {w}) = Cardinality(CashTxns(c)) - 1
    BY <2>2, CashFinite, FS_RemoveElement
  <2>4. /\ cashOrders[d] + Cardinality(CashTxns(d)) <= MaxCash + Cardinality(Worker)
        /\ Cardinality(CashTxns(d)) \in Nat /\ cashOrders[d] \in Nat
    BY <1>3, CashFinite DEF Inv, CashCounted
  <2>5. CASE d = c
    BY <1>2, <1>3, <2>1, <2>3, <2>4, <2>5
  <2>6. CASE d # c
    BY <1>2, <1>3, <2>1, <2>4, <2>6
  <2>7. QED
    BY <2>5, <2>6
<1>6. TypeOK'
  <2>1. \A d \in Cart : cashOrders'[d] \in 0 .. MaxCash + Cardinality(Worker)
    <3> SUFFICES ASSUME NEW d \in Cart
                 PROVE  cashOrders'[d] \in 0 .. MaxCash + Cardinality(Worker)
      OBVIOUS
    <3>1. CashTxns(d)' \in SUBSET Worker
      BY DEF CashTxns
    <3>2. Cardinality(CashTxns(d)') \in Nat
      BY <3>1, WorkerAssumption, FS_Subset, FS_CardinalityType
    <3>3. cashOrders'[d] \in Nat
      BY <1>2, <1>3
    <3>4. QED
      BY <1>3, <1>5, <3>2, <3>3
  <2>2. cashOrders' \in [Cart -> 0 .. MaxCash + Cardinality(Worker)]
    BY <1>2, <1>3, <2>1
  <2>3. cart' \in [Cart -> {"open", "converted"}]
    BY <1>2, <1>3
  <2>4. QED
    BY <1>2, <2>2, <2>3 DEF Inv, CheckoutAgrees, TypeOK
<1>7. PaidOrderBacked' /\ ApprovedHasOrder'
  <2>1. \A a \in Attempt : attempt[a].status = "approved" => attempt[a].cart \in Cart
    BY DEF Inv, CheckoutAgrees, TypeOK, AttemptsShaped
  <2>2. QED
    BY <1>2, <1>4, <2>1 DEF Forward, Inv, CheckoutAgrees, PaidOrderBacked, Approved, ApprovedHasOrder
<1>8. ConvertedHasOrder'
  <2> SUFFICES ASSUME NEW d \in Cart
               PROVE  cart'[d] = "converted" <=> cashOrders'[d] > 0 \/ OrdersOf(d)' # {}
    BY DEF ConvertedHasOrder
  <2>1. cart[d] = "converted" <=> cashOrders[d] > 0 \/ OrdersOf(d) # {}
    BY DEF Inv, CheckoutAgrees, ConvertedHasOrder
  <2>2. OrdersOf(d)' = OrdersOf(d)
    BY <1>2 DEF OrdersOf, AttemptsOf
  <2>3. QED
    BY <1>2, <1>3, <2>1, <2>2
<1>9. Typed' /\ AttemptsShaped' /\ PaymentsShaped'
  BY <1>2, IdleAgrees DEF Inv, Typed, AttemptsShaped, PaymentsShaped, PaidBy, Exists
<1>10. TransactionsAgree'
  <2>1. Agrees(Idle)'
    BY <1>4, IdleAgrees, AgreesStays
  <2>2. QED
    BY <1>2, <1>4, <2>1, IdleAgrees, TransactionsStay
<1>12. CashCounted'
  BY <1>5 DEF CashCounted
<1>13. QED
  BY <1>6, <1>7, <1>8, <1>9, <1>10, <1>12 DEF Inv, CheckoutAgrees

(* A new row has no order and no payment, and is nobody else's. *)
LEMMA InsertKeeps ==
  ASSUME Inv, NEW a \in Attempt, NEW r \in AttemptRow, ~ Exists(a),
         r.status \in {"initiated", "processing"}, r.cart \in Cart, r.payId = NoPayment,
         r.cart \in KioskCart => r.payable,
         attempt' = [attempt EXCEPT ![a] = r],
         UNCHANGED <<cart, cashOrders, mpOrder, payment, notices, persisted>>
  PROVE  /\ Forward /\ CheckoutAgrees' /\ AttemptsShaped' /\ PaymentsShaped'
         /\ attempt' \in [Attempt -> AttemptRow]
<1>1. /\ \A x \in Attempt : attempt'[x] = IF x = a THEN r ELSE attempt[x]
      /\ attempt' \in [Attempt -> AttemptRow]
      /\ ~ attempt[a].payable /\ mpOrder[a] = "none"
  BY DEF Inv, Typed, AttemptsShaped
<1>2. Forward
  BY <1>1 DEF Forward
<1>3. TypeOK' /\ PaidOrderBacked' /\ ApprovedHasOrder'
  <2>1. TypeOK'
    BY <1>1 DEF AttemptRow, Inv, CheckoutAgrees, TypeOK
  <2>2. PaidOrderBacked' /\ ApprovedHasOrder'
    BY <1>1 DEF Inv, CheckoutAgrees, PaidOrderBacked, Approved, ApprovedHasOrder
  <2>3. QED
    BY <2>1, <2>2
<1>4. ConvertedHasOrder'
  <2> SUFFICES ASSUME NEW d \in Cart
               PROVE  cart'[d] = "converted" <=> cashOrders'[d] > 0 \/ OrdersOf(d)' # {}
    BY DEF ConvertedHasOrder
  <2>1. \A x \in Attempt : x \in OrdersOf(d)' <=> x \in OrdersOf(d)
    BY <1>1 DEF OrdersOf, AttemptsOf
  <2>2. OrdersOf(d)' = OrdersOf(d)
    <3>1. OrdersOf(d) \subseteq Attempt /\ OrdersOf(d)' \subseteq Attempt
      BY DEF OrdersOf, AttemptsOf
    <3>2. QED
      BY <2>1, <3>1
  <2>3. QED
    BY <2>2 DEF Inv, CheckoutAgrees, ConvertedHasOrder
<1>5. AttemptsShaped' /\ PaymentsShaped'
  BY <1>1, NullsAssumption DEF Inv, AttemptsShaped, PaymentsShaped, Exists, PaidBy
<1>6. QED
  BY <1>1, <1>2, <1>3, <1>4, <1>5 DEF CheckoutAgrees

(* A storefront session inserts its attempt, or uses the one of its key again, and *)
(* goes on to call the provider.                                                   *)
LEMMA SessionInsertKeeps ==
  ASSUME Inv, NEW w \in Worker, NEW a \in Attempt, SessionInsert(w, a)
  PROVE  Inv'
<1>1. PICK c \in Cart \ KioskCart : c = txn[w].cart
  BY TransactionType, Kinds DEF SessionInsert, Reading, At
<1> DEFINE r == [status |-> "initiated", cart |-> c, payId |-> NoPayment, payable |-> FALSE]
           t == [op |-> "session", step |-> "call", attempt |-> a]
<1>2. /\ r \in AttemptRow /\ r.status = "initiated" /\ r.cart = c /\ r.payId = NoPayment
      /\ ~ r.payable
  BY DEF AttemptRow, AttemptStatus
<1>3. /\ t \in Transaction /\ t.op # "cash" /\ t.op = "session" /\ t.attempt = a
      /\ attempt[a].cart \in Cart => Agrees(t)
      /\ attempt'[a].cart \in Cart => Agrees(t)'
  BY DEF Transaction, Calling, Agrees, At
<1>4. /\ attempt' = IF Exists(a) THEN attempt ELSE [attempt EXCEPT ![a] = r]
      /\ txn' = [txn EXCEPT ![w] = t] /\ attempt[a].cart \in {NoCart, c}
      /\ UNCHANGED <<cart, cashOrders, mpOrder, payment, notices, persisted>>
  BY <1>1 DEF SessionInsert
<1> HIDE DEF r, t
<1>5. CASE Exists(a)
  <2>1. attempt[a].cart = c
    BY <1>4, <1>5 DEF Inv, AttemptsShaped, Exists
  <2>2. Agrees(t)
    BY <1>3, <2>1
  <2>3. UNCHANGED attempt
    BY <1>4, <1>5
  <2>4. persisted \subseteq persisted' /\ persisted' \subseteq notices
    BY <1>4 DEF Inv, CheckoutAgrees, TypeOK
  <2>5. QED
    BY <1>3, <1>4, <2>2, <2>3, <2>4, MoveKeeps
<1>6. CASE ~ Exists(a)
  <2>1. attempt' = [attempt EXCEPT ![a] = r]
    BY <1>4, <1>6
  <2>2. /\ Forward /\ CheckoutAgrees' /\ AttemptsShaped' /\ PaymentsShaped'
        /\ attempt' \in [Attempt -> AttemptRow]
    BY <1>2, <1>4, <1>6, <2>1, InsertKeeps
  <2>3. Agrees(t)'
    BY <1>2, <1>3, <2>1 DEF Inv, Typed
  <2>4. Typed'
    BY <1>3, <1>4, <2>2 DEF Inv, Typed
  <2>5. TransactionsAgree'
    BY <1>3, <1>4, <2>2, <2>3, TransactionsStay
  <2>6. CashCounted'
    BY <1>3, <1>4, CashStays
  <2>7. QED
    BY <2>2, <2>4, <2>5, <2>6 DEF Inv
<1>7. QED
  BY <1>5, <1>6

(* The transactions while a step outside the server's transactions is taken. *)
LEMMA OutsideStays ==
  ASSUME Inv, Forward, UNCHANGED <<txn, cashOrders>>
  PROVE  TransactionsAgree' /\ CashCounted'
<1>1. TransactionsAgree'
  <2> SUFFICES ASSUME NEW v \in Worker PROVE Agrees(txn[v])'
    BY DEF TransactionsAgree
  <2>1. PICK u \in Transaction : u = txn[v] /\ Agrees(u)
    BY TransactionType
  <2>2. Agrees(u)'
    BY <2>1, AgreesStays
  <2>3. txn'[v] = u
    BY <2>1
  <2>4. QED
    BY <2>2, <2>3 DEF Agrees, At
<1>2. CashCounted'
  BY DEF Inv, CashCounted, CashTxns
<1>3. QED
  BY <1>1, <1>2

(* A kiosk session commits its attempt in one transaction. *)
LEMMA KioskSessionKeeps ==
  ASSUME Inv, NEW a \in Attempt, NEW c \in Cart, KioskSession(a, c)
  PROVE  Inv'
<1> DEFINE r == KioskAttempt(c)
<1>1. /\ r \in AttemptRow /\ r.status = "processing" /\ r.cart = c /\ r.payId = NoPayment
      /\ r.payable
  BY DEF AttemptRow, AttemptStatus, KioskAttempt
<1>2. /\ ~ Exists(a) /\ attempt' = [attempt EXCEPT ![a] = r]
      /\ UNCHANGED <<cart, cashOrders, mpOrder, payment, notices, persisted, txn>>
  BY DEF KioskSession
<1> HIDE DEF r
<1>3. /\ Forward /\ CheckoutAgrees' /\ AttemptsShaped' /\ PaymentsShaped'
      /\ attempt' \in [Attempt -> AttemptRow]
  BY <1>1, <1>2, InsertKeeps
<1>4. TransactionsAgree' /\ CashCounted'
  BY <1>2, <1>3, OutsideStays
<1>5. Typed'
  BY <1>2, <1>3 DEF Inv, Typed
<1>6. QED
  BY <1>3, <1>4, <1>5 DEF Inv

(* The provider makes a payment or settles one, and announces it. *)
LEMMA ProviderKeeps ==
  ASSUME Inv, NEW p \in Payment, NEW s \in ProviderStatus,
         ProviderSettles(p, s) \/ \E a \in Attempt : Pay(p, a, s)
  PROVE  Inv'
<1>1. PICK r \in PaymentRow :
        /\ payment' = [payment EXCEPT ![p] = r] /\ r.status = s
        /\ r.attempt \in Attempt /\ attempt[r.attempt].payable
        /\ payment[p].status # "absent" => r.attempt = payment[p].attempt
        /\ payment[p].status \in {"approved", "refunded"} => s \in {"approved", "refunded"}
  <2>1. CASE ProviderSettles(p, s)
    <3> DEFINE r == [payment[p] EXCEPT !.status = s]
    <3>1. payment[p] \in PaymentRow /\ payment[p].status # "absent"
      BY <2>1 DEF ProviderSettles, Inv, Typed
    <3>2. r \in PaymentRow /\ r.status = s /\ r.attempt = payment[p].attempt
      BY <3>1 DEF PaymentRow
    <3>3. payment' = [payment EXCEPT ![p] = r]
      BY <2>1 DEF ProviderSettles, Notify
    <3>4. r.attempt \in Attempt /\ attempt[r.attempt].payable
      BY <3>1, <3>2 DEF Inv, PaymentsShaped
    <3> HIDE DEF r
    <3>5. QED
      BY <2>1, <3>2, <3>3, <3>4 DEF ProviderSettles
  <2>2. ASSUME NEW a \in Attempt, Pay(p, a, s)
        PROVE  \E r \in PaymentRow :
                 /\ payment' = [payment EXCEPT ![p] = r] /\ r.status = s
                 /\ r.attempt \in Attempt /\ attempt[r.attempt].payable
                 /\ payment[p].status # "absent" => r.attempt = payment[p].attempt
                 /\ payment[p].status \in {"approved", "refunded"} =>
                      s \in {"approved", "refunded"}
    <3> DEFINE r == [status |-> s, attempt |-> a]
    <3>1. r \in PaymentRow /\ r.status = s /\ r.attempt = a
      BY DEF PaymentRow
    <3>2. payment[p].status = "absent" /\ attempt[a].payable
      BY <2>2 DEF Pay, Unpaid
    <3>3. payment' = [payment EXCEPT ![p] = r]
      BY <2>2 DEF Pay
    <3> HIDE DEF r
    <3>4. QED
      BY <3>1, <3>2, <3>3
  <2>3. QED
    BY <2>1, <2>2
<1>2. /\ UNCHANGED <<cart, cashOrders, attempt, mpOrder, persisted, txn>>
      /\ notices' = notices \cup {<<p, s>>}
  BY DEF ProviderSettles, Pay, Notify
<1>3. /\ \A q \in Payment : payment'[q] = IF q = p THEN r ELSE payment[q]
      /\ payment' \in [Payment -> PaymentRow] /\ s # "absent"
  BY <1>1 DEF Inv, Typed, ProviderStatus
<1>4. Forward
  BY <1>1, <1>2, <1>3 DEF Forward
<1>5. CheckoutAgrees'
  <2>1. TypeOK'
    BY <1>2, <1>3 DEF Inv, CheckoutAgrees, TypeOK, PaymentRow
  <2>2. PaidOrderBacked'
    BY <1>2, <1>4, ApprovalsStay DEF Inv, CheckoutAgrees, PaidOrderBacked
  <2>3. ApprovedHasOrder' /\ ConvertedHasOrder'
    BY <1>2 DEF Inv, CheckoutAgrees, ApprovedHasOrder, ConvertedHasOrder, OrdersOf, AttemptsOf
  <2>4. QED
    BY <2>1, <2>2, <2>3 DEF CheckoutAgrees
<1>6. Typed'
  BY <1>2, <1>3 DEF Inv, Typed
<1>7. AttemptsShaped'
  <2>1. \A a \in Attempt : attempt[a].payId # NoPayment =>
          PaidBy(attempt[a].payId, a)'
    <3>1. \A a \in Attempt : attempt[a].payId \in Payment \cup {NoPayment}
      BY DEF Inv, CheckoutAgrees, TypeOK
    <3>2. \A a \in Attempt, q \in Payment : PaidBy(q, a) => PaidBy(q, a)'
      BY <1>4, ApprovalsStay
    <3>3. \A a \in Attempt : attempt'[a] = attempt[a]
      BY <1>2
    <3>4. QED
      BY <1>1, <1>3, <3>1, <3>3 DEF Inv, AttemptsShaped, PaidBy
  <2>2. QED
    BY <1>2, <2>1 DEF Inv, AttemptsShaped, Exists, PaidBy
<1>8. PaymentsShaped'
  <2>1. \A e \in notices : e[1] \in Payment
    BY DEF Inv, CheckoutAgrees, TypeOK
  <2>2. \A e \in notices' : payment'[e[1]].status # "absent"
    BY <1>1, <1>2, <1>3, <2>1 DEF Inv, PaymentsShaped
  <2>3. QED
    BY <1>1, <1>2, <1>3, <2>2 DEF Inv, PaymentsShaped
<1>9. TransactionsAgree' /\ CashCounted'
  BY <1>2, <1>4, OutsideStays
<1>10. QED
  BY <1>5, <1>6, <1>7, <1>8, <1>9 DEF Inv

(* The counter's refund leaves an order an order. *)
LEMMA CounterRefundKeeps ==
  ASSUME Inv, NEW a \in Attempt, CounterRefund(a)
  PROVE  Inv'
<1>1. /\ mpOrder[a] = "paid" /\ mpOrder' = [mpOrder EXCEPT ![a] = "refunded"]
      /\ UNCHANGED <<cart, cashOrders, attempt, payment, notices, persisted, txn>>
  BY DEF CounterRefund
<1>2. /\ mpOrder' \in [Attempt -> {"none", "paid", "refunded"}]
      /\ \A x \in Attempt : mpOrder'[x] # "none" <=> mpOrder[x] # "none"
  BY <1>1 DEF Inv, CheckoutAgrees, TypeOK
<1>3. Forward
  BY <1>1, <1>2 DEF Forward
<1>4. CheckoutAgrees'
  <2>1. TypeOK' /\ PaidOrderBacked' /\ ApprovedHasOrder'
    BY <1>1, <1>2 DEF Inv, CheckoutAgrees, TypeOK, PaidOrderBacked, Approved, ApprovedHasOrder
  <2>2. \A d \in Cart : OrdersOf(d)' = OrdersOf(d)
    BY <1>1, <1>2 DEF OrdersOf, AttemptsOf
  <2>3. ConvertedHasOrder'
    BY <1>1, <2>2 DEF Inv, CheckoutAgrees, ConvertedHasOrder
  <2>4. QED
    BY <2>1, <2>3 DEF CheckoutAgrees
<1>5. Typed' /\ AttemptsShaped' /\ PaymentsShaped'
  BY <1>1, <1>2 DEF Inv, Typed, AttemptsShaped, PaymentsShaped, PaidBy, Exists
<1>6. TransactionsAgree' /\ CashCounted'
  BY <1>1, <1>3, OutsideStays
<1>7. QED
  BY <1>4, <1>5, <1>6 DEF Inv

(* Every step keeps the inductive invariant. *)
LEMMA InvNext == Inv /\ [Next]_vars => Inv'
<1> SUFFICES ASSUME Inv, [Next]_vars PROVE Inv'
  OBVIOUS
<1>1. ASSUME NEW w \in Worker, NEW c \in Cart, SessionRead(w, c) \/ CashRead(w, c)
      PROVE  Inv'
  BY <1>1, ReadsKeep
<1>2. ASSUME NEW w \in Worker, NEW a \in Attempt,
             SessionInsert(w, a) \/ KioskCancelRead(w, a) \/ ReconcileRead(w, a)
      PROVE  Inv'
  BY <1>2, SessionInsertKeeps, ReadsKeep, ReconcileKeeps
<1>3. ASSUME NEW w \in Worker, SessionAttach(w) \/ KioskCancelCommit(w) \/ CashCommit(w)
      PROVE  Inv'
  BY <1>3, StatusKeeps, CashCommitKeeps
<1>4. ASSUME NEW w \in Worker, NEW e \in notices, Webhook(w, e)
      PROVE  Inv'
  BY <1>4, WebhookKeeps, EndsKeep, WebhookCommitKeeps DEF Webhook
<1>5. ASSUME NEW w \in Worker,
             ReconcileFetch(w) \/ ReconcileNothing(w) \/ ReconcileWrite(w) \/ ReconcileCommit(w)
      PROVE  Inv'
  BY <1>5, ReconcileKeeps, EndsKeep, ReconcileCommitKeeps
<1>6. ASSUME NEW w \in Worker, Rollback(w)
      PROVE  Inv'
  BY <1>6, EndsKeep
<1>7. ASSUME NEW a \in Attempt, NEW c \in Cart, KioskSession(a, c)
      PROVE  Inv'
  BY <1>7, KioskSessionKeeps
<1>8. ASSUME NEW p \in Payment, NEW s \in ProviderStatus,
             ProviderSettles(p, s) \/ \E a \in Attempt : Pay(p, a, s)
      PROVE  Inv'
  BY <1>8, ProviderKeeps
<1>9. ASSUME NEW a \in Attempt, CounterRefund(a)
      PROVE  Inv'
  BY <1>9, CounterRefundKeeps
<1>10. CASE UNCHANGED vars
  <2>1. UNCHANGED <<cart, cashOrders, attempt, mpOrder, payment, notices, persisted, txn>>
    BY <1>10 DEF vars
  <2>2. CheckoutAgrees' /\ Typed' /\ AttemptsShaped' /\ PaymentsShaped'
    BY <2>1
    DEF Inv, CheckoutAgrees, TypeOK, PaidOrderBacked, Approved, ApprovedHasOrder,
        ConvertedHasOrder, OrdersOf, AttemptsOf, Typed, AttemptsShaped, PaymentsShaped, PaidBy,
        Exists
  <2>3. Forward
    BY <2>1 DEF Forward
  <2>4. TransactionsAgree' /\ CashCounted'
    BY <2>1, <2>3, OutsideStays
  <2>5. QED
    BY <2>2, <2>4 DEF Inv
<1>11. QED
  BY <1>1, <1>2, <1>3, <1>4, <1>5, <1>6, <1>7, <1>8, <1>9, <1>10 DEF Next

-----------------------------------------------------------------------------
(* Theorems *)

(* With late, repeated and reordered notifications, the job, sessions, kiosks and  *)
(* cash orders racing on the same carts, rows and open transactions agree as Inv   *)
(* says: what each has read still supports what it will write.                     *)
THEOREM InvAlways == Spec => []Inv
<1>1. QED
  BY InvInit, InvNext, PTL DEF Spec

(* A paid order is backed by an approval of its own attempt, an approval and its   *)
(* order become visible together, and a cart is converted exactly when an order    *)
(* was made from it (payment-webhook, reconciliation and order services), whatever *)
(* the number of carts, attempts, payments and open transactions.                  *)
THEOREM CheckoutAgreesAlways == Spec => []CheckoutAgrees
<1>1. Inv => CheckoutAgrees
  BY DEF Inv
<1>2. QED
  BY <1>1, InvAlways, PTL

(* An approved attempt is overwritten by nothing but a transaction that read it    *)
(* or its cart before it was approved: the priority check holds back every later   *)
(* notification, and a converted cart every later session.                         *)
THEOREM ApprovedLeftAlways == Spec => ApprovedLeftByStaleReader
<1>1. ASSUME Inv, [Next]_vars, NEW a \in Attempt,
             attempt[a].status = "approved", attempt'[a].status # "approved"
      PROVE  \E w \in Worker : StaleReader(w, a)
  <2>1. attempt \in [Attempt -> AttemptRow]
    BY <1>1 DEF Inv, Typed
  <2>2. ASSUME NEW w \in Worker, NEW x \in Attempt, SessionInsert(w, x)
        PROVE  FALSE
    BY <1>1, <2>1, <2>2 DEF SessionInsert, Exists
  <2>3. ASSUME NEW w \in Worker, SessionAttach(w)
        PROVE  StaleReader(w, a)
    <3>1. PICK u \in Transaction : u = txn[w] /\ At(u, "session", "call")
      BY <1>1, <2>3, TransactionType DEF SessionAttach, At
    <3>2. u.attempt = a
      BY <1>1, <2>1, <2>3, <3>1, Kinds DEF SessionAttach, Calling
    <3>3. txn[w] # Idle /\ txn'[w] = Idle
      BY <1>1, <2>3 DEF SessionAttach, Done, Idle, Inv, Typed
    <3>4. QED
      BY <3>1, <3>2, <3>3 DEF StaleReader, At
  <2>4. ASSUME NEW w \in Worker, KioskCancelCommit(w)
        PROVE  StaleReader(w, a)
    <3>1. PICK u \in Transaction : u = txn[w] /\ Agrees(u) /\ u.op = "kioskCancel"
      BY <1>1, <2>4, TransactionType DEF KioskCancelCommit
    <3>2. u.attempt = a
      BY <1>1, <2>1, <2>4, <3>1, Kinds DEF KioskCancelCommit
    <3>3. txn[w] # Idle /\ txn'[w] = Idle
      BY <1>1, <2>4 DEF KioskCancelCommit, Done, Idle, Inv, Typed
    <3>4. QED
      BY <3>1, <3>2, <3>3 DEF StaleReader, Agrees
  <2>5. ASSUME NEW w \in Worker, NEW e \in notices, WebhookCommit(w, e)
        PROVE  StaleReader(w, a)
    <3>1. PICK u \in Transaction : u = txn[w] /\ Agrees(u) /\ At(u, "webhook", "locked")
      BY <1>1, <2>5, TransactionType DEF WebhookCommit, At
    <3>2. u.attempt = a /\ u.status # "approved"
      <4>1. /\ attempt' = [attempt EXCEPT ![u.attempt] =
                            [attempt[u.attempt] EXCEPT !.status = u.status, !.payId = e[1]]]
            /\ u.attempt \in Attempt
        BY <1>1, <2>1, <2>5, <3>1, Kinds DEF WebhookCommit, At
      <4>2. QED
        BY <1>1, <2>1, <4>1 DEF AttemptRow
    <3>3. u.status \in Lookup /\ u.seen \in Seen /\ ~ outOfOrder(u.status, u.seen)
      BY <3>1, Kinds DEF Agrees, At, Writing
    <3>4. u.seen # "approved"
      BY <3>2, <3>3 DEF outOfOrder, priority, Lookup
    <3>5. txn[w] # Idle /\ txn'[w] = Idle
      BY <1>1, <2>5 DEF WebhookCommit, Done, Idle, Inv, Typed
    <3>6. QED
      BY <3>1, <3>2, <3>4, <3>5 DEF StaleReader, At
  <2>6. ASSUME NEW w \in Worker, ReconcileCommit(w)
        PROVE  StaleReader(w, a)
    <3>1. PICK u \in Transaction : u = txn[w] /\ Agrees(u) /\ At(u, "reconcile", "locked")
      BY <1>1, <2>6, TransactionType DEF ReconcileCommit, At
    <3>2. u.attempt = a
      BY <1>1, <2>1, <2>6, <3>1, Kinds DEF ReconcileCommit, At
    <3>3. txn[w] # Idle /\ txn'[w] = Idle
      BY <1>1, <2>6 DEF ReconcileCommit, Done, Idle, Inv, Typed
    <3>4. QED
      BY <3>1, <3>2, <3>3 DEF StaleReader, Agrees, At
  <2>7. ASSUME NEW x \in Attempt, NEW c \in Cart, KioskSession(x, c)
        PROVE  FALSE
    BY <1>1, <2>1, <2>7 DEF KioskSession, Exists
  <2>8. attempt' # attempt
    BY <1>1
  <2>9. ASSUME NEW w \in Worker
        PROVE  /\ CashCommit(w) => attempt' = attempt
               /\ \A c \in Cart : SessionRead(w, c) \/ CashRead(w, c) => attempt' = attempt
               /\ \A x \in Attempt :
                    KioskCancelRead(w, x) \/ ReconcileRead(w, x) => attempt' = attempt
    BY DEF CashCommit, SessionRead, CashRead, KioskCancelRead, ReconcileRead
  <2>10. ASSUME NEW w \in Worker, NEW e \in notices, Webhook(w, e)
         PROVE  attempt' = attempt \/ WebhookCommit(w, e)
    BY <2>10 DEF Webhook, WebhookFetch, WebhookRead, WebhookDuplicate, WebhookIgnore, WebhookWrite
  <2>11. ASSUME NEW w \in Worker,
                \/ ReconcileFetch(w) \/ ReconcileNothing(w) \/ ReconcileWrite(w) \/ Rollback(w)
         PROVE  attempt' = attempt
    BY <2>11 DEF ReconcileFetch, ReconcileNothing, ReconcileWrite, Rollback
  <2>12. /\ \A x \in Attempt : CounterRefund(x) => attempt' = attempt
         /\ \A p \in Payment, s \in ProviderStatus :
              /\ ProviderSettles(p, s) => attempt' = attempt
              /\ \A x \in Attempt : Pay(p, x, s) => attempt' = attempt
    BY DEF CounterRefund, ProviderSettles, Pay
  <2>13. CASE Next
    BY <2>2, <2>3, <2>4, <2>5, <2>6, <2>7, <2>8, <2>9, <2>10, <2>11, <2>12, <2>13 DEF Next
  <2>14. QED
    BY <1>1, <2>8, <2>13 DEF vars
<1>2. Inv /\ [Next]_vars =>
        \A a \in Attempt :
          attempt[a].status = "approved" /\ attempt'[a].status # "approved" =>
            \E w \in Worker : StaleReader(w, a)
  BY <1>1
<1>3. QED
  BY <1>2, InvAlways, PTL DEF Spec, ApprovedLeftByStaleReader

=============================================================================
