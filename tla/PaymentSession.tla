--------------------------- MODULE PaymentSession ---------------------------
(***************************************************************************)
(* PaymentSessionService.create in detail: requests for a Mercado Pago     *)
(* session, with their idempotency keys, as the storefront repeats them.   *)
(* prepare is one transaction that claims the key, looks for an active     *)
(* attempt of the cart and inserts one; the provider is called with no     *)
(* transaction open; a last transaction attaches the preference and        *)
(* completes the key, or the catch block fails it.                         *)
(*                                                                         *)
(* payment_attempts is unique on (tenant, idempotency_key), so an attempt  *)
(* is named by its key.  A preference is named by the number of the call   *)
(* that made it.  Requests that a check refuses change nothing.            *)
(***************************************************************************)
EXTENDS Idempotency, Quote, FiniteSets

CONSTANTS
    Cart,      \* carts with something payable in them
    Key,       \* values of the Idempotency-Key header
    Worker,    \* requests served at the same time
    Line,      \* bound: cart lines, a unit price and a quantity
    MaxLines,  \* bound: lines of a cart
    MaxCalls   \* bound: preferences the provider makes

ASSUME ResponseAssumption == Response = 1 .. MaxCalls
ASSUME NothingAssumption == Nothing \notin Body \union Response
ASSUME NothingIsNoCart == Nothing \notin Cart
\* Quantities are positive in cart.rules.ts, and no line costs less than nothing.
ASSUME LineAssumption == Line \subseteq [unit : Nat, qty : Nat \ {0}]
ASSUME BoundsAssumption == MaxLines \in Nat /\ MaxCalls \in Nat

VARIABLES
    record,    \* idempotency_records of scope payment-session:<cart>, by key
    attempt,   \* payment_attempts, by key
    request,   \* the request each worker serves
    made,      \* how many preferences the provider has made
    answers,   \* the answers that reached a client
    quote,     \* the last cart the provider priced: its lines, the error in cents,
               \* and whether its last line has room to take the error back
    ended      \* the keys whose attempt was ever turned down, for AnswerIsFinal

vars == <<record, attempt, request, made, answers, quote, ended>>

AttemptRow == [status : {"none", "initiated", "processing", "ended"},
               cart : Cart \union {Nothing}]
NoAttempt == [status |-> "none", cart |-> Nothing]
Idle == [step |-> "idle"]

Init ==
    /\ record = [c \in Cart |-> [k \in Key |-> NoRecord]]
    /\ attempt = [k \in Key |-> NoAttempt]
    /\ request = [w \in Worker |-> Idle]
    /\ made = 0
    /\ answers = {}
    /\ quote = [lines |-> 0, gap |-> 0, room |-> TRUE]
    /\ ended = {}

-----------------------------------------------------------------------------

\* Every cart within the bounds, with every discount it can have.
Quotes ==
    UNION {UNION {{[lines |-> n, gap |-> Gap(c, d, up), room |-> LastHasRoom(c, d)] :
                     d \in 0 .. Subtotal(c), up \in SUBSET (1 .. n - 1)} :
                    c \in [1 .. n -> Line]} :
             n \in 1 .. MaxLines}

\* Slip: nobody looks for a session that is already open.
NeverActive(c) == FALSE

\* findActiveByCartId
Active(c) ==
    \E k \in Key : attempt[k].cart = c /\ attempt[k].status \in {"initiated", "processing"}

\* An open transaction that has inserted or updated the record holds its key:
\* every other insert or update of the row waits for its end.
KeyBusy(c, k) ==
    \E w \in Worker : /\ request[w].step = "prepared"
                      /\ request[w].cart = c /\ request[w].key = k

Answer(c, k, b, response) == [cart |-> c, key |-> k, body |-> b, response |-> response]

\* prepare, replayed: the stored body is the answer.
Replay(w, c, k, b) ==
    /\ request[w] = Idle
    /\ ~ KeyBusy(c, k)
    /\ ClaimOutcome(record[c][k], b) = "replayed"
    /\ answers' = answers \union {Answer(c, k, b, record[c][k].response)}
    /\ UNCHANGED <<record, attempt, request, made, quote, ended>>

\* prepare up to findActiveByCartId, none found; nothing is committed yet.  A
\* conflict, a claim in progress or an active attempt ends in a rollback.
Prepare(w, c, k, b) ==
    /\ request[w] = Idle
    /\ ~ KeyBusy(c, k)
    /\ ClaimOutcome(record[c][k], b) = "claimed"
    /\ ~ Active(c)
    /\ made < MaxCalls
    /\ request' = [request EXCEPT ![w] =
                     [step |-> "prepared", cart |-> c, key |-> k, body |-> b]]
    /\ UNCHANGED <<record, attempt, made, answers, quote, ended>>

\* createPaymentAttempt and the commit; a row of the same key and cart is used
\* again as it is, one of another cart is refused.
CommitPrepare(w) ==
    LET r == request[w]
    IN  /\ r.step = "prepared"
        /\ attempt[r.key].cart \in {Nothing, r.cart}
        /\ attempt' = IF attempt[r.key] = NoAttempt
                      THEN [attempt EXCEPT ![r.key] = [status |-> "initiated", cart |-> r.cart]]
                      ELSE attempt
        /\ record' = [record EXCEPT ![r.cart][r.key] = ClaimedRecord(@, r.body)]
        /\ request' = [request EXCEPT ![w].step = "calling"]
        /\ UNCHANGED <<made, answers, quote, ended>>

\* createPreference prices the cart, and the provider makes a preference.
CallSucceeds(w) ==
    /\ request[w].step = "calling"
    /\ made < MaxCalls
    /\ made' = made + 1
    /\ quote' \in Quotes
    /\ request' = [request EXCEPT ![w] =
                     [step |-> "called", cart |-> @.cart, key |-> @.key,
                      body |-> @.body, response |-> made + 1]]
    /\ UNCHANGED <<record, attempt, answers, ended>>

\* The provider failed or its answer was malformed.
CallFails(w) ==
    /\ request[w].step = "calling"
    /\ request' = [request EXCEPT ![w].step = "failing"]
    /\ UNCHANGED <<record, attempt, made, answers, quote, ended>>

\* attachPreference and complete, in one transaction, then the answer.
Attach(w) ==
    LET r == request[w]
    IN  /\ r.step = "called"
        /\ ~ KeyBusy(r.cart, r.key)
        /\ attempt' = [attempt EXCEPT ![r.key].status = "processing"]
        /\ record' = [record EXCEPT ![r.cart][r.key] = CompletedRecord(@, r.response)]
        /\ answers' = answers \union {Answer(r.cart, r.key, r.body, r.response)}
        /\ request' = [request EXCEPT ![w] = Idle]
        /\ UNCHANGED <<made, quote, ended>>

\* The last transaction failed; the catch block runs.
AttachFails(w) ==
    /\ request[w].step = "called"
    /\ request' = [request EXCEPT ![w] = [step |-> "failing", cart |-> @.cart,
                                          key |-> @.key, body |-> @.body]]
    /\ UNCHANGED <<record, attempt, made, answers, quote, ended>>

\* It committed, but the connection was lost before the server heard of it: the
\* catch block runs all the same.
AttachUnacknowledged(w) ==
    LET r == request[w]
    IN  /\ r.step = "called"
        /\ ~ KeyBusy(r.cart, r.key)
        /\ attempt' = [attempt EXCEPT ![r.key].status = "processing"]
        /\ record' = [record EXCEPT ![r.cart][r.key] = CompletedRecord(@, r.response)]
        /\ request' = [request EXCEPT ![w] = [step |-> "failing", cart |-> r.cart,
                                              key |-> r.key, body |-> r.body]]
        /\ UNCHANGED <<made, answers, quote, ended>>

\* The catch block fails the key; the attempt stays as it is.
FailKey(w) ==
    LET r == request[w]
    IN  /\ r.step = "failing"
        /\ ~ KeyBusy(r.cart, r.key)
        /\ record' = [record EXCEPT ![r.cart][r.key] = FailedRecord(@)]
        /\ request' = [request EXCEPT ![w] = Idle]
        /\ UNCHANGED <<attempt, made, answers, quote, ended>>

\* The process ends, the transaction rolls back, or the catch block fails too.
Abandon(w) ==
    /\ request[w] # Idle
    /\ request' = [request EXCEPT ![w] = Idle]
    /\ UNCHANGED <<record, attempt, made, answers, quote, ended>>

\* Thirty seconds after the claim.
LockLapses(c, k) ==
    /\ record[c][k].lock = "held"
    /\ record' = [record EXCEPT ![c][k].lock = "free"]
    /\ UNCHANGED <<attempt, request, made, answers, quote, ended>>

\* A notification of the provider turns an attempt down (rejected or failed).  An
\* approval converts the cart, which refuses every later session: see Checkout.
AttemptEnds(k) ==
    /\ attempt[k].status = "processing"
    /\ attempt' = [attempt EXCEPT ![k].status = "ended"]
    /\ ended' = ended \union {k}
    /\ UNCHANGED <<record, request, made, answers, quote>>

Ask(w, c, k, b) == Replay(w, c, k, b) \/ Prepare(w, c, k, b)

Serve(w) == \/ CommitPrepare(w) \/ CallSucceeds(w) \/ CallFails(w)
            \/ Attach(w) \/ AttachFails(w) \/ AttachUnacknowledged(w) \/ FailKey(w) \/ Abandon(w)

Next ==
    \/ \E w \in Worker, c \in Cart, k \in Key, b \in Body : Ask(w, c, k, b)
    \/ \E w \in Worker : Serve(w)
    \/ \E c \in Cart, k \in Key : LockLapses(c, k)
    \/ \E k \in Key : AttemptEnds(k)

Spec == Init /\ [][Next]_vars

-----------------------------------------------------------------------------
(* Properties *)

\* Records, attempts and requests keep their shapes.
TypeOK ==
    /\ record \in [Cart -> [Key -> Record]]
    /\ attempt \in [Key -> AttemptRow]
    /\ \A w \in Worker : request[w].step \in
         {"idle", "prepared", "calling", "called", "failing"}
    /\ made \in 0 .. MaxCalls
    /\ quote.lines \in 0 .. MaxLines
    /\ ended \subseteq Key
    /\ answers \subseteq [cart : Cart, key : Key, body : Body, response : Response]

\* "Idempotency key was already used for a different request.": a key's answers
\* all belong to one request body.
KeyHasOneBody ==
    \A x, y \in answers : x.cart = y.cart /\ x.key = y.key => x.body = y.body

\* The answer stored for a key is replaced only once the attempt that it opened
\* was turned down: over lost answers, lapsed locks and crashes a client that
\* repeats its request opens no second session beside the first, although
\* complete and fail update by id, without looking at the state.  Once turned
\* down, the row of the attempt stays "ended" while it is used again, so that
\* Active does not see a repetition in progress and two of them may be answered.
AnswerIsFinal ==
    [][\A c \in Cart, k \in Key :
         record[c][k].response # Nothing /\ k \notin ended =>
           record'[c][k].response = record[c][k].response]_vars

\* A payable attempt and its answer appear together, also when the server does
\* not learn that its last transaction committed.
PayableHasAnswer ==
    \A k \in Key : attempt[k].status = "processing" =>
        record[attempt[k].cart][k].response # Nothing

\* Keys, attempts and answers agree: an answer belongs to one request, and
\* nothing can be paid that was not answered for.
AnswersAgree == TypeOK /\ KeyHasOneBody /\ PayableHasAnswer

\* Spreading the discount (buildMercadoPagoPreferenceItems) rounds every line but
\* the last, and the last takes the difference back.  The provider is asked for the
\* total of the cart whenever the last line has room for it, as any dish has; where
\* it has not (a free or nearly free last line, or one that the discount nearly
\* covers), the charge is off by at most half a cent for each other line.
QuoteWithinCents ==
    /\ quote.gap \in Nat
    /\ quote.room => quote.gap = 0
    /\ 2 * quote.gap <= Max({0, quote.lines - 1})
=============================================================================
