# A verification project for komanda

komanda is a multi-tenant ordering system for restaurants and shops: a storefront
and a kiosk where customers fill carts and pay with Mercado Pago or in cash, an
admin panel where staff run orders, a kitchen ticket queue served by print agents,
and cron jobs that expire, reconcile and notify. All state is in PostgreSQL; every
service runs in READ COMMITTED transactions, and what keeps concurrent requests
apart is a handful of conventions: version columns, unique keys, leases, idempotency
records. This project models those conventions and what they are for.

Paths below are relative to `src/src/` of the repository.

## 1. Inventory

| Part | State | Operations | Hard behaviour | What makes it correct |
|---|---|---|---|---|
| orders (`features/orders`) | `orders`, `order_events`, `cash_register_movements`, `discount_redemptions` | create (4 entry points), transition, collect-cash, refund-cash, cancel-unpaid, expiry job | read without lock, decide, UPDATE guarded by `version` | drawer, ticket, coupon and events agree with the order; paid prevails; expired orders settle |
| payments (`features/payments`) | `payment_attempts`, `webhook_events`, `carts.status`, `integration_accounts` | session, kiosk session and cancellation, webhook, reconciliation | repeated and reordered notifications, provider calls between transactions | no paid order without approval; an approval leads to an order; one order per cart; the preference adds up to the cart up to its rounding |
| idempotency (`lib/idempotency`) | `idempotency_records` | claim, complete, fail | locks that run out under a slow request, lost commit acknowledgements | one request per key, one answer per key |
| printing (`features/printing`) | `print_jobs`, `print_job_attempts`, `print_agents`, `print_agent_pairings` | enqueue, claim, result, enrol, revoke, pair | leases, late and repeated results, revocation during a call | a result settles its own attempt; every ticket is printed |
| outbox and WhatsApp (`lib/outbox`, `features/orders/application/dispatch-*.job.ts`) | `outbox_events` | append, claim, recheck, send, publish, release | overlapping cron invocations, crash between send and publish | no message without a reason, none twice without trouble, none lost |
| storefront (`features/shop`, `features/cart`, `app/(shop)/checkout`) | React state of the basket and the pay page, local storage, `carts`, `cart_lines` | add, remove, coupon, validate, order, pay, restore | answers that arrive after the page moved on, effects that copy state both ways, a coupon or price that changes under the cart | the customer pays what was shown; a double tap orders once; the page is never locked |
| catalogue (`features/catalog`, `features/discounts`) | `catalog_*`, `discounts`, `catalog_search_entries` | create, edit, publish, archive, delete a category with its contents, sell | two editors, forms older than sales, checks and writes in separate statements, a copy after the commit | no lost edit; nothing on sale in a deleted category; no unit sold twice |
| screens (`features/orders/web`, the event stream) | `order_events`, the stream's cursor, rows on the screen | stream, poll, GET, press, cancel | polls that overlap, answers out of order, streams dropped or refused | a screen that is behind catches up or says that it is not connected; staff never act on what they do not see |
| business (`features/identity`, `members`, `provisioning`, `tenancy`, `search`, OAuth) | users, sessions, links, memberships, tenant, account, listing | register, verify, log in, reset, invite, change roles, remove, activate, connect, delete | READ COMMITTED checks that cross, links opened twice | an owner remains; a reset ends old sessions; a link works once; the directory lists open businesses |
| till (`orders/domain/order-scheduling.ts`, `features/commerce`, `features/billing`) | opening hours, slots on a screen, `cash_shifts`, documents | offer, order for later, sell, collect, refund, open and close a shift, expire | lists that age, counting while others commit, numbers without a lock | an offered slot is honoured; pickup before expiry; expected cash is explained |
| routes, analytics, rate limiters | none of their own | parse, authorize, report | none that the models could tell apart | guards are in the models that depend on them; the rest is not modelled |

Parts interact through the database and through calls inside one transaction: order
services call the print queue, billing, discounts and the outbox; the webhook and the
reconciliation call the order repository; the WhatsApp jobs read the order again
before sending; pages call the services and apply the answers later; Mercado Pago,
Meta, the mail service and the print agents are external programs.

`PROJECT.json` lists the components with their status and, under "hazards", what in
this code is hard to test, line by line, with the properties that watch it.

## 2. Modules

| Module | Models | Composes |
|---|---|---|
| `OrderRules` | the status tables and, for each order service, the predicate its early returns leave to the update | |
| `Orders` | the order services and the expiry job racing on the rows | `OrderRules`, `TillLedger` (refinement) |
| `TillLedger` | abstract: the cash of an order as one atomic ledger | |
| `OrdersProofs` | the inductive invariant of `Orders`, its safety theorems and action properties, the refinement of `TillLedger` | `Orders` |
| `Checkout` | cart to order: sessions, notifications, reconciliation, kiosk, cash orders | |
| `Idempotency` | one idempotency record | |
| `Quote` | the lines of a payment preference: the discount spread over them in cents | |
| `PaymentSession` | `PaymentSessionService.create`, request by request | `Idempotency`, `Quote` |
| `PrintQueue` | the ticket queue and its agents | |
| `WhatsAppOutbox` | the two dispatch jobs | |
| `CartLines` | pure operations on the basket's lines and the server's snapshots of them | |
| `Storefront` | the customer's browser and the cart service | `CartLines` |
| `Catalog` | editors, the catalogue and discount services, the search copy, sales | |
| `Board` | the order log, the event stream, the staff board, the status and success pages | |
| `Business` | users, sessions, links, members, the tenant, its account and its listing | |
| `Till` | slots, orders for later, counter sales, documents, shifts, expiry, over a clock | |
| `CheckoutProofs` | what a transaction has read supports what it will write | `Checkout` |
| `PaymentProofs` | one open prepare and one caller per key; the pages know carts at their versions, and the totals of lines by induction; a quote is exact, or off by half a cent a line | `PaymentSession`, `Storefront` |
| `PrintProofs` | copies of a ticket accounted for by leases | `PrintQueue` |
| `WhatsAppProofs` | deliveries of a message reserved by expiries and errors | `WhatsAppOutbox` |
| `TillProofs` | rows in time, dense numbers, shifts accounted for | `Till` |
| `BusinessProofs` | what a request checked holds, or it was crossed | `Business` |
| `BackOfficeProofs` | copies of rows are older or equal; the board's stream skips no event | `Catalog`, `Board` |
| `MC*` | instances for TLC | |

### How code becomes steps

A step is the largest piece of a transaction that no other transaction can be seen to
interrupt. In `Orders` a request is a read (`Begin...`, the snapshot goes to
`txn[w].seen`) and a commit (`Commit...`, the guarded UPDATE and everything the
transaction writes after it: from that UPDATE on it holds the row lock). In `Checkout`
the provider call and the UPDATE of `payment_attempts` are extra cuts, and row locks
and unflushed unique keys are explicit (`Locked`, `Claimed`). In `PaymentSession`,
`PrintQueue` and `WhatsAppOutbox` each transaction is a step, because the code itself
commits between them. `Catalog`, `Business` and `Till` split a request where a check
and its write are separate statements at READ COMMITTED (`Check`/`Commit`,
`CloseRead`/`CloseWrite`), with the row locks that the code's own UPDATEs take; `Catalog`
has a further step for the copy to the search index. `Rollback`, `Abandon`, `Crash`,
`JobCrash`, `Lose` and `Fail` end a transaction, a process or a call anywhere. Requests
that a check refuses change nothing and have no action, unless the page reacts.

A page is its state and its calls. In `Storefront` and `Board` a call is sent with what
the closure captured, served, and applied to whatever the page has become; an effect
that React runs after a render is a step of its own (`due`), and leaving the page
unmounts it (`live`), so that late answers are dropped exactly where the code drops them.

Data is abstracted to what the properties tell apart. In `Orders` amounts are left out (a
movement always carries the order's total); in `Storefront` they are small numbers, and in
`Quote` cents. A name, an image or a description is one value that an edit changes; a
phone number or a PIN is the outcome of its check; a time is the outcome of the
comparison the code makes (a lease is live or expired, a link young, old or expired),
except in `Till`, where the comparisons are the question and a clock runs.

Variables that record history and no table holds (`shelf`, `late`, `adrift`, `troubled` of
`Catalog`; `memberGap`, `listGap` of `Business`; `missed` of `Board`; `spare` of
`WhatsAppOutbox`; `lapses`, `paper` of `PrintQueue`; `ended` of `PaymentSession`) only
serve the properties; no guard reads them.

Definitions marked "Slip" are plausible mistakes in the definition that follows them.
No specification uses them; they are there to show, by substitution, that the property
named in `PROJECT.json` would notice.

## 3. Runs

| Run | Instance | Distinct states | Shows |
|---|---|---|---|
| `orders` | 1 order, 2 request workers, 1 cron worker | 24,775 | all properties of `Orders`, `ExpiredOrdersSettle` under `FairSpec` |
| `checkout` | a storefront cart, a kiosk cart, 2 attempts, 1 payment, 2 workers | 555,929 | safety of `Checkout` |
| `checkout_live` | 1 cart, 1 attempt, 2 payments, 1 worker | 30,257 | an approved payment leads to an order |
| `checkout_orders` | 1 cart, 1 attempt, 1 payment, 2 workers | | violation, see findings |
| `print` | 1 ticket, 2 agents (one revocable), 3 attempts | 125,738 | `PrintQueue`, and every ticket is printed |
| `whatsapp` | one event of each job, 2 invocations, 2 attempts, 1 slow lease | 849,488 | `WhatsAppOutbox`, and every event is closed |
| `session` | 2 carts, 2 keys, 2 bodies, 2 workers, 3 calls of the provider; carts of up to 4 lines of 0, 1 or 3 cents | 1,079,836 | `PaymentSession` and `Quote` |
| `storefront` | 1 product with an add-on, 2 prices, a coupon with 2 values, 2 calls in flight, 2 carts, 4 clicks, 1 fault or edit | 325,558 | `Storefront` |
| `catalog` | 2 editors, 2 requests, 2 categories, an item, a combo, a group, a coupon, 3 clicks, 1 fault | 1,263,513 | `Catalog` |
| `board` | 2 orders, one screen at a time, 2 GETs, 2 polls, 2 changes, 1 fault | 417,239 | `Board` |
| `business` | 2 users, one of them with another business, 2 requests under way, 3 in all | 508,060 | `Business` |
| `till` | 2 orders, 2 shifts, 2 transactions, a day of 8 points, 4 points of time, 4 events, 3 calendars | 2,513,177 | `Till` |

What the invariants with a collective name hold together: `CounterSafe` is the kitchen
gate, no unpaid progress, no paid order cancelled, one event per version and the coupon
that follows the order; `CheckoutAgrees`, `TicketsAgree`, `EventsAgree` and
`AnswersAgree` join the safety invariants of their modules with the types, and
`VisitsAgree`, `StockAgrees`, `BoardAgrees`, `MembersAgree` and `ShiftsAgree` the types
with the property named beside them in the module. `EnqueuedIsPrinted` and
`QueuedIsClosed` say that something happens and is not undone.

Several properties have the form "wrong only for a named reason" (`ReprintNeedsLapse`,
`ApprovedLeftByStaleReader`, `OnlyLiveCategoriesSell`, `SearchFollowsMenu`,
`RecordFollowsShelf`, `BoardLagsForAReason`, `OwnerlessNeedsCrossing`,
`OldPasswordNeedsRace`, `ListedIsOpen`, `ExpectedCashIsExplained`). The code does allow
those states; the property says through which interleaving only, so that any other way in
is noticed. The reasons are recorded by history variables in the step that causes them.

Why the bounds are enough. Rows of different orders, tickets and events do not interact
(every statement is by id), except in the expiry batch and in the order of the queue, so
one row with several actors reaches the races (a full batch of other orders that starves
one is not exercised); `whatsapp` has two events, one of each job. Two requests and the
job are one more than any pairwise race needs. In `print`, three attempts allow a printed
but unacknowledged first attempt, a lost second and a successful third; two workers and
two keys are what a race on a key and a race between keys need. `checkout_live` has one
worker because its question is about deliveries that overtake each other over time, and
two payments because a rejected payment can be followed by an approved one on the same
preference. Four lines are the fewest where rounding leaves the last line short by more
than half a cent. In `storefront`, two calls and two carts let the answers of two carts
cross on one page, and four clicks reach an order with a coupon after going back once; the
coupon begins at the higher of its values (`MCSpec`), so that editing it raises a total.
In `catalog` a stock of one unit is the last unit; in `board` two changes and two polls
let a poll overtake another; in `business` two requests are what a crossing needs, and the
third comes before it or after. In `session` three calls are the fewest in which an
attempt is turned down and two requests repeat it. In `till` four points of time hold a
slot, its grace and the end of a shift, and the calendars are unset, split with a closed
gap, and shut. Versions and counters are bounded by the finite life of an order.

Symmetry is used over workers, slots, keys, carts, bodies, editors, orders and shifts
where a module treats them alike, and only in runs without liveness properties.

Bounds that the code does not have are constants: `MaxCash`, `MaxAttempts` of
`PrintQueue` (faults stop after that many attempts), `MaxSlow`, `MaxCalls`, `MaxClicks`,
`MaxEvents`, `MaxChanges`, `MaxFaults`, `MaxBegins`, `MaxTime`, `MaxCarts`, `MaxUnits`,
`MaxLines`, and in `WhatsAppOutbox` one invocation that never crashes stands for the fresh
invocations the scheduler starts.

Deadlock is checked in `print` and `whatsapp`. It is off elsewhere, because there the
system really comes to rest: every order delivered or cancelled, every cart converted,
every preference made, every click spent.

### Fairness

* `Orders`: the scheduler keeps calling the expiry endpoint, so the scan is weakly fair;
  the job's own transactions do not fail for ever (strong fairness of re-read and
  commit, since a rollback can always come first). Nothing is assumed of requests.
* `Checkout`: Mercado Pago repeats a notification until it gets a 2xx answer, so the
  delivery of an approval is strongly fair; a transaction does not stay open for ever
  (statement and transaction timeouts). Nothing is assumed of other notifications, the
  reconciliation, the kiosk or the customers.
* `PrintQueue`: an agent polls, prints and reports as long as it is served; time passes.
  Deaths, losses and revocations are faults and are not assumed away, only bounded.
* `WhatsAppOutbox`: the scheduler keeps starting invocations, a living one goes on, with
  success or with an error; time passes. Meta may fail every time.
* `Storefront`: a call is answered or fails, React runs its effects, a redirect is
  followed. Nothing is assumed of the customer or of the owner.
* `Board`: `EventSource` reconnects by itself as long as its requests are not answered
  with an error (after one it is closed for good, and nothing reopens it), timers fire, a
  call that was sent is read and answered or fails, and an open transaction ends. Nobody
  has to press a button.

## 4. Findings

* `checkout_orders`: the check "Cart is already converted to an order." takes no lock;
  two cash requests with different idempotency keys both read the cart open and both make
  an order of it. An approved notification makes the same unlocked read.

Known divergences between what the code says and what it does. The models contain them
as they are, and the properties are worded around them:

* The shares of a discount in a preference are said to add up so that the "total sum
  matches cart.total exactly" and "without penny drift"
  (`tests/unit/mercadopago-preference-discount.test.ts:35` and `:74`). The last line takes
  back what rounding the others lost, and is cut at zero and at what it costs
  (`payment-session.service.ts:212`): where it has no room for that, the preference asks
  for up to half a cent for each other line more or less than the cart's total.
  `LastHasRoom` is the condition under which `QuoteWithinCents` claims the exact sum; the
  instance has carts of both kinds. (With 10.00 off, three dishes of 10.00 and a free drink
  after them are charged 20.01.)
* refund-cash tests for tender "cash" and says "Solo se permite devolver órdenes cobradas
  en efectivo.", but Mercado Pago orders are stored with the default tender "cash"
  (`order.repository.ts:384`), so it pays them out of the drawer.
* A provider failure leaves the attempt "initiated" (`payment-session.service.ts:441`),
  and every retry ends in "A payment session already exists for this cart.", although
  `tests/integration/payment-lifecycle.integration.test.ts:46` calls the error retryable.
* The reconciliation sets an order to paid without a version guard, so the `Orders`
  properties about cancelled orders speak of counter orders; a webhook or kiosk
  cancellation that read an attempt before its approval can overwrite it, so
  `ApprovedPaymentConverts` speaks of the cart. A session that repeats the key of a
  turned-down attempt overwrites its status in the same way, whatever it has become since
  the session read the cart (`integration.repository.ts:276`). Orders made by the
  reconciliation get no kitchen ticket.
* An attempt that was turned down is used again by the next request with its key, and its
  status stays as it was (`payment-session.service.ts` `prepare`), so the search for an
  active attempt of the cart does not see a repetition under way. When the key's lock
  runs out during the call, two repetitions may both be answered and the later answer
  replaces the earlier one: `AnswerIsFinal` speaks of keys whose attempt was never turned
  down.
* The event stream sends a "reset" event so that "the client" can "resync"
  (`orders/events/route.ts:78`); the board has no listener for it. Nor does the board open
  a stream again whose request was answered with an error (a session that ended, a failure
  of the database or of a proxy): `onerror` shows "reconnecting" until the page is loaded
  again (`AdminOrdersLive.tsx:468`).
* The success page is told "pending" once the attempt of its order is no longer approved,
  even if the order has been delivered (`order-status/route.ts:68`).
* "El horario programado debe ser al menos 15 minutos en el futuro."
  (`order-scheduling.ts:97`) is said from ten minutes on.
* The expected cash of a shift counts orders by their creation
  (`cash-shift.service.ts:144`): an order that is collected or refunded on the other side
  of an end of the shift makes it differ from the drawer. It also counts the orders paid
  through Mercado Pago, whose tender is the default "cash", and a refund of one of these
  takes cash that never came in.
* The last owner (`member.service.ts:208`) is counted without a lock: two owners who
  leave together leave none.
* A combo's sale deducts none of its contents, and saving an item's form restores the
  stock of its opening (`CatalogEditor.tsx:678`). A status button of an item, also the one
  that archives it with its category, sends the status alone (`CatalogEditor.tsx:242`,
  `:170`), but `catalogItemPatchSchema` (`catalog.rules.ts:76`) keeps its defaults under
  `.partial()`: the item is no longer counted, its stock becomes zero, and so it sells
  without limit. (The same defaults take its option groups away and reset its type and
  its place in the list, which no property here tells apart.)
* The wrong codes of a printer's pairing are counted in a transaction that the refusal
  rolls back (`print-pairing.service.ts:64`).

## 5. Proofs

Each theorem holds for every value of the constants that the named assumptions of its
module allow; nothing else is assumed. They are proved in one way: an inductive invariant
`Inv` (`IndInv` for `Orders`, `BoardInv`, `StorefrontInv`), a lemma that the initial
states have it, a lemma for each action or group of actions that keeps it, and the theorem
read off it. The properties themselves are seldom inductive. TLC checked each invariant on
the instance of the run before it was proved.

| Module | Proved | Assumptions on the constants |
|---|---|---|
| `OrdersProofs` | `TypeOK`, `SnapshotsFresh`, `DrawerMatchesOrder`, `CounterSafe`, `PaidPrevails`, `CancelledIsFinal`, the refinement `ImplementsLedger` | the job's workers are workers, batches are positive, `SettingsAssumption` |
| `CheckoutProofs` | `CheckoutAgrees`, `ApprovedLeftByStaleReader` | kiosk carts are carts, finitely many open transactions, `MaxCash` is a number, the two nulls are no values |
| `PaymentProofs` | of `PaymentSession`: `AnswersAgree`, `AnswerIsFinal`, `QuoteWithinCents` | responses are the numbers of the calls, bounds are numbers, `Nothing` is no value, a line costs cents and has a positive quantity |
| `PaymentProofs` | of `Storefront`: `PaysWhatWasShown`, `VisitsAgree`, `TicketSurvivesValidation` | products are numbers, a price exists and every price is positive, add-ons cost something, slots are numbers, bounds and the coupon's values are numbers |
| `PrintProofs` | `TicketsAgree`, `ReprintNeedsLapse`, `PrintedIsFinal` | revocable agents are agents, a positive number of attempts, `NoAgent` is no agent |
| `WhatsAppProofs` | `EventsAgree`, `RepeatNeedsTrouble`, `ClosedIsFinal` | events are numbers, of one job each, a positive attempt limit, `NoWorker` is no worker |
| `TillProofs` | `PickupBeforeExpiry`, `NumbersNeverClash`, `ShiftsAgree`, `OfferIsHonoured` | positive times, finitely many orders, the server's notice is at most the page's |
| `BusinessProofs` | `MembersAgree`, `OldPasswordNeedsRace`, `ListedIsOpen`, `LinkSpentOnce` | finitely many users, at least one |
| `BackOfficeProofs` | of `Catalog`: `StockAgrees`, `OnlyLiveCategoriesSell`, `SearchFollowsMenu`, `NoLostEdit` | a category, finitely many items and combos, rows of different tables are different, the nulls are no values |
| `BackOfficeProofs` | of `Board`: `BoardAgrees`, `NoBlindAdvance` | the tracked order is an order, polls read a positive number of rows, bounds are numbers |

The assumptions are what the database gives (rows and transactions are finite in number,
null is no value) or constants of the code (`Lead <= Notice` is ten minutes against
twenty).

**Orders.** `IndInv == TypeOK /\ SnapshotsFresh /\ \A o \in Order : RowOK(o)`. A commit
writes what was decided on the snapshot, so it needs `SnapshotsFresh` to know that the
guards (`Decided`) hold of the row it changes; `SnapshotsFresh` in turn needs that a row
never changes without a new version (`RowsAdvance`). `RowOK` joins the row-wise
properties with what an id without a row looks like. Creations go by `InsertKeepsRows`,
guarded updates by `CommitSeesRow` and `CommitKeepsRows`, everything else by the frame
lemmas. For the action properties and the refinement the common lemma is
`StepChangesRow`: a step changes at most one row, and that row is born, set to paid by the
reconciliation, or updated under its guard. `RowChangeMoves` shows that each case leaves
the order's money alone or moves it as the ledger allows, and `DrawerFollowsMoney` that
the drawer is a function of the money, so the ledger's second variable follows.

**Checkout.** A transaction reads, calls the provider and writes in separate steps, so
`Agrees` says of each open transaction that what it has read supports what it will write:
a webhook that found an approval at the provider will find it there again, one that holds
the attempt's lock knows whether its status is out of order, and a cart found converted
stays converted. Of a session's call it says only that its attempt has a cart: what
becomes of the attempt meanwhile is overwritten, which is why `ApprovedLeftByStaleReader`
admits a session on a cart that was read before. `CashCounted` makes the bound on cash
orders hold when several are under way.

**PaymentSession.** The record's lock runs out, and `complete` and `fail` write without
looking at its state; what keeps answers apart is the attempt. `OneCaller` says that until
the attempt of a key is turned down a single request calls for it and nothing is stored
yet, `KeysHeldOnce` the same of the open `prepare`, `CommittedOwns` and `AnswersBound`
that a key that was claimed keeps its body. The condition "until it is turned down" came
from the proof: without it `AnswerIsFinal` is false, which TLC confirmed with three calls
(section 4).

**Quote.** `QuoteWithinCents` is about carts with any number of lines, any prices and any
discount up to the subtotal, whichever way the halves of a cent go. The units of a line
cost what the line costs (`UnitsCost`), so the provider is asked for the subtotal less the
parts of the discount that the lines got (`AskedIs`). Up to line `m`, the last one aside,
those parts are the discount's part of the lines' costs within `m` half cents
(`SpreadIsClose`): a rounded share is off by half a cent at most, and cutting it to what
its line costs does not take it further off, because the exact share is no more than that
(`ShareIsClose`). The last line takes what is left of the discount. Only when that is
negative, or more than the line costs, is anything lost, and then the exact share lies
between, so no more is lost than the other lines were off by; if the exact share and what
it leaves of the line are both as large as that (`LastHasRoom`), nothing is cut and nothing
lost (`GapIs`).

**PrintQueue and WhatsAppOutbox.** Counting copies needs a budget. `CopiesAccounted`: the
copies on paper, the claims that an agent may still print and, if the queue may grant
another claim without a lapse, one more, are at most one plus the lapses. In
`DeliveriesReserved` the expiry of a lease and the catch block pay for the next delivery
in the same way. `ClaimsRecorded`, `OutcomesClaimed`, `AttemptsBegun` and
`SuccessHasPaper` connect a late report to the claim it belongs to; `PrintedStaysPrinted`
and `ClosedStaysClosed` give the step parts of the two liveness properties.

**Till.** `OrdersTimed` puts the moments of an order in their order and before the clock;
`NumbersDense` bounds every number by the number of documents, so the highest plus one is
free for the one sale that `CounterHeldOnce` lets hold the counter. `ShiftsAccounted`
holds a shift's expected cash as the size of a set of orders, whoever was paid, that
agrees with the paid ones on every order whose moments do not straddle the shift;
movements of other orders may come and go. `AskedFromThePage` carries the page's checks to
the server's.

**Business.** Requests check in one statement and write in another. `PeopleCalls` (a
compared password is the user's password, or the request was crossed by the reset),
`MemberCalls` (the requester is an owner and another owner remains) and `ShopCalls` (the
listing will be what the reads say) say that what a request has checked holds until it
writes, or it is marked as crossed; the lemmas `UsersMove`, `SessionsMove`, `LinksMove`,
`StaffMoves`, `ShopMoves` and `CallsMove` say what a step can do to each table, so that
each part of the invariant has a few cases and not one per action.

**Catalog.** The browser names a version in If-Match, so everything rests on `Copy`: what
a screen or a request holds of a row is older than the row, or has its version and then
its content. The one exception is a coupon whose button was pressed: the panel shows the
other state before the answer, so two states of one version exist (`Alike`), and
`NoLostEdit` needs that the request of such a button carries the row as it was shown. A
category's deletion and an item's publication each check in one statement and write in
another: `DeletionsCounted` and `PublicationsChecked` say that what was counted still
holds at the write, or that what entered since is marked late, and `ArchivedAreEmpty` and
`SoldInOpened` are what the two leave behind. `RecordAgrees` says of the items not adrift
that their record is the shelf, counted or not. `VersionPins` turns equal versions into
equal content at the commit, and `CommitIs` with `Onward` says what a commit changes, so
that each part of the invariant has one lemma for it.

**Board.** The specification of the module is `BoardSpec`, since `BackOfficeProofs`
extends it beside `Catalog`. An event counts as heard of up to a mark
`h` that no variable holds: `BoardInv` says that there is one. Past the mark the pipe skips
no number (`NoGaps`): when a poll sends numbers, those under the ones it read are in the
pipe already, although polls overlap and an older one may move the cursor back.
`Told` says of every order that was not missed that its row on the screen is fresh, or
that its news is past the mark, asked for or read; taking an event moves the mark by at most
one (`HandleStays`). The mark of a stream that was refused stays where it is: what the
board missed is past it and would be sent to the next connection. It rests on `LogOK`: one
transaction at a time holds the counter row, so the numbers become visible in their order
and without holes. `RowStays` is the case of
an answer that may be older than the row it replaces. `PaidOnce` covers the cash dialog,
which puts a version on the screen without its stage: what is older than the collection
was unpaid.

**Storefront.** The specification is `StorefrontSpec`, for the same reason. The customer
sees one copy of a cart, the server charges another. `Known` says of every cart that a
page shows or an answer carries that it is the server's at that version, and `CartsMove`
that a cart keeps its lines and changes its coupon and discount only with a new version.
So the total that `Submit` puts into its call is that of the version it names
(`ShowsTotal`), and the version check of the services does the rest; a discount above the
shown one needs a coupon for cash that was hidden. `Fits` says that a validated cart has
the lines that were sent. `VisitsOK` holds one submission of a visit by `submittingRef`,
which is reset by that submission's answer alone. Steps of the browser that submit nothing
go by one lemma (`QuietStep`), answers of the server by another (`Answering`).

The sums over lines are folds of the community modules, which are defined by a choice
among functions on sets. `FoldExists` shows that there is such a function and the lemmas
ending in `Runs`, with `SnapshotsJoin`, that the fold is the last of its running totals.
Induction along these totals is by the least counterexample (`HasLeast`, `Climb`: a set of
numbers has a least member), which needs no operator as a parameter. `RequestAddsUp` is
the result for `cartLinesToSnapshots`: for baskets of any length the request has the units
of the basket and costs what the basket adds up to.

Only model-checked:

* liveness (`ExpiredOrdersSettle`, `ApprovedPaymentConverts`, `EnqueuedIsPrinted`,
  `QueuedIsClosed`, `CheckoutNeverStuck`, `BoardCatchesUp`, `CustomerIsTold`), which
  rests on fairness. The step parts of two of them are proved, as `PrintedIsFinal` and
  `ClosedIsFinal`.

## 6. Plan

Done: `Orders` with proofs, `Checkout`, `PaymentSession` with `Quote`, `PrintQueue`,
`WhatsAppOutbox`, `Storefront` with `CartLines`, `Catalog`, `Board`, `Business`, `Till`.

Proved: what section 5 lists: every invariant and every property of steps that the runs
check.

Next, in this order:

1. Pairing of print agents; the limits of coupons per customer and in all; the
   reconciliation of the search index; the refresh of OAuth tokens.
2. Abstract specifications: a lease with at-least-once work, implemented by both
   `PrintQueue` and `WhatsAppOutbox`; a register that is written once per key,
   implemented by `PaymentSession`.

## 7. Not modelled

Analytics only reads. Routes parse, authorize and render; their guards are in the models
where a property depends on them. Rate limiters are counters in one process that refuse
requests. The generic `OutboxDispatcher` is never instantiated. Encryption, object
storage, images and audit records carry no state that a property here depends on.
Pairing of print agents, the reconciliation of the search index, OAuth token refresh, the
dates, minimum and usage limits of coupons, and the fees and taxes of a payment are left
out so far. Layout, wording and the drawing of charts and maps are not behaviour.
