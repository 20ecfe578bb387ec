-------------------------------- MODULE Till --------------------------------
(***************************************************************************)
(* The cash register: the pickup times a customer is offered, the cash     *)
(* orders made from them, sales over the counter with their numbered       *)
(* documents, sales paid through Mercado Pago, and the shifts whose        *)
(* expected cash the code computes from the orders.                        *)
(*                                                                         *)
(* Every order costs one unit.  A shift's expected cash is counted above   *)
(* its opening balance.  Every order here has tender "cash": those paid    *)
(* through Mercado Pago are stored with it too.  Orders paid by card at    *)
(* the counter neither enter a shift's cash nor can be collected or        *)
(* refunded in cash.  Times are points of a clock that starts at 1; the    *)
(* database runs at READ COMMITTED, so a transaction that decides on what  *)
(* it read and writes later has two steps.                                 *)
(***************************************************************************)
EXTENDS Integers, FiniteSets, FiniteSetsExt

CONSTANTS
    Orders, Shifts, Workers,
    Lead,       \* the server takes a pickup time from now + Lead on (10 minutes)
    Notice,     \* the page offers times from now + Notice on (20 minutes)
    Grid,       \* distance of the times on offer (15 minutes)
    Window,     \* time to pay an order (60 minutes)
    Grace,      \* time to pay after the pickup time (30 minutes)
    DayLength,  \* length of a day
    DaysAhead,  \* days ahead that can be chosen (7)
    Schedules,  \* bound: opening hours the tenant may set, by weekday
    MaxTime,    \* bound: the last point of the clock
    MaxEvents   \* bound: clicks, requests and changes of the opening hours

ASSUME TillAssumption ==
    /\ {Lead, Notice, Grid, Window, Grace, DayLength, DaysAhead} \subseteq Nat \ {0}
    /\ Lead <= Notice
    /\ MaxTime \in Nat \ {0} /\ MaxEvents \in Nat
    /\ IsFiniteSet(Orders)

VARIABLES
    now,      \* the clock
    hours,    \* the tenant's opening hours
    page,     \* the list of pickup times on the customer's screen: when and from which hours
    asked,    \* the cash order the customer has sent, if it is on the way
    orders,   \* orders with their movements and document
    shifts,   \* cash_shifts
    txn,      \* open transactions
    events    \* how many of MaxEvents have happened

vars == <<now, hours, page, asked, orders, shifts, txn, events>>

None == 0
NoOrder == [st |-> "none", made |-> None, pickup |-> None, due |-> None,
            paid |-> None, back |-> None, done |-> None, doc |-> None, online |-> FALSE]
NoRequest == [sent |-> FALSE]
Left == [at |-> None]   \* the customer has left the page
NoShift == [st |-> "none", place |-> "none", from |-> None, to |-> None, expected |-> 0]
Idle == [op |-> "idle"]

Init ==
    /\ now = 1
    /\ hours \in Schedules
    /\ page = [at |-> 1, hours |-> hours]
    /\ asked = NoRequest
    /\ orders = [o \in Orders |-> NoOrder]
    /\ shifts = [s \in Shifts |-> NoShift]
    /\ txn = [w \in Workers |-> Idle]
    /\ events = 0

-----------------------------------------------------------------------------
(* Pickup times *)

\* getZonedParts
Day(t) == t \div DayLength
Weekday(t) == Day(t) % 7
Clock(t) == t % DayLength

\* Opening hours were set, and some day has a range.
hasOpeningHours(h) == h.set /\ \E d \in 0 .. 6 : h.ranges[d] # {}

\* Open at t: the tenant's ranges, both ends included, or from 9:00 to 23:30 (of
\* 48 half hours).  A range that closes after midnight contains no time.
Open(h, t) ==
    IF ~ h.set THEN DayLength * 18 <= Clock(t) * 48 /\ Clock(t) * 48 <= DayLength * 47
    ELSE \E r \in h.ranges[Weekday(t)] : r[1] <= Clock(t) /\ Clock(t) <= r[2]

\* Slip: the page and the server ask for different notice.
SlipNotice(t) == t >= now + Notice

\* minTimeMs
EarlyEnough(t) == t >= now + Lead

\* validateScheduledPickupTime, with the hours h.
validateScheduledPickupTime(h, t) ==
    /\ EarlyEnough(t)
    /\ t <= now + DaysAhead * DayLength
    /\ h.set => hasOpeningHours(h)
    /\ Open(h, t)

\* generateScheduledDaysAndSlots, at time at: points of the grid, of the first
\* DaysAhead days that have any.
Slots(at, h) ==
    LET points == {t \in at + Notice .. at + DaysAhead * DayLength :
                       t % Grid = 0 /\ Open(h, t)}
        first(t) == Cardinality({Day(u) : u \in {v \in points : Day(v) < Day(t)}})
    IN  IF h.set /\ ~ hasOpeningHours(h) THEN {}
        ELSE {t \in points : first(t) < DaysAhead}

-----------------------------------------------------------------------------
(* The customer *)

Event == events < MaxEvents /\ events' = events + 1

Unused(o) == orders[o].st = "none"

\* scheduledDays is computed again when an answer brings opening hours: never
\* because time passes.
ShowSlots ==
    /\ asked = NoRequest
    /\ page \notin {Left, [at |-> now, hours |-> hours]}
    /\ page' = [at |-> now, hours |-> hours]
    /\ Event
    /\ UNCHANGED <<now, hours, asked, orders, shifts, txn>>

\* handleSubmit checks the chosen time once more, on the page's clock and hours.
Submit ==
    /\ asked = NoRequest /\ page # Left
    /\ \E t \in Slots(page.at, page.hours) \union {None} :
         /\ t # None => validateScheduledPickupTime(page.hours, t)
         /\ asked' = [sent |-> TRUE, pickup |-> t]
    /\ Event
    /\ UNCHANGED <<now, hours, page, orders, shifts, txn>>

\* Slip: an hour from now, whatever was scheduled.
SlipPaymentExpiresAt(pickup) == now + Window

paymentExpiresAt(pickup) ==
    IF pickup = None THEN now + Window
    ELSE Max({now + Window, pickup + Grace})

\* Slip: document numbers do not wait for the order counter.
SlipCounterFree == TRUE

\* nextCounter updates the tenant's counter row, which stays locked until the
\* transaction ends: one order at a time.
CounterFree == \A w \in Workers : txn[w].op # "direct"

\* The server's checks of the time.
Acceptable == asked.pickup = None \/ validateScheduledPickupTime(hours, asked.pickup)

CreateCashOrder(o) ==
    /\ asked # NoRequest
    /\ Unused(o)
    /\ CounterFree
    /\ Acceptable
    /\ orders' = [orders EXCEPT ![o] =
         [NoOrder EXCEPT !.st = "pending", !.made = now, !.pickup = asked.pickup,
                         !.due = paymentExpiresAt(asked.pickup), !.done = now]]
    /\ asked' = NoRequest
    /\ page' = Left
    /\ UNCHANGED <<now, hours, shifts, txn, events>>

\* OrderSchedulingError
RefuseTime ==
    /\ asked # NoRequest
    /\ ~ Acceptable
    /\ asked' = NoRequest
    /\ UNCHANGED <<now, hours, page, orders, shifts, txn, events>>

-----------------------------------------------------------------------------
(* The counter *)

Begin(w, t) == /\ txn[w] = Idle
               /\ Event
               /\ txn' = [txn EXCEPT ![w] = t]
               /\ UNCHANGED <<now, hours, page, asked, orders, shifts>>

End(w) == txn' = [txn EXCEPT ![w] = Idle]

\* getNextDocumentNumber
NextDocumentNumber == 1 + Max({orders[o].doc : o \in Orders} \union {0})

\* Up to the number of the document: a sale is paid at once and gets a number,
\* is left to be collected ("pending", or "verification_required", which is
\* collected alike), or was paid online.
SaleInsert(w, o, pay) ==
    /\ Unused(o)
    /\ \A v \in Workers : txn[v].op = "direct" => txn[v].order # o
    /\ CounterFree
    /\ Begin(w, [op |-> "direct", order |-> o, at |-> now, pay |-> pay,
                 number |-> IF pay = "paid" THEN NextDocumentNumber ELSE None])

\* createDirectFromItems
DirectInsert(w, o) == \E pay \in {"paid", "pending"} : SaleInsert(w, o, pay)

\* receiveMercadoPagoWebhook: createFromCartSnapshot without a tender, and no
\* document.
OnlineInsert(w, o) == SaleInsert(w, o, "online")

\* The number is unique in the database.
NumberTaken(n) == n # None /\ \E o \in Orders : orders[o].doc = n

SaleCommit(w) ==
    LET t == txn[w]
    IN  /\ t.op = "direct"
        /\ ~ NumberTaken(t.number)
        /\ orders' = [orders EXCEPT ![t.order] =
             [NoOrder EXCEPT !.st = IF t.pay = "pending" THEN "pending" ELSE "paid",
                             !.made = t.at, !.doc = t.number, !.done = now,
                             !.paid = IF t.pay = "pending" THEN None ELSE t.at,
                             !.online = (t.pay = "online")]]
        /\ End(w)
        /\ UNCHANGED <<now, hours, page, asked, shifts, events>>

Here == "here"           \* a shift opened for the tenant's location
Anywhere == "anywhere"   \* a shift opened without a location

CollectAllowed(o) ==
    /\ orders[o].st = "pending"
    /\ orders[o].due # None => now < orders[o].due

\* "Solo se permite devolver órdenes cobradas en efectivo": the tender is "cash",
\* whoever took the money.
RefundAllowed(o) == orders[o].st = "paid"

\* CollectCashService and RefundCashService read the order ...
MoveRead(w, o, op) ==
    /\ IF op = "collect" THEN CollectAllowed(o) ELSE RefundAllowed(o)
    /\ Begin(w, [op |-> op, order |-> o, at |-> now, seen |-> orders[o]])

\* ... and write on condition that it is still the one they read.  The movement
\* names the shift that is open, if any; nothing reads that name.
MoveCommit(w) ==
    LET t == txn[w]
    IN  /\ t.op \in {"collect", "refund"}
        /\ orders[t.order] = t.seen
        /\ orders' = [orders EXCEPT ![t.order] =
             IF t.op = "collect"
             THEN [@ EXCEPT !.st = "paid", !.paid = t.at, !.done = now]
             ELSE [@ EXCEPT !.st = "refunded", !.back = t.at, !.done = now]]
        /\ End(w)
        /\ UNCHANGED <<now, hours, page, asked, shifts, events>>

\* The expiry job cancels an order that nobody paid in time.
Expire(o) ==
    /\ orders[o].st = "pending"
    /\ orders[o].due # None /\ orders[o].due <= now
    /\ orders' = [orders EXCEPT ![o].st = "cancelled", ![o].done = now]
    /\ UNCHANGED <<now, hours, page, asked, shifts, txn, events>>

-----------------------------------------------------------------------------
(* Shifts *)

\* open: no shift of the tenant may be open ...
OpenRead(w, place) ==
    /\ \A s \in Shifts : shifts[s].st # "open"
    /\ Begin(w, [op |-> "open", place |-> place, at |-> now])

\* ... but the insert only meets the unique index, which ignores shifts that
\* have no location.
IndexAllows(place) ==
    place = Anywhere \/ \A s \in Shifts : shifts[s].st = "open" => shifts[s].place # place

\* openedAt is the database's now(), the start of the transaction.
OpenInsert(w, s) ==
    LET t == txn[w]
    IN  /\ t.op = "open"
        /\ shifts[s].st = "none"
        /\ IndexAllows(t.place)
        /\ shifts' = [shifts EXCEPT ![s] =
             [NoShift EXCEPT !.st = "open", !.place = t.place, !.from = t.at]]
        /\ End(w)
        /\ UNCHANGED <<now, hours, page, asked, orders, events>>

\* Slip: the day's orders, not the shift's.
SlipCashSales(s, to) == Cardinality({o \in Orders : orders[o].st = "paid" /\ orders[o].made <= to})

\* Orders with tender "cash" that are paid now and were created in the shift: not
\* those that were paid in it, and those paid online as well.
cashSales(s, to) ==
    Cardinality({o \in Orders : /\ orders[o].st = "paid"
                                /\ shifts[s].from <= orders[o].made
                                /\ orders[o].made <= to})

\* close: the shift is open, and the sales are added up ...
CloseRead(w, s) ==
    /\ shifts[s].st = "open"
    /\ Begin(w, [op |-> "close", shift |-> s, to |-> now, expected |-> cashSales(s, now)])

\* ... and written whatever has become of the shift.
CloseWrite(w) ==
    LET t == txn[w]
    IN  /\ t.op = "close"
        /\ shifts' = [shifts EXCEPT ![t.shift].st = "closed", ![t.shift].to = t.to,
                                    ![t.shift].expected = t.expected]
        /\ End(w)
        /\ UNCHANGED <<now, hours, page, asked, orders, events>>

\* A conflict, a number that is taken, a lost connection.
Rollback(w) ==
    /\ txn[w] # Idle
    /\ End(w)
    /\ UNCHANGED <<now, hours, page, asked, orders, shifts, events>>

\* The owner changes the hours; it matters while a customer has the page open.
EditHours ==
    /\ page # Left
    /\ Event
    /\ \E h \in Schedules \ {hours} : hours' = h
    /\ UNCHANGED <<now, page, asked, orders, shifts, txn>>

Tick ==
    /\ now < MaxTime
    /\ now' = now + 1
    /\ UNCHANGED <<hours, page, asked, orders, shifts, txn, events>>

Next ==
    \/ Tick \/ EditHours
    \/ ShowSlots \/ Submit \/ RefuseTime
    \/ \E o \in Orders : CreateCashOrder(o) \/ Expire(o)
    \/ \E w \in Workers :
         \/ \E o \in Orders : \/ DirectInsert(w, o) \/ OnlineInsert(w, o)
                              \/ \E op \in {"collect", "refund"} : MoveRead(w, o, op)
         \/ \E place \in {Here, Anywhere} : OpenRead(w, place)
         \/ \E s \in Shifts : OpenInsert(w, s) \/ CloseRead(w, s)
         \/ SaleCommit(w) \/ MoveCommit(w) \/ CloseWrite(w) \/ Rollback(w)

Spec == Init /\ [][Next]_vars

-----------------------------------------------------------------------------
(* Properties *)

\* Times, orders and shifts keep their shapes.
TypeOK ==
    /\ now \in 1 .. MaxTime
    /\ hours \in Schedules
    /\ \A o \in Orders :
         /\ orders[o].st \in {"none", "pending", "paid", "refunded", "cancelled"}
         /\ orders[o].doc \in 0 .. Cardinality(Orders)
    /\ \A s \in Shifts : shifts[s].expected \in 0 .. Cardinality(Orders)

\* "El horario elegido está fuera del horario de atención" and "debe ser al menos
\* 15 minutos en el futuro": a time the customer picked from the list is refused
\* only if the list was older than the difference of the two notices, or the
\* hours have changed since.
OfferIsHonoured ==
    [][asked # NoRequest /\ asked' = NoRequest /\ orders' = orders =>
         \/ now - page.at > Notice - Lead
         \/ hours # page.hours]_vars

\* An order for later is not cancelled for want of payment before its pickup
\* time and the half hour after it have passed.
PickupBeforeExpiry ==
    \A o \in Orders : orders[o].st = "cancelled" /\ orders[o].pickup # None =>
        orders[o].pickup + Grace <= orders[o].done

\* getNextDocumentNumber takes the highest number plus one without a lock: no
\* sale is ever refused because another took its number meanwhile.
NumbersNeverClash ==
    \A w \in Workers : txn[w].op = "direct" => ~ NumberTaken(txn[w].number)

\* The moments of an order that a shift may or may not contain.
Moments(o) == {orders[o].made, orders[o].paid, orders[o].back, orders[o].done} \ {None}

\* Every moment lies before, strictly within, or after the shift.
Whole(o, s) ==
    \/ \A t \in Moments(o) : t < shifts[s].from
    \/ \A t \in Moments(o) : shifts[s].from < t /\ t < shifts[s].to
    \/ \A t \in Moments(o) : shifts[s].to < t

during(t, s) == t # None /\ shifts[s].from <= t /\ t <= shifts[s].to

\* Cash that entered the drawer during the shift, less what left it.
Drawer(s) ==
    Cardinality({o \in Orders : during(orders[o].paid, s) /\ ~ orders[o].online})
      - Cardinality({o \in Orders : during(orders[o].back, s)})

\* Sales of the shift whose money went to Mercado Pago.
PaidElsewhere(s) ==
    Cardinality({o \in Orders : during(orders[o].paid, s) /\ orders[o].online})

\* If no order was made, paid, refunded or committed on both sides of an end of a
\* closed shift, the shift expects the cash that went through the drawer and, on
\* top of it, every sale that Mercado Pago was paid for: also one refunded in the
\* shift, whose cash left a drawer it never entered.
ExpectedCashIsExplained ==
    \A s \in Shifts :
        shifts[s].st = "closed" /\ (\A o \in Orders : Whole(o, s)) =>
            shifts[s].expected = Drawer(s) + PaidElsewhere(s)

\* Orders, documents and shifts have their shapes, and the cash a closed shift
\* expects differs from the drawer's only by orders that straddle one of its ends
\* and by sales paid online.
ShiftsAgree == TypeOK /\ ExpectedCashIsExplained
=============================================================================
