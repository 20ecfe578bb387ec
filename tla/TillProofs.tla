----------------------------- MODULE TillProofs -----------------------------
(***************************************************************************)
(* Proofs about Till for every number of orders, shifts and transactions   *)
(* and every calendar.  The expected cash of a shift rests on one set of   *)
(* orders, those counted when the sum was taken (Accounted): an order that *)
(* changes later is committed after the shift's end, so it is no longer    *)
(* whole.                                                                  *)
(***************************************************************************)
EXTENDS Till, FiniteSetTheorems, WellFoundedInduction, TLAPS

Status == {"none", "pending", "paid", "refunded", "cancelled"}

(* The rows, with their fields. *)
OrderRow == [st : Status, made : Nat, pickup : Nat, due : Nat, paid : Nat, back : Nat,
             done : Nat, doc : Nat, online : BOOLEAN]
ShiftRow == [st : {"none", "open", "closed"}, place : {"none", Here, Anywhere},
             from : Nat, to : Nat, expected : 0 .. Cardinality(Orders)]

(* What a page shows and what a customer has sent. *)
Shown   == [at : Nat \ {0}, hours : Schedules]
Request == [sent : {TRUE}, pickup : Nat]

(* How a sale is paid. *)
Pays == {"paid", "pending", "online"}

(* The open transactions. *)
Selling == [op : {"direct"}, order : Orders, at : Nat \ {0}, pay : Pays,
            number : Nat]
Moving  == [op : {"collect", "refund"}, order : Orders, at : Nat, seen : OrderRow]
Opening == [op : {"open"}, place : {Here, Anywhere}, at : Nat \ {0}]
Closing == [op : {"close"}, shift : Shifts, to : Nat, expected : 0 .. Cardinality(Orders)]

Typed ==
    /\ now \in 1 .. MaxTime
    /\ hours \in Schedules
    /\ page \in {Left} \cup Shown
    /\ asked \in {NoRequest} \cup Request
    /\ orders \in [Orders -> OrderRow]
    /\ shifts \in [Shifts -> ShiftRow]
    /\ txn \in [Workers -> {Idle} \cup Selling \cup Moving \cup Opening \cup Closing]

(* A row's movements are in order, and committed by now: made, then paid, then  *)
(* refunded.  An order for later may be paid until Grace after its pickup.      *)
Ordered(r, t) ==
    /\ r.st = "none" => r = NoOrder
    /\ r.st # "none" => /\ 0 < r.made /\ r.made <= r.done /\ r.done <= t
                        /\ r.pickup # None => r.pickup + Grace <= r.due
    /\ r.paid # None <=> r.st \in {"paid", "refunded"}
    /\ r.back # None <=> r.st = "refunded"
    /\ r.paid # None => r.made <= r.paid /\ r.paid <= r.done
    /\ r.back # None => r.paid <= r.back /\ r.back <= r.done
    /\ r.st = "cancelled" => r.due # None /\ r.due <= r.done

OrdersTimed == \A o \in Orders : Ordered(orders[o], now)

(* The orders with a document. *)
Documented == {o \in Orders : orders[o].doc # None}

(* No number exceeds the number of documents. *)
NumbersDense == \A o \in Orders : orders[o].doc <= Cardinality(Documented)

(* One sale at a time holds the counter, with an unused order and the next number. *)
Numbering(t) ==
    /\ orders[t.order] = NoOrder
    /\ t.at <= now
    /\ (t.number = None <=> t.pay # "paid")
    /\ t.number <= 1 + Cardinality(Documented)
    /\ t.number # None => \A o \in Orders : orders[o].doc < t.number

CounterHeldOnce ==
    /\ \A w \in Workers : txn[w].op = "direct" => Numbering(txn[w])
    /\ \A v, w \in Workers : txn[v].op = "direct" /\ txn[w].op = "direct" => v = w

(* A movement was begun after its order was last written. *)
MovesTimed ==
    \A w \in Workers : txn[w].op \in {"collect", "refund"} =>
        /\ txn[w].seen.st = (IF txn[w].op = "collect" THEN "pending" ELSE "paid")
        /\ txn[w].seen.done <= txn[w].at
        /\ txn[w].at <= now

(* Moments of an order, and whether they are whole between two times. *)
Times(r) == {r.made, r.paid, r.back, r.done} \ {None}
WholeIn(r, from, to) ==
    \/ \A t \in Times(r) : t < from
    \/ \A t \in Times(r) : from < t /\ t < to
    \/ \A t \in Times(r) : to < t

(* n is the number of some orders made between the two times, which include those *)
(* among the whole ones that were paid and not refunded, and no other whole one.  *)
Counts(E, from, to, rows) ==
    /\ \A o \in E : from <= rows[o].made /\ rows[o].made <= to
    /\ \A o \in Orders :
         from <= rows[o].made /\ rows[o].made <= to /\ WholeIn(rows[o], from, to) =>
             (o \in E <=> rows[o].st = "paid")

Accounted(from, to, n) ==
    /\ 0 < from /\ from <= to /\ to <= now
    /\ \E E \in SUBSET Orders : n = Cardinality(E) /\ Counts(E, from, to, orders)

ShiftsAccounted ==
    /\ \A s \in Shifts :
         /\ shifts[s].st = "none" => shifts[s] = NoShift
         /\ shifts[s].st # "none" => 0 < shifts[s].from /\ shifts[s].from <= now
         /\ shifts[s].st = "closed" =>
              Accounted(shifts[s].from, shifts[s].to, shifts[s].expected)
    /\ \A w \in Workers : txn[w].op = "close" =>
         /\ shifts[txn[w].shift].st # "none"
         /\ Accounted(shifts[txn[w].shift].from, txn[w].to, txn[w].expected)
    /\ \A w \in Workers : txn[w].op = "open" => txn[w].at <= now

(* A pickup time on the way was on the page's list and passed the page's checks. *)
AskedFromThePage ==
    asked # NoRequest =>
        /\ page # Left
        /\ asked.pickup # None =>
             /\ page.at + Notice <= asked.pickup
             /\ asked.pickup <= now + DaysAhead * DayLength
             /\ page.hours.set => hasOpeningHours(page.hours)
             /\ Open(page.hours, asked.pickup)

Inv ==
    /\ Typed
    /\ OrdersTimed
    /\ NumbersDense
    /\ CounterHeldOnce
    /\ MovesTimed
    /\ ShiftsAccounted
    /\ AskedFromThePage

-----------------------------------------------------------------------------

(* The highest of a bounded set of numbers is one of them. *)
LEMMA HighestNumber ==
    ASSUME NEW S \in SUBSET Nat, S # {}, NEW n \in Nat, \A x \in S : x <= n
    PROVE  /\ Max(S) \in S
           /\ \A y \in S : y <= Max(S)
<1> DEFINE U == {u \in Nat : \A x \in S : x <= u}
<1>1. PICK m \in U : \A y \in U : <<y, m>> \notin OpToRel(<, Nat)
  <2>1. U \subseteq Nat /\ U # {}
    OBVIOUS
  <2> HIDE DEF U
  <2> QED BY <2>1, WFMin, NatLessThanWellFounded
<1>2. m \in Nat /\ \A x \in S : x <= m
  BY <1>1
<1>3. ASSUME NEW u \in U, u < m PROVE FALSE
  <2>1. <<u, m>> \in OpToRel(<, Nat)
    BY <1>2, <1>3 DEF OpToRel
  <2> QED BY <1>1, <2>1
<1>4. m \in S
  <2> SUFFICES ASSUME m \notin S PROVE FALSE
    OBVIOUS
  <2>1. \A x \in S : x <= m - 1
    BY <1>2
  <2>2. m - 1 \in Nat
    <3>1. PICK x \in S : TRUE
      OBVIOUS
    <3> QED BY <1>2, <2>1, <3>1
  <2>3. m - 1 \in U
    BY <2>1, <2>2
  <2> QED BY <1>2, <1>3, <2>3
<1>5. \E x \in S : \A y \in S : x >= y
  BY <1>2, <1>4
<1>6. Max(S) \in S /\ \A y \in S : Max(S) >= y
  BY <1>5 DEF Max
<1> QED BY <1>6

(* An order for later may be paid until Grace after its pickup. *)
LEMMA TimeToPay ==
    ASSUME NEW p \in Nat, now \in Nat
    PROVE  /\ paymentExpiresAt(p) \in Nat
           /\ p # None => p + Grace <= paymentExpiresAt(p)
<1>1. Window \in Nat /\ Grace \in Nat
  BY TillAssumption
<1>2. CASE p = None
  BY <1>1, <1>2 DEF paymentExpiresAt, None
<1>3. CASE p # None
  <2> DEFINE S == {now + Window, p + Grace}
  <2>1. S \in SUBSET Nat /\ S # {} /\ \A x \in S : x <= now + Window + p + Grace
    BY <1>1
  <2>2. now + Window + p + Grace \in Nat
    BY <1>1
  <2>3. Max(S) \in S /\ \A y \in S : y <= Max(S)
    <3> HIDE DEF S
    <3> QED BY <2>1, <2>2, HighestNumber
  <2> QED BY <1>1, <1>3, <2>3 DEF paymentExpiresAt
<1> QED BY <1>2, <1>3

(* The orders with a document are finitely many. *)
LEMMA DocumentsFinite ==
    /\ IsFiniteSet(Orders) /\ Cardinality(Orders) \in Nat
    /\ IsFiniteSet(Documented) /\ Cardinality(Documented) \in Nat
    /\ Cardinality(Documented) <= Cardinality(Orders)
<1>1. IsFiniteSet(Orders)
  BY TillAssumption
<1>2. Documented \in SUBSET Orders
  BY DEF Documented
<1> QED BY <1>1, <1>2, FS_Subset, FS_CardinalityType

(* The number given out is the one after the highest. *)
LEMMA NextNumber ==
    ASSUME Typed, NumbersDense
    PROVE  /\ NextDocumentNumber \in Nat \ {0}
           /\ NextDocumentNumber <= 1 + Cardinality(Documented)
           /\ \A o \in Orders : orders[o].doc < NextDocumentNumber
<1> DEFINE S == {orders[o].doc : o \in Orders} \union {0}
<1>1. \A o \in Orders : orders[o].doc \in Nat
  BY DEF Typed, OrderRow
<1>2. S \in SUBSET Nat /\ S # {}
  BY <1>1
<1>3. \A x \in S : x <= Cardinality(Documented)
  BY <1>1, DocumentsFinite DEF NumbersDense
<1>4. Max(S) \in S /\ \A y \in S : y <= Max(S)
  <2> HIDE DEF S
  <2> QED BY <1>2, <1>3, DocumentsFinite, HighestNumber
<1>5. NextDocumentNumber = 1 + Max(S)
  BY DEF NextDocumentNumber
<1>6. \A o \in Orders : orders[o].doc \in S
  OBVIOUS
<1>7. Max(S) \in Nat /\ Max(S) <= Cardinality(Documented)
  BY <1>2, <1>3, <1>4
<1> HIDE DEF S
<1> QED BY <1>1, <1>4, <1>5, <1>6, <1>7, DocumentsFinite

-----------------------------------------------------------------------------
(* Shapes *)

(* What a transaction does tells its shape. *)
LEMMA ByOperation ==
    ASSUME Typed, NEW w \in Workers
    PROVE  /\ txn[w].op = "direct" => txn[w] \in Selling
           /\ txn[w].op \in {"collect", "refund"} => txn[w] \in Moving
           /\ txn[w].op = "open" => txn[w] \in Opening
           /\ txn[w].op = "close" => txn[w] \in Closing
<1>1. txn[w] \in {Idle} \cup Selling \cup Moving \cup Opening \cup Closing
  BY DEF Typed
<1> QED BY <1>1 DEF Selling, Moving, Opening, Closing, Idle

(* The writes of a row keep its shape. *)
LEMMA OrderWrites ==
    ASSUME NEW q \in OrderRow, NEW at \in Nat, NEW done \in Nat
    PROVE  /\ [q EXCEPT !.st = "cancelled", !.done = done] \in OrderRow
           /\ [q EXCEPT !.st = "paid", !.paid = at, !.done = done] \in OrderRow
           /\ [q EXCEPT !.st = "refunded", !.back = at, !.done = done] \in OrderRow
BY DEF OrderRow, Status

LEMMA OrderInserts ==
    ASSUME NEW made \in Nat, NEW done \in Nat, NEW pickup \in Nat, NEW due \in Nat,
           NEW paid \in Nat, NEW doc \in Nat, NEW st \in {"pending", "paid"},
           NEW online \in BOOLEAN
    PROVE  /\ [NoOrder EXCEPT !.st = "pending", !.made = made, !.pickup = pickup,
                              !.due = due, !.done = done] \in OrderRow
           /\ [NoOrder EXCEPT !.st = st, !.made = made, !.doc = doc, !.done = done,
                              !.paid = paid, !.online = online] \in OrderRow
BY DEF NoOrder, OrderRow, Status, None

LEMMA ShiftWrites ==
    ASSUME NEW q \in ShiftRow, NEW t \in Nat, NEW n \in 0 .. Cardinality(Orders),
           NEW place \in {Here, Anywhere}
    PROVE  /\ [q EXCEPT !.st = "open", !.place = place, !.from = t] \in ShiftRow
           /\ [q EXCEPT !.st = "closed", !.to = t, !.expected = n] \in ShiftRow
BY DEF ShiftRow

(* The sum of a shift is a number of orders. *)
LEMMA SumInRange ==
    ASSUME NEW s \in Shifts, NEW to
    PROVE  cashSales(s, to) \in 0 .. Cardinality(Orders)
<1> DEFINE E == {o \in Orders : /\ orders[o].st = "paid"
                                /\ shifts[s].from <= orders[o].made
                                /\ orders[o].made <= to}
<1>1. E \in SUBSET Orders
  OBVIOUS
<1>2. cashSales(s, to) = Cardinality(E)
  BY DEF cashSales
<1> HIDE DEF E
<1> QED BY <1>1, <1>2, DocumentsFinite, FS_Subset, FS_CardinalityType

(* A time from the page's list is at least Notice after the list was made. *)
LEMMA OnTheList ==
    ASSUME NEW at \in Nat \ {0}, NEW h, NEW t \in Slots(at, h)
    PROVE  t \in Nat \ {0} /\ at + Notice <= t
<1>1. Notice \in Nat /\ DaysAhead * DayLength \in Nat
  BY TillAssumption
<1>2. t \in at + Notice .. at + DaysAhead * DayLength
  BY DEF Slots
<1> QED BY <1>1, <1>2

(* Shapes are kept by every step. *)
LEMMA KeepsTyped ==
    ASSUME Inv, [Next]_vars
    PROVE  Typed'
<1> USE DEF Inv
<1>0. now \in Nat \ {0} /\ Typed
  BY DEF Typed
<1>1. CASE Tick
  BY <1>1, TillAssumption DEF Tick, Typed
<1>2. CASE EditHours
  BY <1>2 DEF EditHours, Typed
<1>3. CASE ShowSlots
  BY <1>3 DEF ShowSlots, Typed, Shown
<1>4. CASE Submit
  <2>1. page \in Shown
    BY <1>4 DEF Submit, Typed
  <2>2. page.at \in Nat \ {0}
    BY <2>1 DEF Shown
  <2>3. PICK t \in Slots(page.at, page.hours) \cup {None} : asked' = [sent |-> TRUE, pickup |-> t]
    BY <1>4 DEF Submit
  <2>4. t \in Nat
    BY <2>2, <2>3, OnTheList DEF None
  <2>5. asked' \in Request
    BY <2>3, <2>4 DEF Request
  <2> QED BY <1>4, <2>5 DEF Submit, Typed
<1>5. CASE RefuseTime
  BY <1>5 DEF RefuseTime, Typed
<1>6. ASSUME NEW o \in Orders, CreateCashOrder(o) PROVE Typed'
  <2> DEFINE r == [NoOrder EXCEPT !.st = "pending", !.made = now, !.pickup = asked.pickup,
                                  !.due = paymentExpiresAt(asked.pickup), !.done = now]
  <2>0. asked \in Request
    BY <1>6 DEF CreateCashOrder, Typed
  <2>1. asked.pickup \in Nat
    BY <2>0 DEF Request
  <2>2. paymentExpiresAt(asked.pickup) \in Nat
    BY <1>0, <2>1, TimeToPay
  <2>3. r \in OrderRow
    BY <1>0, <2>1, <2>2, OrderInserts
  <2>4. orders' = [orders EXCEPT ![o] = r]
    BY <1>6 DEF CreateCashOrder
  <2> HIDE DEF r
  <2> QED BY <1>6, <2>3, <2>4 DEF CreateCashOrder, Typed
<1>7. ASSUME NEW o \in Orders, Expire(o) PROVE Typed'
  <2> DEFINE r == [orders[o] EXCEPT !.st = "cancelled", !.done = now]
  <2>1. r \in OrderRow
    BY <1>0, OrderWrites DEF Typed
  <2>2. orders' = [orders EXCEPT ![o] = r]
    BY <1>7 DEF Expire, Typed
  <2> HIDE DEF r
  <2> QED BY <1>7, <2>1, <2>2 DEF Expire, Typed
<1>8. ASSUME NEW w \in Workers, NEW o \in Orders, NEW pay \in Pays,
             SaleInsert(w, o, pay)
      PROVE  Typed'
  <2> DEFINE n == IF pay = "paid" THEN NextDocumentNumber ELSE None
             t == [op |-> "direct", order |-> o, at |-> now, pay |-> pay, number |-> n]
  <2>1. n \in Nat
    BY NextNumber DEF None
  <2>2. t \in Selling
    <3> HIDE DEF n
    <3> QED BY <2>1 DEF Selling, Typed
  <2>3. txn' = [txn EXCEPT ![w] = t] /\ UNCHANGED <<now, hours, page, asked, orders, shifts>>
    BY <1>8 DEF SaleInsert, Begin
  <2> HIDE DEF t
  <2> QED BY <2>2, <2>3 DEF Typed
<1>9. ASSUME NEW w \in Workers, NEW o \in Orders, NEW op \in {"collect", "refund"},
             MoveRead(w, o, op)
      PROVE  Typed'
  <2> DEFINE t == [op |-> op, order |-> o, at |-> now, seen |-> orders[o]]
  <2>1. t \in Moving
    BY DEF Moving, Typed
  <2>2. txn' = [txn EXCEPT ![w] = t] /\ UNCHANGED <<now, hours, page, asked, orders, shifts>>
    BY <1>9 DEF MoveRead, Begin
  <2> HIDE DEF t
  <2> QED BY <2>1, <2>2 DEF Typed
<1>10. ASSUME NEW w \in Workers, NEW place \in {Here, Anywhere}, OpenRead(w, place)
       PROVE  Typed'
  <2>1. [op |-> "open", place |-> place, at |-> now] \in Opening
    BY DEF Opening, Typed
  <2> QED BY <1>10, <2>1 DEF OpenRead, Begin, Typed
<1>11. ASSUME NEW w \in Workers, NEW s \in Shifts, OpenInsert(w, s) PROVE Typed'
  <2> DEFINE r == [NoShift EXCEPT !.st = "open", !.place = txn[w].place, !.from = txn[w].at]
  <2>1. txn[w].place \in {Here, Anywhere} /\ txn[w].at \in Nat
    BY <1>0, <1>11, ByOperation DEF OpenInsert, Opening
  <2>2. r \in ShiftRow
    <3>1. NoShift \in ShiftRow
      BY DocumentsFinite DEF NoShift, ShiftRow, None
    <3>2. 0 \in 0 .. Cardinality(Orders)
      BY DocumentsFinite
    <3> QED BY <1>0, <2>1, <3>1, <3>2, ShiftWrites
  <2>3. shifts' = [shifts EXCEPT ![s] = r]
    BY <1>11 DEF OpenInsert
  <2> HIDE DEF r
  <2> QED BY <1>11, <2>2, <2>3 DEF OpenInsert, End, Typed
<1>12. ASSUME NEW w \in Workers, NEW s \in Shifts, CloseRead(w, s) PROVE Typed'
  <2> DEFINE t == [op |-> "close", shift |-> s, to |-> now, expected |-> cashSales(s, now)]
  <2>1. t \in Closing
    BY SumInRange DEF Closing, Typed
  <2>2. txn' = [txn EXCEPT ![w] = t] /\ UNCHANGED <<now, hours, page, asked, orders, shifts>>
    BY <1>12 DEF CloseRead, Begin
  <2> HIDE DEF t
  <2> QED BY <2>1, <2>2 DEF Typed
<1>13. ASSUME NEW w \in Workers, SaleCommit(w) PROVE Typed'
  <2> DEFINE t == txn[w]
             st == IF t.pay = "pending" THEN "pending" ELSE "paid"
             paid == IF t.pay = "pending" THEN None ELSE t.at
             r == [NoOrder EXCEPT !.st = st, !.made = t.at, !.doc = t.number, !.done = now,
                                  !.paid = paid, !.online = (t.pay = "online")]
  <2>1. t \in Selling
    BY <1>0, <1>13, ByOperation DEF SaleCommit
  <2>2. r \in OrderRow
    <3>1. /\ t.at \in Nat /\ t.number \in Nat /\ st \in {"pending", "paid"}
          /\ paid \in Nat /\ (t.pay = "online") \in BOOLEAN
      BY <2>1 DEF Selling, None
    <3> HIDE DEF st, paid
    <3> QED BY <1>0, <3>1, OrderInserts, ZenonT(60)
  <2>3. orders' = [orders EXCEPT ![t.order] = r]
    BY <1>13 DEF SaleCommit
  <2>4. /\ txn' = [txn EXCEPT ![w] = Idle]
        /\ UNCHANGED <<now, hours, page, asked, shifts>>
    BY <1>13 DEF SaleCommit, End
  <2> HIDE DEF r, t
  <2>5. orders' \in [Orders -> OrderRow]
    BY <2>2, <2>3 DEF Typed
  <2>6. txn' \in [Workers -> {Idle} \cup Selling \cup Moving \cup Opening \cup Closing]
    BY <2>4 DEF Typed
  <2> QED BY <2>4, <2>5, <2>6 DEF Typed
<1>14. ASSUME NEW w \in Workers, MoveCommit(w) PROVE Typed'
  <2> DEFINE t == txn[w]
             r == IF t.op = "collect"
                  THEN [orders[t.order] EXCEPT !.st = "paid", !.paid = t.at, !.done = now]
                  ELSE [orders[t.order] EXCEPT !.st = "refunded", !.back = t.at, !.done = now]
  <2>1. t \in Moving
    BY <1>0, <1>14, ByOperation DEF MoveCommit
  <2>2. t.order \in Orders /\ t.at \in Nat
    BY <2>1 DEF Moving
  <2>3. r \in OrderRow
    BY <1>0, <2>2, OrderWrites DEF Typed
  <2>4. orders' = [orders EXCEPT ![t.order] = r]
    BY <1>14, <2>2 DEF MoveCommit, Typed
  <2> HIDE DEF r
  <2> QED BY <1>14, <2>3, <2>4, ZenonT(60) DEF MoveCommit, End, Typed
<1>15. ASSUME NEW w \in Workers, CloseWrite(w) PROVE Typed'
  <2> DEFINE t == txn[w]
             r == [shifts[t.shift] EXCEPT !.st = "closed", !.to = t.to, !.expected = t.expected]
  <2>1. t \in Closing
    BY <1>0, <1>15, ByOperation DEF CloseWrite
  <2>2. r \in ShiftRow
    <3>1. t.to \in Nat /\ t.expected \in 0 .. Cardinality(Orders) /\ shifts[t.shift] \in ShiftRow
      BY <2>1 DEF Closing, Typed
    <3> QED BY <3>1, ShiftWrites
  <2>3. shifts' = [shifts EXCEPT ![t.shift] = r]
    BY <1>15, <2>1 DEF CloseWrite, Typed, Closing
  <2> HIDE DEF r
  <2> QED BY <1>15, <2>2, <2>3 DEF CloseWrite, End, Typed
<1>16. ASSUME NEW w \in Workers, Rollback(w) PROVE Typed'
  BY <1>16 DEF Rollback, End, Typed
<1>17. CASE UNCHANGED vars
  BY <1>17 DEF vars, Typed
<1> QED BY <1>1, <1>2, <1>3, <1>4, <1>5, <1>6, <1>7, <1>8, <1>9, <1>10, <1>11, <1>12,
           <1>13, <1>14, <1>15, <1>16, <1>17 DEF Next, DirectInsert, OnlineInsert, Pays

-----------------------------------------------------------------------------
(* What a step can do to a row, to a transaction and to a shift *)

(* An order changes by being inserted, or keeping the moment it was made and its *)
(* document; what is committed now is done now.                                 *)
Written(q, r, t) ==
    /\ Ordered(r, t) /\ r.st # "none" /\ r.done = t
    /\ q = NoOrder \/ (q.st # "none" /\ r.made = q.made /\ r.doc = q.doc)

RowsMove ==
    /\ now <= now'
    /\ \A o \in Orders : orders'[o] = orders[o] \/ Written(orders[o], orders'[o], now)

(* A transaction stays, ends or begins. *)
TxnsMove ==
    \A w \in Workers :
        \/ txn'[w] = txn[w]
        \/ txn'[w] = Idle
        \/ \E o \in Orders, pay \in Pays : SaleInsert(w, o, pay)
        \/ \E o \in Orders, op \in {"collect", "refund"} : MoveRead(w, o, op)
        \/ \E place \in {Here, Anywhere} : OpenRead(w, place)
        \/ \E s \in Shifts : CloseRead(w, s)

(* A shift stays, is opened or is closed. *)
ShiftsMove ==
    \A s \in Shifts :
        \/ shifts'[s] = shifts[s]
        \/ \E w \in Workers : OpenInsert(w, s)
        \/ \E w \in Workers : CloseWrite(w) /\ txn[w].shift = s

(* The rows that are inserted, and the changes of a row that is there. *)
LEMMA InsertedInOrder ==
    ASSUME NEW made \in Nat \ {0}, NEW done \in Nat, made <= done, NEW pickup \in Nat,
           NEW due \in Nat, pickup # None => pickup + Grace <= due
    PROVE  made = done =>
                Written(NoOrder, [NoOrder EXCEPT !.st = "pending", !.made = made,
                                      !.pickup = pickup, !.due = due, !.done = done], done)
BY TillAssumption DEF Written, Ordered, NoOrder, None

(* So are those of a sale, whoever was paid.                                     *)
LEMMA SoldInOrder ==
    ASSUME NEW made \in Nat \ {0}, NEW done \in Nat, made <= done,
           NEW doc \in Nat, NEW st \in {"pending", "paid"}, NEW online \in BOOLEAN
    PROVE  Written(NoOrder, [NoOrder EXCEPT !.st = st, !.made = made, !.doc = doc,
                                 !.done = done,
                                 !.paid = IF st = "pending" THEN None ELSE made,
                                 !.online = online], done)
BY TillAssumption DEF Written, Ordered, NoOrder, None

LEMMA CancelledInOrder ==
    ASSUME NEW q \in OrderRow, NEW t \in Nat, Ordered(q, t), q.st = "pending",
           q.due # None, q.due <= t
    PROVE  Written(q, [q EXCEPT !.st = "cancelled", !.done = t], t)
BY TillAssumption DEF Written, Ordered, OrderRow, Status, None

LEMMA MovedInOrder ==
    ASSUME NEW q \in OrderRow, NEW t \in Nat, Ordered(q, t), NEW at \in Nat,
           q.done <= at, at <= t
    PROVE  /\ q.st = "pending" =>
                Written(q, [q EXCEPT !.st = "paid", !.paid = at, !.done = t], t)
           /\ q.st = "paid" =>
                Written(q, [q EXCEPT !.st = "refunded", !.back = at, !.done = t], t)
BY TillAssumption DEF Written, Ordered, OrderRow, Status, None

(* Orders move as RowsMove says: the four actions that write one. *)
LEMMA StepRows ==
    ASSUME Inv, [Next]_vars
    PROVE  RowsMove
<1> USE DEF Inv
<1>0. now \in Nat \ {0} /\ Typed
  BY DEF Typed
<1>1. ASSUME NEW o \in Orders, CreateCashOrder(o) PROVE RowsMove
  <2> DEFINE r == [NoOrder EXCEPT !.st = "pending", !.made = now, !.pickup = asked.pickup,
                                  !.due = paymentExpiresAt(asked.pickup), !.done = now]
  <2>0. asked \in Request
    BY <1>1 DEF CreateCashOrder, Typed
  <2>1. asked.pickup \in Nat
    BY <2>0 DEF Request
  <2>2. /\ paymentExpiresAt(asked.pickup) \in Nat
        /\ asked.pickup # None => asked.pickup + Grace <= paymentExpiresAt(asked.pickup)
    BY <1>0, <2>1, TimeToPay
  <2>3. Written(NoOrder, r, now)
    <3>1. now <= now /\ 0 \in Nat
      BY <1>0
    <3> QED BY <1>0, <2>1, <2>2, <3>1, InsertedInOrder
  <2>4. orders[o] = NoOrder
    BY <1>1 DEF CreateCashOrder, Unused, OrdersTimed, Ordered
  <2>5. orders' = [orders EXCEPT ![o] = r] /\ now' = now
    BY <1>1 DEF CreateCashOrder
  <2> HIDE DEF r
  <2> QED BY <1>0, <2>3, <2>4, <2>5 DEF RowsMove, Typed
<1>2. ASSUME NEW o \in Orders, Expire(o) PROVE RowsMove
  <2> DEFINE r == [orders[o] EXCEPT !.st = "cancelled", !.done = now]
  <2>1. orders[o] \in OrderRow /\ Ordered(orders[o], now)
    BY DEF Typed, OrdersTimed
  <2>2. Written(orders[o], r, now)
    BY <1>0, <1>2, <2>1, CancelledInOrder DEF Expire
  <2>3. orders' = [orders EXCEPT ![o] = r] /\ now' = now
    BY <1>2 DEF Expire, Typed
  <2> HIDE DEF r
  <2> QED BY <1>0, <2>2, <2>3 DEF RowsMove, Typed
<1>3. ASSUME NEW w \in Workers, SaleCommit(w) PROVE RowsMove
  <2>0. PICK t \in Selling : t = txn[w]
    BY <1>0, <1>3, ByOperation DEF SaleCommit
  <2> DEFINE st == IF t.pay = "pending" THEN "pending" ELSE "paid"
             r == [NoOrder EXCEPT !.st = st, !.made = t.at, !.doc = t.number, !.done = now,
                                  !.paid = IF st = "pending" THEN None ELSE t.at,
                                  !.online = (t.pay = "online")]
  <2>1. /\ t.order \in Orders /\ t.at \in Nat \ {0} /\ t.number \in Nat
        /\ st \in {"pending", "paid"}
    BY <2>0 DEF Selling
  <2>2. orders[t.order] = NoOrder /\ t.at <= now
    BY <1>3, <2>0 DEF SaleCommit, CounterHeldOnce, Numbering
  <2>3. Written(NoOrder, r, now)
    <3>1. now \in Nat /\ (t.pay = "online") \in BOOLEAN
      BY <1>0
    <3> HIDE DEF st
    <3> QED BY <2>1, <2>2, <3>1, SoldInOrder
  <2>4. orders' = [orders EXCEPT ![t.order] = r] /\ now' = now
    BY <1>3, <2>0 DEF SaleCommit
  <2>5. /\ orders'[t.order] = r
        /\ \A o \in Orders \ {t.order} : orders'[o] = orders[o]
    BY <1>0, <2>1, <2>4 DEF Typed
  <2> HIDE DEF r
  <2>6. ASSUME NEW o \in Orders PROVE orders'[o] = orders[o] \/ Written(orders[o], orders'[o], now)
    BY <2>2, <2>3, <2>5
  <2>7. now <= now'
    BY <1>0, <2>4
  <2> QED BY <2>6, <2>7 DEF RowsMove
<1>4. ASSUME NEW w \in Workers, MoveCommit(w) PROVE RowsMove
  <2>0. PICK t \in Moving : t = txn[w]
    BY <1>0, <1>4, ByOperation DEF MoveCommit
  <2> DEFINE q == orders[t.order]
             r == IF t.op = "collect"
                  THEN [q EXCEPT !.st = "paid", !.paid = t.at, !.done = now]
                  ELSE [q EXCEPT !.st = "refunded", !.back = t.at, !.done = now]
  <2>1. t.order \in Orders /\ t.at \in Nat /\ t.op \in {"collect", "refund"}
    BY <2>0 DEF Moving
  <2>2. q \in OrderRow /\ Ordered(q, now)
    BY <2>1 DEF Typed, OrdersTimed
  <2>3. /\ q.st = (IF t.op = "collect" THEN "pending" ELSE "paid")
        /\ q.done <= t.at /\ t.at <= now
    BY <1>4, <2>0 DEF MoveCommit, MovesTimed
  <2>4. orders' = [orders EXCEPT ![t.order] = r] /\ now' = now
    BY <1>4, <2>0, <2>1 DEF MoveCommit, Typed
  <2>5. Written(q, r, now)
    <3> HIDE DEF q
    <3> QED BY <1>0, <2>1, <2>2, <2>3, MovedInOrder
  <2> HIDE DEF r
  <2> QED BY <1>0, <2>1, <2>4, <2>5 DEF RowsMove, Typed
<1>5. CASE orders' = orders /\ (now' = now \/ now' = now + 1)
  BY <1>0, <1>5 DEF RowsMove
<1> QED BY <1>1, <1>2, <1>3, <1>4, <1>5
        DEF Next, Tick, EditHours, ShowSlots, Submit, RefuseTime, DirectInsert, OnlineInsert, SaleInsert, MoveRead,
            OpenRead, OpenInsert, CloseRead, CloseWrite, Rollback, Begin, vars

(* A step begins, ends or leaves a transaction. *)
LEMMA StepTxns ==
    ASSUME Typed, [Next]_vars
    PROVE  TxnsMove
<1>1. ASSUME NEW w \in Workers, End(w) PROVE TxnsMove
  BY <1>1 DEF End, TxnsMove, Typed
<1>2. ASSUME NEW w \in Workers, NEW o \in Orders, NEW pay \in Pays,
             SaleInsert(w, o, pay)
      PROVE  TxnsMove
  <2>1. \A v \in Workers : v = w \/ txn'[v] = txn[v]
    BY <1>2 DEF SaleInsert, Begin, Typed
  <2> QED BY <1>2, <2>1 DEF TxnsMove
<1>3. ASSUME NEW w \in Workers, NEW o \in Orders, NEW op \in {"collect", "refund"},
             MoveRead(w, o, op)
      PROVE  TxnsMove
  <2>1. \A v \in Workers : v = w \/ txn'[v] = txn[v]
    BY <1>3 DEF MoveRead, Begin, Typed
  <2> QED BY <1>3, <2>1 DEF TxnsMove
<1>4. ASSUME NEW w \in Workers, NEW place \in {Here, Anywhere}, OpenRead(w, place)
      PROVE  TxnsMove
  <2>1. \A v \in Workers : v = w \/ txn'[v] = txn[v]
    BY <1>4 DEF OpenRead, Begin, Typed
  <2> QED BY <1>4, <2>1 DEF TxnsMove
<1>5. ASSUME NEW w \in Workers, NEW s \in Shifts, CloseRead(w, s) PROVE TxnsMove
  <2>1. \A v \in Workers : v = w \/ txn'[v] = txn[v]
    BY <1>5 DEF CloseRead, Begin, Typed
  <2> QED BY <1>5, <2>1 DEF TxnsMove
<1>6. CASE UNCHANGED txn
  BY <1>6 DEF TxnsMove
<1> QED BY <1>1, <1>2, <1>3, <1>4, <1>5, <1>6
        DEF Next, Tick, EditHours, ShowSlots, Submit, RefuseTime, CreateCashOrder, Expire,
            OpenInsert, SaleCommit, MoveCommit, CloseWrite, Rollback, DirectInsert,
            OnlineInsert, Pays, vars

(* A step opens, closes or leaves a shift. *)
LEMMA StepShifts ==
    ASSUME Typed, [Next]_vars
    PROVE  ShiftsMove
<1>1. ASSUME NEW w \in Workers, NEW s \in Shifts, OpenInsert(w, s) PROVE ShiftsMove
  <2>1. \A u \in Shifts : u = s \/ shifts'[u] = shifts[u]
    BY <1>1 DEF OpenInsert, Typed
  <2> QED BY <1>1, <2>1 DEF ShiftsMove
<1>2. ASSUME NEW w \in Workers, CloseWrite(w) PROVE ShiftsMove
  <2>1. \A u \in Shifts : u = txn[w].shift \/ shifts'[u] = shifts[u]
    BY <1>2 DEF CloseWrite, Typed
  <2> QED BY <1>2, <2>1 DEF ShiftsMove
<1>3. CASE UNCHANGED shifts
  BY <1>3 DEF ShiftsMove
<1> QED BY <1>1, <1>2, <1>3
        DEF Next, Tick, EditHours, ShowSlots, Submit, RefuseTime, CreateCashOrder, Expire,
            DirectInsert, OnlineInsert, SaleInsert, MoveRead, OpenRead, CloseRead, Begin, SaleCommit, MoveCommit,
            Rollback, vars

-----------------------------------------------------------------------------
(* Orders, movements and requests *)

(* Committed movements stay in order as time passes. *)
LEMMA KeepsOrdersTimed ==
    ASSUME Inv, RowsMove, Typed'
    PROVE  OrdersTimed'
<1> SUFFICES ASSUME NEW o \in Orders PROVE Ordered(orders'[o], now')
  BY DEF OrdersTimed
<1>1. Ordered(orders[o], now) /\ orders'[o] \in OrderRow /\ now \in Nat /\ now' \in Nat
  BY DEF Inv, OrdersTimed, Typed
<1>2. Ordered(orders'[o], now) /\ now <= now'
  BY <1>1 DEF RowsMove, Written
<1>3. \A r \in OrderRow : Ordered(r, now) => Ordered(r, now')
  BY <1>1, <1>2 DEF Ordered, OrderRow, NoOrder, None
<1> QED BY <1>1, <1>2, <1>3

(* A movement was begun after its order was last written. *)
LEMMA KeepsMoves ==
    ASSUME Inv, RowsMove, TxnsMove, Typed'
    PROVE  MovesTimed'
<1> SUFFICES ASSUME NEW w \in Workers, txn'[w].op \in {"collect", "refund"}
             PROVE  /\ txn'[w].seen.st = (IF txn'[w].op = "collect" THEN "pending" ELSE "paid")
                    /\ txn'[w].seen.done <= txn'[w].at
                    /\ txn'[w].at <= now'
  BY DEF MovesTimed
<1>1. now \in Nat /\ now' \in Nat /\ now <= now' /\ txn \in [Workers -> {Idle} \cup Selling \cup Moving \cup Opening \cup Closing]
  BY DEF Inv, Typed, RowsMove
<1>2. CASE txn'[w] = txn[w]
  <2>1. PICK t \in Moving : t = txn[w]
    BY <1>2, ByOperation DEF Inv
  <2>2. t.at \in Nat
    BY <2>1 DEF Moving
  <2> QED BY <1>1, <1>2, <2>1, <2>2 DEF Inv, MovesTimed
<1>3. CASE txn'[w] = Idle
  BY <1>3 DEF Idle
<1>4. ASSUME NEW o \in Orders, NEW pay \in Pays, SaleInsert(w, o, pay)
      PROVE  FALSE
  BY <1>1, <1>4 DEF SaleInsert, Begin
<1>5. ASSUME NEW o \in Orders, NEW op \in {"collect", "refund"}, MoveRead(w, o, op)
      PROVE  /\ txn'[w].seen.st = (IF txn'[w].op = "collect" THEN "pending" ELSE "paid")
             /\ txn'[w].seen.done <= txn'[w].at
             /\ txn'[w].at <= now'
  <2>1. txn'[w] = [op |-> op, order |-> o, at |-> now, seen |-> orders[o]] /\ now' = now
    BY <1>1, <1>5 DEF MoveRead, Begin
  <2>2. orders[o].st = (IF op = "collect" THEN "pending" ELSE "paid")
    BY <1>5 DEF MoveRead, CollectAllowed, RefundAllowed
  <2>3. orders[o].done <= now
    BY <2>2 DEF Inv, OrdersTimed, Ordered
  <2> QED BY <1>1, <2>1, <2>2, <2>3
<1>6. ASSUME NEW place \in {Here, Anywhere}, OpenRead(w, place) PROVE FALSE
  BY <1>1, <1>6 DEF OpenRead, Begin
<1>7. ASSUME NEW s \in Shifts, CloseRead(w, s) PROVE FALSE
  BY <1>1, <1>7 DEF CloseRead, Begin
<1> QED BY <1>2, <1>3, <1>4, <1>5, <1>6, <1>7 DEF TxnsMove

(* What was on the page stays there while the request is on its way. *)
LEMMA KeepsAsked ==
    ASSUME Inv, [Next]_vars, RowsMove, Typed'
    PROVE  AskedFromThePage'
<1> USE DEF Inv
<1>1. DaysAhead * DayLength \in Nat /\ now \in Nat /\ now' \in Nat /\ now <= now'
  BY TillAssumption DEF Typed, RowsMove
<1>2. CASE Submit
  <2>1. page \in Shown
    BY <1>2 DEF Submit, Typed
  <2>2. page.at \in Nat \ {0}
    BY <2>1 DEF Shown
  <2>3. PICK t \in Slots(page.at, page.hours) \cup {None} :
            /\ t # None => validateScheduledPickupTime(page.hours, t)
            /\ asked' = [sent |-> TRUE, pickup |-> t]
    BY <1>2 DEF Submit
  <2>4. t # None => page.at + Notice <= t
    BY <2>2, <2>3, OnTheList
  <2>5. t # None => /\ t <= now + DaysAhead * DayLength
                    /\ page.hours.set => hasOpeningHours(page.hours)
                    /\ Open(page.hours, t)
    BY <2>3 DEF validateScheduledPickupTime
  <2>6. asked'.pickup = t /\ page' = page /\ page # Left /\ now' = now
    BY <1>2, <2>3 DEF Submit
  <2> QED BY <2>4, <2>5, <2>6 DEF AskedFromThePage
<1>3. CASE asked' = NoRequest
  BY <1>3 DEF AskedFromThePage
<1>4. CASE asked' = asked /\ page' = page
  <2> SUFFICES ASSUME asked # NoRequest, asked.pickup # None
               PROVE  asked.pickup <= now' + DaysAhead * DayLength
    BY <1>4 DEF AskedFromThePage
  <2>1. asked \in Request
    BY DEF Typed
  <2>2. asked.pickup \in Nat
    BY <2>1 DEF Request
  <2>3. asked.pickup <= now + DaysAhead * DayLength
    BY DEF AskedFromThePage
  <2> DEFINE d == DaysAhead * DayLength
  <2>4. d \in Nat /\ asked.pickup <= now + d
    BY <1>1, <2>3
  <2> HIDE DEF d
  <2>5. asked.pickup <= now' + d
    BY <1>1, <2>2, <2>4
  <2> QED BY <2>5 DEF d
<1>5. CASE asked' = asked /\ asked = NoRequest
  BY <1>5 DEF AskedFromThePage
<1> QED BY <1>2, <1>3, <1>4, <1>5
        DEF Next, Tick, EditHours, ShowSlots, RefuseTime, CreateCashOrder, Expire,
            DirectInsert, OnlineInsert, SaleInsert, MoveRead, OpenRead, OpenInsert, CloseRead, SaleCommit, MoveCommit,
            CloseWrite, Rollback, Begin, vars

-----------------------------------------------------------------------------
(* Documents *)

(* Nothing about the numbers changes unless a sale begins or is committed. *)
LEMMA OtherNumbers ==
    ASSUME Inv, Typed', now <= now',
           \A o \in Orders : orders'[o].doc = orders[o].doc,
           \A w \in Workers : txn'[w].op = "direct" =>
               txn'[w] = txn[w] /\ orders'[txn[w].order] = orders[txn[w].order]
    PROVE  NumbersDense' /\ CounterHeldOnce'
<1> USE DEF Inv
<1>1. \A o : o \in Documented' <=> o \in Documented
  BY DEF Documented
<1>2. Documented' = Documented
  BY <1>1
<1>3. NumbersDense'
  BY <1>2 DEF NumbersDense
<1>4. ASSUME NEW w \in Workers, txn'[w].op = "direct" PROVE Numbering(txn[w])'
  <2>1. PICK t \in Selling : t = txn[w]
    BY <1>4, ByOperation
  <2>2. Numbering(t)
    BY <1>4, <2>1 DEF CounterHeldOnce
  <2>3. t.at \in Nat /\ now \in Nat /\ now' \in Nat
    BY <2>1 DEF Selling, Typed
  <2>4. orders'[t.order] = orders[t.order]
    BY <1>4, <2>1
  <2> QED BY <1>2, <1>4, <2>1, <2>2, <2>3, <2>4 DEF Numbering
<1> QED BY <1>3, <1>4 DEF CounterHeldOnce, Numbering

(* A sale takes the counter, and with it the next number. *)
LEMMA SaleBegins ==
    ASSUME Inv, NEW w \in Workers, NEW o \in Orders, NEW pay \in Pays,
           SaleInsert(w, o, pay)
    PROVE  NumbersDense' /\ CounterHeldOnce'
<1> USE DEF Inv
<1> DEFINE next == IF pay = "paid" THEN NextDocumentNumber ELSE None
<1>a. PICK n : n = next
  OBVIOUS
<1>b. PICK t : t = [op |-> "direct", order |-> o, at |-> now, pay |-> pay, number |-> n]
  OBVIOUS
<1>1. txn' = [txn EXCEPT ![w] = t] /\ orders' = orders /\ now' = now /\ now \in Nat
  BY <1>a, <1>b DEF SaleInsert, Begin, Typed
<1>2. Documented' = Documented /\ NumbersDense'
  BY <1>1 DEF Documented, NumbersDense
<1>3. n = None \/ /\ n \in Nat \ {0} /\ n <= 1 + Cardinality(Documented)
                  /\ \A p \in Orders : orders[p].doc < n
  BY <1>a, NextNumber
<1>4. orders[o] = NoOrder
  BY DEF SaleInsert, Unused, OrdersTimed, Ordered
<1>5. n = None <=> pay # "paid"
  BY <1>a, NextNumber DEF None
<1>6. None <= 1 + Cardinality(Documented)
  BY DocumentsFinite DEF None
<1>7. Numbering(t)'
  <2>1. t.order = o /\ t.at = now /\ t.pay = pay /\ t.number = n
    BY <1>b
  <2> QED BY <1>1, <1>2, <1>3, <1>4, <1>5, <1>6, <2>1 DEF Numbering
<1>8. \A v \in Workers : v # w => txn'[v] = txn[v] /\ txn[v].op # "direct"
  BY <1>1 DEF SaleInsert, CounterFree, Typed
<1>9. txn'[w] = t
  BY <1>1 DEF Typed
<1> QED BY <1>2, <1>7, <1>8, <1>9 DEF CounterHeldOnce, Numbering

(* A sale with a document is committed with the number that is free. *)
LEMMA SaleEnds ==
    ASSUME Inv, Typed', NEW w \in Workers, SaleCommit(w)
    PROVE  NumbersDense' /\ CounterHeldOnce'
<1> USE DEF Inv
<1>1. PICK t \in Selling : t = txn[w]
  BY ByOperation DEF SaleCommit
<1>2. t.order \in Orders /\ t.number \in Nat
  BY <1>1 DEF Selling
<1>3. Numbering(t)
  BY <1>1 DEF SaleCommit, CounterHeldOnce
<1>4. orders[t.order].doc = None
  BY <1>3 DEF Numbering, NoOrder
<1>5. /\ orders'[t.order].doc = t.number
      /\ \A o \in Orders : o # t.order => orders'[o] = orders[o]
  BY <1>1, <1>2 DEF SaleCommit, Typed, NoOrder
<1>6. \A v \in Workers : txn'[v].op # "direct"
  BY <1>1 DEF SaleCommit, End, Typed, CounterHeldOnce, Idle
<1>7. CASE t.number = None
  <2>1. \A o \in Orders : orders'[o].doc = orders[o].doc
    BY <1>4, <1>5, <1>7
  <2>2. now <= now'
    BY DEF SaleCommit, Typed
  <2> QED BY <1>6, <2>1, <2>2, OtherNumbers
<1>8. CASE t.number # None
  <2>1. \A o : o \in Documented' <=> o \in Documented \cup {t.order}
    BY <1>2, <1>5, <1>8 DEF Documented
  <2>2. Documented' = Documented \cup {t.order} /\ t.order \notin Documented
    BY <1>4, <2>1 DEF Documented
  <2>3. Cardinality(Documented)' = Cardinality(Documented) + 1
    BY <2>2, DocumentsFinite, FS_AddElement
  <2>4. \A o \in Orders : orders[o].doc \in Nat /\ orders[o].doc <= Cardinality(Documented)
    BY DEF NumbersDense, Typed, OrderRow
  <2>5. t.number <= 1 + Cardinality(Documented)
    BY <1>3 DEF Numbering
  <2>6. \A o \in Orders : orders'[o].doc <= Cardinality(Documented) + 1
    BY <1>2, <1>5, <2>4, <2>5, DocumentsFinite
  <2> QED BY <1>6, <2>3, <2>6 DEF NumbersDense, CounterHeldOnce, Numbering
<1> QED BY <1>7, <1>8

(* Numbers stay dense, and the counter is held once. *)
LEMMA KeepsNumbers ==
    ASSUME Inv, [Next]_vars, RowsMove, TxnsMove, Typed'
    PROVE  NumbersDense' /\ CounterHeldOnce'
<1> USE DEF Inv
<1>0. now <= now' /\ Typed
  BY DEF RowsMove
<1>1. \A w \in Workers : txn[w].op = "direct" =>
          txn[w].order \in Orders /\ orders[txn[w].order] = NoOrder
  BY ByOperation DEF CounterHeldOnce, Numbering, Selling
<1>2. ASSUME NEW o \in Orders, CreateCashOrder(o) PROVE NumbersDense' /\ CounterHeldOnce'
  <2>1. orders[o] = NoOrder /\ \A p \in Orders : p # o => orders'[p] = orders[p]
    BY <1>2 DEF CreateCashOrder, Unused, OrdersTimed, Ordered, Typed
  <2>2. orders'[o].doc = NoOrder.doc
    BY <1>2 DEF CreateCashOrder, Typed, NoOrder
  <2>3. \A p \in Orders : orders'[p].doc = orders[p].doc
    BY <2>1, <2>2
  <2>4. \A w \in Workers : txn'[w].op # "direct"
    BY <1>2 DEF CreateCashOrder, CounterFree
  <2> QED BY <1>0, <2>3, <2>4, OtherNumbers
<1>3. ASSUME NEW o \in Orders, Expire(o) PROVE NumbersDense' /\ CounterHeldOnce'
  <2>1. /\ orders[o] # NoOrder /\ orders'[o].doc = orders[o].doc
        /\ \A p \in Orders : p # o => orders'[p] = orders[p]
    BY <1>3 DEF Expire, Typed, NoOrder, OrderRow
  <2>2. txn' = txn
    BY <1>3 DEF Expire
  <2> QED BY <1>0, <1>1, <2>1, <2>2, OtherNumbers
<1>4. ASSUME NEW w \in Workers, MoveCommit(w) PROVE NumbersDense' /\ CounterHeldOnce'
  <2>1. PICK t \in Moving : t = txn[w]
    BY <1>4, ByOperation DEF MoveCommit
  <2>2. t.order \in Orders
    BY <2>1 DEF Moving
  <2>3. orders[t.order].st \in {"pending", "paid"}
    BY <1>4, <2>1 DEF MoveCommit, MovesTimed
  <2>4. /\ orders[t.order] # NoOrder /\ orders'[t.order].doc = orders[t.order].doc
        /\ \A p \in Orders : p # t.order => orders'[p] = orders[p]
    BY <1>4, <2>1, <2>2, <2>3 DEF MoveCommit, Typed, NoOrder, OrderRow
  <2>5. \A v \in Workers : txn'[v].op = "direct" => txn'[v] = txn[v]
    BY <1>4 DEF MoveCommit, End, Typed, Idle
  <2> QED BY <1>0, <1>1, <2>4, <2>5, OtherNumbers
<1>5. ASSUME NEW w \in Workers, SaleCommit(w) PROVE NumbersDense' /\ CounterHeldOnce'
  BY <1>5, SaleEnds
<1>6. ASSUME NEW w \in Workers, NEW o \in Orders, NEW pay \in Pays,
             SaleInsert(w, o, pay)
      PROVE  NumbersDense' /\ CounterHeldOnce'
  BY <1>6, SaleBegins
<1>7. CASE orders' = orders /\ ~ \E w \in Workers, o \in Orders, pay \in Pays :
                                    SaleInsert(w, o, pay)
  <2>1. \A w \in Workers : txn'[w].op = "direct" => txn'[w] = txn[w]
    <3> SUFFICES ASSUME NEW w \in Workers, txn'[w] # txn[w] PROVE txn'[w].op # "direct"
      OBVIOUS
    <3>1. ASSUME NEW o \in Orders, NEW op \in {"collect", "refund"}, MoveRead(w, o, op)
          PROVE  txn'[w].op # "direct"
      BY <3>1 DEF MoveRead, Begin, Typed
    <3>2. ASSUME NEW place \in {Here, Anywhere}, OpenRead(w, place)
          PROVE  txn'[w].op # "direct"
      BY <3>2 DEF OpenRead, Begin, Typed
    <3>3. ASSUME NEW s \in Shifts, CloseRead(w, s) PROVE txn'[w].op # "direct"
      BY <3>3 DEF CloseRead, Begin, Typed
    <3> QED BY <1>7, <3>1, <3>2, <3>3 DEF TxnsMove, Idle
  <2> QED BY <1>0, <1>7, <2>1, OtherNumbers
<1> QED BY <1>2, <1>3, <1>4, <1>5, <1>6, <1>7
        DEF Next, Tick, EditHours, ShowSlots, Submit, RefuseTime, MoveRead, OpenRead,
            OpenInsert, CloseRead, CloseWrite, Rollback, Begin, DirectInsert, OnlineInsert,
            Pays, vars

-----------------------------------------------------------------------------
(* Shifts *)

(* A row written now is not whole in anything that ended by now and holds the    *)
(* moment the order was made.                                                   *)
LEMMA WrittenIsNotWhole ==
    ASSUME NEW r \in OrderRow, NEW t \in Nat, r.done = t, r.made # None, t # None,
           NEW from \in Nat, NEW to \in Nat, to <= t, from <= r.made, r.made <= to
    PROVE  ~ WholeIn(r, from, to)
<1>1. r.made \in Times(r) /\ r.done \in Times(r)
  BY DEF Times
<1>2. r.made \in Nat
  BY DEF OrderRow
<1> QED BY <1>1, <1>2 DEF WholeIn

(* What was counted for a shift is right about every order that stays whole. *)
LEMMA StaysAccounted ==
    ASSUME Inv, RowsMove, Typed', NEW from \in Nat, NEW to \in Nat, NEW n,
           Accounted(from, to, n)
    PROVE  Accounted(from, to, n)'
<1>1. PICK E \in SUBSET Orders : n = Cardinality(E) /\ Counts(E, from, to, orders)
  BY DEF Accounted
<1>2. /\ 0 < from /\ from <= to /\ to <= now /\ now <= now' /\ now \in Nat \ {0} /\ now' \in Nat
  BY DEF Accounted, RowsMove, Inv, Typed
<1>3. \A o \in Orders : orders'[o] \in OrderRow
  BY DEF Typed
<1>4. ASSUME NEW o \in E PROVE from <= orders'[o].made /\ orders'[o].made <= to
  <2>1. from <= orders[o].made /\ orders[o].made <= to
    BY <1>1 DEF Counts
  <2>2. orders[o] # NoOrder
    BY <1>2, <2>1 DEF NoOrder, None
  <2>3. orders'[o].made = orders[o].made
    BY <2>2 DEF RowsMove, Written
  <2> QED BY <2>1, <2>3
<1>5. ASSUME NEW o \in Orders, from <= orders'[o].made, orders'[o].made <= to,
             WholeIn(orders'[o], from, to)
      PROVE  o \in E <=> orders'[o].st = "paid"
  <2>1. CASE orders'[o] = orders[o]
    BY <1>1, <1>5, <2>1 DEF Counts
  <2>2. CASE Written(orders[o], orders'[o], now)
    <3>1. orders'[o].done = now /\ orders'[o].made # None /\ now # None
      BY <1>2, <2>2 DEF Written, Ordered, None
    <3> QED BY <1>2, <1>3, <1>5, <3>1, WrittenIsNotWhole
  <2> QED BY <2>1, <2>2 DEF RowsMove
<1>6. Counts(E, from, to, orders')
  BY <1>4, <1>5 DEF Counts
<1>7. to <= now'
  BY <1>2
<1> QED BY <1>1, <1>2, <1>6, <1>7 DEF Accounted

(* The sum taken at the close counts the orders paid so far. *)
LEMMA CloseAccounts ==
    ASSUME Inv, NEW s \in Shifts, shifts[s].st = "open"
    PROVE  Accounted(shifts[s].from, now, cashSales(s, now))
<1> DEFINE E == {o \in Orders : /\ orders[o].st = "paid"
                                /\ shifts[s].from <= orders[o].made
                                /\ orders[o].made <= now}
<1>1. 0 < shifts[s].from /\ shifts[s].from <= now /\ now <= now
  BY DEF Inv, Typed, ShiftsAccounted
<1>2. cashSales(s, now) = Cardinality(E) /\ E \in SUBSET Orders
  BY DEF cashSales
<1>3. Counts(E, shifts[s].from, now, orders)
  BY DEF Counts
<1> QED BY <1>1, <1>2, <1>3 DEF Accounted

(* Shifts keep the sum they were closed with, and every sum is accounted for. *)
LEMMA KeepsShifts ==
    ASSUME Inv, [Next]_vars, RowsMove, TxnsMove, ShiftsMove, Typed'
    PROVE  ShiftsAccounted'
<1> USE DEF Inv
<1>0. Typed /\ now \in Nat /\ now' \in Nat /\ now <= now'
  BY DEF Typed, RowsMove
<1>1. ASSUME NEW w \in Workers, txn[w].op = "close"
      PROVE  /\ txn[w].shift \in Shifts /\ txn[w].to \in Nat
             /\ shifts[txn[w].shift].st # "none"
             /\ shifts[txn[w].shift].from \in Nat
             /\ Accounted(shifts[txn[w].shift].from, txn[w].to, txn[w].expected)
  <2>1. txn[w] \in Closing
    BY <1>1, ByOperation
  <2>2. txn[w].shift \in Shifts /\ txn[w].to \in Nat
    BY <2>1 DEF Closing
  <2> QED BY <1>1, <2>2 DEF ShiftsAccounted, Typed, ShiftRow
<1>2. ASSUME NEW s \in Shifts
      PROVE  /\ shifts'[s].st = "none" => shifts'[s] = NoShift
             /\ shifts'[s].st # "none" => 0 < shifts'[s].from /\ shifts'[s].from <= now'
             /\ shifts'[s].st = "closed" =>
                  Accounted(shifts[s].from, shifts[s].to, shifts[s].expected)'
             /\ shifts[s].st # "none" => shifts'[s].st # "none" /\ shifts'[s].from = shifts[s].from
  <2>0. shifts[s] \in ShiftRow /\ shifts'[s] \in ShiftRow
    BY DEF Typed
  <2>1. CASE shifts'[s] = shifts[s]
    <3>1. PICK r \in ShiftRow : r = shifts[s]
      BY <2>0
    <3>2. r.from \in Nat /\ r.to \in Nat
      BY DEF ShiftRow
    <3>3. r.st = "closed" => Accounted(r.from, r.to, r.expected)
      BY <3>1 DEF ShiftsAccounted
    <3>4. r.st = "closed" => Accounted(r.from, r.to, r.expected)'
      BY <3>2, <3>3, StaysAccounted
    <3>5. /\ r.st = "none" => r = NoShift
          /\ r.st # "none" => 0 < r.from /\ r.from <= now
      BY <3>1 DEF ShiftsAccounted
    <3> QED BY <1>0, <2>1, <3>1, <3>2, <3>4, <3>5
  <2>2. ASSUME NEW w \in Workers, OpenInsert(w, s)
        PROVE  /\ shifts[s].st = "none" /\ shifts'[s].st = "open" /\ now' = now
               /\ 0 < shifts'[s].from /\ shifts'[s].from <= now
    <3>1. PICK t \in Opening : t = txn[w]
      BY <1>0, <2>2, ByOperation DEF OpenInsert
    <3>2. t.at \in Nat \ {0} /\ t.at <= now
      BY <2>2, <3>1 DEF OpenInsert, Opening, ShiftsAccounted
    <3>3. shifts[s].st = "none" /\ shifts'[s].st = "open" /\ shifts'[s].from = t.at /\ now' = now
      BY <2>2, <3>1 DEF OpenInsert, Typed, NoShift
    <3> QED BY <3>2, <3>3
  <2>3. ASSUME NEW w \in Workers, CloseWrite(w), txn[w].shift = s
        PROVE  /\ shifts'[s].st = "closed" /\ shifts'[s].from = shifts[s].from
               /\ shifts[s].st # "none"
               /\ Accounted(shifts[s].from, shifts[s].to, shifts[s].expected)'
    <3>1. PICK t \in Closing : t = txn[w]
      BY <1>0, <2>3, ByOperation DEF CloseWrite
    <3>2. PICK from \in Nat : from = shifts[s].from
      BY <2>0 DEF ShiftRow
    <3>3. t.to \in Nat /\ shifts[s].st # "none" /\ Accounted(from, t.to, t.expected)
      BY <1>1, <2>3, <3>1, <3>2 DEF CloseWrite
    <3>4. Accounted(from, t.to, t.expected)'
      BY <3>3, StaysAccounted
    <3>5. /\ shifts'[s].st = "closed" /\ shifts'[s].from = from
          /\ shifts'[s].to = t.to /\ shifts'[s].expected = t.expected
      BY <2>0, <2>3, <3>1, <3>2 DEF CloseWrite, Typed, ShiftRow
    <3> QED BY <3>2, <3>3, <3>4, <3>5
  <2>4. ASSUME NEW w \in Workers, CloseWrite(w), txn[w].shift = s
        PROVE  0 < shifts'[s].from /\ shifts'[s].from <= now'
    BY <1>0, <2>0, <2>3, <2>4 DEF ShiftsAccounted, ShiftRow
  <2>5. now \in 1 .. MaxTime
    BY DEF Typed
  <2> QED BY <1>0, <2>1, <2>2, <2>3, <2>4, <2>5 DEF ShiftsMove
<1>3. ASSUME NEW w \in Workers, txn'[w].op = "close"
      PROVE  /\ shifts'[txn'[w].shift].st # "none"
             /\ Accounted(shifts[txn[w].shift].from, txn[w].to, txn[w].expected)'
  <2>1. CASE txn'[w] = txn[w]
    <3>1. PICK t \in Closing : t = txn[w]
      BY <1>0, <1>3, <2>1, ByOperation
    <3>2. PICK from \in Nat : from = shifts[t.shift].from
      BY <1>1, <1>3, <2>1, <3>1
    <3>3. /\ t.shift \in Shifts /\ t.to \in Nat /\ shifts[t.shift].st # "none"
          /\ Accounted(from, t.to, t.expected)
      BY <1>1, <1>3, <2>1, <3>1, <3>2
    <3>4. Accounted(from, t.to, t.expected)'
      BY <3>3, StaysAccounted
    <3>5. shifts'[t.shift].st # "none" /\ shifts'[t.shift].from = from
      BY <1>2, <3>2, <3>3
    <3> QED BY <2>1, <3>1, <3>4, <3>5
  <2>2. CASE txn'[w] = Idle
    BY <1>3, <2>2 DEF Idle
  <2>3. ASSUME NEW o \in Orders, NEW pay \in Pays, SaleInsert(w, o, pay)
        PROVE  FALSE
    BY <1>3, <2>3 DEF SaleInsert, Begin, Typed
  <2>4. ASSUME NEW o \in Orders, NEW op \in {"collect", "refund"}, MoveRead(w, o, op)
        PROVE  FALSE
    BY <1>3, <2>4 DEF MoveRead, Begin, Typed
  <2>5. ASSUME NEW place \in {Here, Anywhere}, OpenRead(w, place) PROVE FALSE
    BY <1>3, <2>5 DEF OpenRead, Begin, Typed
  <2>6. ASSUME NEW s \in Shifts, CloseRead(w, s)
        PROVE  /\ shifts'[txn'[w].shift].st # "none"
               /\ Accounted(shifts[txn[w].shift].from, txn[w].to, txn[w].expected)'
    <3>1. /\ txn'[w].shift = s /\ txn'[w].to = now /\ txn'[w].expected = cashSales(s, now)
          /\ UNCHANGED <<now, orders, shifts>> /\ shifts[s].st = "open"
      BY <2>6 DEF CloseRead, Begin, Typed
    <3>2. Accounted(shifts[s].from, now, cashSales(s, now))
      BY <3>1, CloseAccounts
    <3> QED BY <3>1, <3>2 DEF Accounted
  <2> QED BY <2>1, <2>2, <2>3, <2>4, <2>5, <2>6 DEF TxnsMove
<1>4. ASSUME NEW w \in Workers, txn'[w].op = "open" PROVE txn'[w].at <= now'
  <2>1. CASE txn'[w] = txn[w]
    <3>1. PICK t \in Opening : t = txn[w]
      BY <1>0, <1>4, <2>1, ByOperation
    <3>2. t.at \in Nat /\ t.at <= now
      BY <1>4, <2>1, <3>1 DEF Opening, ShiftsAccounted
    <3> QED BY <1>0, <2>1, <3>1, <3>2
  <2>2. CASE txn'[w] = Idle
    BY <1>4, <2>2 DEF Idle
  <2>3. ASSUME NEW o \in Orders, NEW pay \in Pays, SaleInsert(w, o, pay) PROVE FALSE
    BY <1>4, <2>3 DEF SaleInsert, Begin, Typed
  <2>4. ASSUME NEW o \in Orders, NEW op \in {"collect", "refund"}, MoveRead(w, o, op)
        PROVE  FALSE
    BY <1>4, <2>4 DEF MoveRead, Begin, Typed
  <2>5. ASSUME NEW place \in {Here, Anywhere}, OpenRead(w, place)
        PROVE  txn'[w].at = now /\ now' = now
    BY <2>5 DEF OpenRead, Begin, Typed
  <2>6. ASSUME NEW s \in Shifts, CloseRead(w, s) PROVE FALSE
    BY <1>4, <2>6 DEF CloseRead, Begin, Typed
  <2> QED BY <1>0, <2>1, <2>2, <2>3, <2>4, <2>5, <2>6 DEF TxnsMove
<1> QED BY <1>2, <1>3, <1>4 DEF ShiftsAccounted

-----------------------------------------------------------------------------
(* The theorems *)

LEMMA InitInv == Init => Inv
<1> SUFFICES ASSUME Init PROVE Inv
  OBVIOUS
<1> USE DEF Init
<1>1. Typed
  <2>1. NoOrder \in OrderRow
    BY DEF NoOrder, OrderRow, Status, None
  <2>2. NoShift \in ShiftRow
    BY DocumentsFinite DEF NoShift, ShiftRow, None
  <2> QED BY <2>1, <2>2, TillAssumption DEF Typed, Shown
<1>2. OrdersTimed
  BY DEF OrdersTimed, Ordered, NoOrder, None
<1>3. NumbersDense
  BY DocumentsFinite DEF NumbersDense, NoOrder, None
<1>4. CounterHeldOnce /\ MovesTimed
  BY DEF CounterHeldOnce, MovesTimed, Idle
<1>5. ShiftsAccounted
  BY DEF ShiftsAccounted, NoShift, Idle
<1>6. AskedFromThePage
  BY DEF AskedFromThePage
<1> QED BY <1>1, <1>2, <1>3, <1>4, <1>5, <1>6 DEF Inv

LEMMA NextInv == Inv /\ [Next]_vars => Inv'
<1> SUFFICES ASSUME Inv, [Next]_vars PROVE Inv'
  OBVIOUS
<1>1. Typed'
  BY KeepsTyped
<1>2. RowsMove /\ TxnsMove /\ ShiftsMove
  BY StepRows, StepTxns, StepShifts DEF Inv
<1>3. OrdersTimed' /\ MovesTimed'
  BY <1>1, <1>2, KeepsOrdersTimed, KeepsMoves
<1>4. NumbersDense' /\ CounterHeldOnce'
  BY <1>1, <1>2, KeepsNumbers
<1>5. ShiftsAccounted'
  BY <1>1, <1>2, KeepsShifts
<1>6. AskedFromThePage'
  BY <1>1, <1>2, KeepsAsked
<1> QED BY <1>1, <1>3, <1>4, <1>5, <1>6 DEF Inv

(* Every reachable state satisfies the inductive invariant: movements in order, *)
(* dense numbers, one sale at the counter, and sums that are accounted for      *)
(* (orders, cash shifts and the transactions of the till).                      *)
THEOREM InvAlways == Spec => []Inv
<1>1. Init => Inv
  BY InitInv
<1>2. Inv /\ [Next]_vars => Inv'
  BY NextInv
<1> QED BY <1>1, <1>2, PTL DEF Spec

(* The expiry job never cancels an order for later before its pickup time and *)
(* the half hour after it have passed.                                        *)
THEOREM PickupBeforeExpiryAlways == Spec => []PickupBeforeExpiry
<1>1. Inv => PickupBeforeExpiry
  <2> SUFFICES ASSUME Inv, NEW o \in Orders, orders[o].st = "cancelled",
                      orders[o].pickup # None
               PROVE  orders[o].pickup + Grace <= orders[o].done
    BY DEF PickupBeforeExpiry
  <2>1. orders[o] \in OrderRow /\ Ordered(orders[o], now)
    BY DEF Inv, Typed, OrdersTimed
  <2> QED BY <2>1, TillAssumption DEF Ordered, OrderRow
<1> QED BY <1>1, InvAlways, PTL

(* getNextDocumentNumber needs no lock of its own: the order counter, held until *)
(* the end of the sale, keeps every other sale from taking the number.           *)
THEOREM NumbersNeverClashAlways == Spec => []NumbersNeverClash
<1>1. Inv => NumbersNeverClash
  <2> SUFFICES ASSUME Inv, NEW w \in Workers, txn[w].op = "direct",
                      txn[w].number # None, NEW o \in Orders, orders[o].doc = txn[w].number
               PROVE  FALSE
    BY DEF NumbersNeverClash, NumberTaken
  <2>1. orders[o].doc < txn[w].number /\ orders[o].doc \in Nat
    BY DEF Inv, CounterHeldOnce, Numbering, Typed, OrderRow
  <2> QED BY <2>1
<1> QED BY <1>1, InvAlways, PTL

(* A closed shift in which every order is whole expects what went through the     *)
(* drawer and what was paid online.                                              *)
LEMMA AccountedIsDrawer ==
    ASSUME Inv, NEW s \in Shifts, shifts[s].st = "closed", \A o \in Orders : Whole(o, s)
    PROVE  shifts[s].expected = Drawer(s) + PaidElsewhere(s)
<1> DEFINE from == shifts[s].from
           to == shifts[s].to
           P == {o \in Orders : during(orders[o].paid, s)}
           B == {o \in Orders : during(orders[o].back, s)}
           C == {o \in Orders : during(orders[o].paid, s) /\ ~ orders[o].online}
           M == {o \in Orders : during(orders[o].paid, s) /\ orders[o].online}
<1>1. from \in Nat /\ to \in Nat
  BY DEF Inv, Typed, ShiftRow
<1>2. Accounted(from, to, shifts[s].expected)
  BY DEF Inv, ShiftsAccounted
<1>3. PICK E \in SUBSET Orders :
          shifts[s].expected = Cardinality(E) /\ Counts(E, from, to, orders)
  BY <1>2 DEF Accounted
<1>4. 0 < from /\ from <= to
  BY <1>2 DEF Accounted
<1>5. ASSUME NEW o \in Orders
      PROVE  /\ o \in E <=> o \in P /\ o \notin B
             /\ o \in B => o \in P
  <2>1. PICK r \in OrderRow : r = orders[o]
    BY DEF Inv, Typed
  <2>2. Ordered(r, now)
    BY <2>1 DEF Inv, OrdersTimed
  <2>3. WholeIn(r, from, to)
    BY <2>1 DEF Whole, Moments, WholeIn, Times
  <2>4. r.made \in Nat /\ r.paid \in Nat /\ r.back \in Nat /\ r.done \in Nat
    BY DEF OrderRow
  <2>5. o \in E => from <= r.made /\ r.made <= to
    BY <1>3, <2>1 DEF Counts
  <2>6. from <= r.made /\ r.made <= to => (o \in E <=> r.st = "paid")
    BY <1>3, <2>1, <2>3 DEF Counts
  <2>7. \A t, u \in Times(r) : from <= t /\ t <= to => from <= u /\ u <= to
    BY <1>1, <2>3, <2>4, SMTT(30) DEF WholeIn, Times
  <2>8. CASE r.st = "none"
    <3>1. r.made = None /\ r.paid = None /\ r.back = None
      BY <2>2, <2>8 DEF Ordered, NoOrder
    <3>2. o \notin E
      BY <1>1, <1>4, <2>5, <3>1 DEF None
    <3>3. o \notin P /\ o \notin B
      BY <2>1, <3>1 DEF during
    <3> QED BY <3>2, <3>3
  <2>9. CASE r.st # "none"
    <3>1. r.made \in Times(r)
      BY <2>2, <2>9 DEF Ordered, Times, None
    <3>2. r.paid # None => r.paid \in Times(r)
      BY DEF Times
    <3>3. r.back # None => r.back \in Times(r)
      BY DEF Times
    <3>4. r.paid # None => (from <= r.made /\ r.made <= to <=> from <= r.paid /\ r.paid <= to)
      BY <2>7, <3>1, <3>2
    <3>5. r.back # None => (from <= r.made /\ r.made <= to <=> from <= r.back /\ r.back <= to)
      BY <2>7, <3>1, <3>3
    <3>6. /\ r.paid # None <=> r.st \in {"paid", "refunded"}
          /\ r.back # None <=> r.st = "refunded"
      BY <2>2 DEF Ordered
    <3> DEFINE inside == from <= r.made /\ r.made <= to
    <3>7. o \in E <=> inside /\ r.st = "paid"
      BY <2>5, <2>6
    <3>8. o \in P <=> inside /\ r.st \in {"paid", "refunded"}
      BY <2>1, <3>4, <3>6 DEF during
    <3>9. o \in B <=> inside /\ r.st = "refunded"
      BY <2>1, <3>5, <3>6 DEF during
    <3> HIDE DEF inside, P, B
    <3> QED BY <3>7, <3>8, <3>9
  <2> QED BY <2>8, <2>9
<1>6. \A o : o \in E <=> o \in P \ B
  BY <1>5
<1>7. E = P \ B /\ B \subseteq P /\ P \in SUBSET Orders
  BY <1>5, <1>6
<1>8. /\ Drawer(s) = Cardinality(C) - Cardinality(B)
      /\ PaidElsewhere(s) = Cardinality(M)
  BY DEF Drawer, PaidElsewhere
<1>9. C = P \ M /\ M \subseteq P
  OBVIOUS
<1> HIDE DEF P, B, C, M
<1>10. /\ IsFiniteSet(P) /\ IsFiniteSet(B) /\ IsFiniteSet(M)
       /\ Cardinality(P) \in Nat /\ Cardinality(B) \in Nat /\ Cardinality(M) \in Nat
  <2>1. M \in SUBSET Orders /\ B \in SUBSET Orders
    BY <1>7, <1>9
  <2> QED BY <1>7, <2>1, DocumentsFinite, FS_Subset, FS_CardinalityType
<1>11. /\ Cardinality(P \ B) = Cardinality(P) - Cardinality(P \cap B)
       /\ Cardinality(P \ M) = Cardinality(P) - Cardinality(P \cap M)
  BY <1>10, FS_Difference
<1>12. P \cap B = B /\ P \cap M = M
  BY <1>7, <1>9
<1>13. shifts[s].expected = Cardinality(P) - Cardinality(B)
  BY <1>3, <1>7, <1>11, <1>12
<1>14. Drawer(s) = Cardinality(P) - Cardinality(M) - Cardinality(B)
  BY <1>8, <1>9, <1>11, <1>12
<1>15. \A p, b, m \in Nat : p - b = (p - m - b) + m
  OBVIOUS
<1> QED BY <1>8, <1>10, <1>13, <1>14, <1>15

(* For every shift no order straddles, the expected cash (cash-shift service) is   *)
(* what went through the drawer and what Mercado Pago was paid for, however the     *)
(* transactions interleave.                                                        *)
THEOREM ShiftsAgreeAlways == Spec => []ShiftsAgree
<1>1. Inv => TypeOK
  <2> SUFFICES ASSUME Inv PROVE TypeOK
    OBVIOUS
  <2>1. \A o \in Orders : orders[o] \in OrderRow
    BY DEF Inv, Typed
  <2>2. \A s \in Shifts : shifts[s] \in ShiftRow
    BY DEF Inv, Typed
  <2>3. \A o \in Orders : orders[o].doc \in 0 .. Cardinality(Orders)
    BY <2>1, DocumentsFinite DEF Inv, NumbersDense, OrderRow
  <2> QED BY <2>1, <2>2, <2>3 DEF Inv, Typed, TypeOK, OrderRow, ShiftRow, Status
<1>2. Inv => ExpectedCashIsExplained
  BY AccountedIsDrawer DEF ExpectedCashIsExplained
<1>3. Inv => ShiftsAgree
  BY <1>1, <1>2 DEF ShiftsAgree
<1> QED BY <1>3, InvAlways, PTL

(* validateScheduledPickupTime refuses a time the page offered only if the list was *)
(* older than the difference of the two notices or the opening hours have changed.   *)
THEOREM OfferIsHonouredAlways == Spec => OfferIsHonoured
<1> DEFINE Honoured == asked # NoRequest /\ asked' = NoRequest /\ orders' = orders =>
                           \/ now - page.at > Notice - Lead
                           \/ hours # page.hours
<1>1. Inv /\ [Next]_vars => [Honoured]_vars
  <2> SUFFICES ASSUME Inv, Next, asked # NoRequest, asked' = NoRequest, orders' = orders,
                      ~ (now - page.at > Notice - Lead), hours = page.hours
               PROVE  FALSE
    OBVIOUS
  <2>1. ~ \E o \in Orders : CreateCashOrder(o)
    <3> SUFFICES ASSUME NEW o \in Orders, CreateCashOrder(o) PROVE FALSE
      OBVIOUS
    <3>1. orders[o].st = "none" /\ orders'[o].st = "pending"
      BY DEF CreateCashOrder, Unused, Inv, Typed, NoOrder
    <3> QED BY <3>1
  <2>2. RefuseTime
    BY <2>1 DEF Next, Tick, EditHours, ShowSlots, Submit, Expire, DirectInsert, OnlineInsert,
                SaleInsert, MoveRead,
                OpenRead, OpenInsert, CloseRead, SaleCommit, MoveCommit, CloseWrite,
                Rollback, Begin
  <2>3. asked.pickup # None /\ ~ validateScheduledPickupTime(hours, asked.pickup)
    BY <2>2 DEF RefuseTime, Acceptable
  <2>4. page \in Shown /\ asked \in Request
    BY DEF Inv, Typed, AskedFromThePage
  <2>5. page.at \in Nat /\ asked.pickup \in Nat /\ now \in Nat
    BY <2>4 DEF Shown, Request, Inv, Typed
  <2>6. /\ page.at + Notice <= asked.pickup
        /\ asked.pickup <= now + DaysAhead * DayLength
        /\ hours.set => hasOpeningHours(hours)
        /\ Open(hours, asked.pickup)
    BY <2>3 DEF Inv, AskedFromThePage
  <2>7. asked.pickup >= now + Lead
    BY <2>5, <2>6, TillAssumption
  <2> QED BY <2>3, <2>6, <2>7 DEF validateScheduledPickupTime, EarlyEnough
<1>2. Spec => [][Honoured]_vars
  BY <1>1, InvAlways, PTL DEF Spec
<1> QED BY <1>2 DEF OfferIsHonoured

=============================================================================
