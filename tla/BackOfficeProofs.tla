-------------------------- MODULE BackOfficeProofs --------------------------
(***************************************************************************)
(* Proofs about the two screens of the back office, for every set of rows, *)
(* editors and requests: the menu editors of Catalog and, further down,    *)
(* the live order board of Board, whose Init, Next and Spec are BoardInit, *)
(* BoardNext and BoardSpec, so that both modules can be extended at once.  *)
(***************************************************************************)
EXTENDS Catalog, Board, FiniteSetTheorems, TLAPS

-----------------------------------------------------------------------------
(* The catalogue: the inductive invariant. *)

Statuses == {"none", "draft", "active", "unavailable", "archived"}
Shelved == {"none", "archived"}

(* What a status button of the coupon panel shows before it is answered. *)
Toggled == {"active", "unavailable"}

(* The same content, or a coupon whose button has been pressed. *)
Alike(r, h, row) ==
  \/ Content(h) = Content(row)
  \/ /\ r \in Coupons
     /\ h.val = row.val /\ h.cat = row.cat /\ h.track = row.track
     /\ h.st \in Toggled /\ row.st \in Toggled

(* A copy h of row r, now row, that left the database at some time: it is  *)
(* older than the row, or it is the row as far as its content goes.        *)
Copy(r, h, row) ==
  /\ h \in Row
  /\ h.ver <= row.ver
  /\ h.ver = row.ver => Alike(r, h, row)
  /\ r \in Coupons => h.st # "draft"

(* The fields the forms and the buttons send. *)
Changes ==
  LET st == Statuses \ {"none"}
  IN  [st : st] \cup [val : Vals] \cup [val : Vals, cat : Cats] \cup [st : st, cat : Cats]
        \cup [st : st, track : {FALSE}, stock : {0}]
        \cup [st : st, val : Vals, cat : Cats, track : BOOLEAN, stock : 0..MaxStock]

ARequest == [row : Rows, how : {"create", "patch", "sweep", "delete"},
             change : Changes, ver : Nat, base : Row]

(* What each kind of row can be asked to become. *)
CategoryRequest(q) ==
  /\ DOMAIN q.change = {"st"}
  /\ q.how = "create" => q.change.st = "draft"
  /\ q.how = "patch" => q.change.st = "active" /\ q.base.st = "draft"
  /\ q.how = "delete" => q.change.st = "archived"
  /\ q.how # "sweep"

SoldRequest(q) ==
  /\ q.how = "create" => "cat" \in DOMAIN q.change
  /\ "stock" \in DOMAIN q.change => q.row \in Items

CouponRequest(q) ==
  /\ DOMAIN q.change = {"st"} /\ q.change.st # "draft"
  /\ q.how = "patch" => /\ q.base.st \in Toggled /\ q.change.st \in Toggled
                        /\ q.change.st # q.base.st
  /\ q.how # "sweep"

(* A request of an editor's browser names a copy of its row; d is the      *)
(* database.                                                               *)
RequestOK(q, d) ==
  /\ q \in ARequest
  /\ q.ver = q.base.ver
  /\ Copy(q.row, q.base, d[q.row])
  /\ IF q.how = "create" THEN q.base.st = "none" /\ "st" \in DOMAIN q.change
     ELSE q.base.st \notin Shelved
  /\ "cat" \in DOMAIN q.change => q.row \in Sold
  /\ q.row \in Cats => CategoryRequest(q)
  /\ q.row \in Sold => SoldRequest(q)
  /\ q.row \in Coupons => CouponRequest(q)

Phases == {"sent", "checked", "written", "done", "conflict", "refused"}

ACall == [by : Editors \cup {Gone}, todo : Seq(ARequest) \ {<<>>}, phase : Phases, got : Row]

(* A call is a queue of requests; what it got is its row as it was written. *)
CallOK(c, d) ==
  /\ c \in ACall
  /\ \A n \in DOMAIN c.todo : RequestOK(c.todo[n], d)
  /\ c.phase \in {"written", "done"} => Copy(c.todo[1].row, c.got, d[c.todo[1].row])
  /\ c.phase = "written" => c.todo[1].row \in Items

(* A row that was never created is empty and has version 0. *)
RowsOK ==
  /\ db \in [Rows -> Row]
  /\ \A r \in Rows :
       /\ (db[r].st = "none") <=> (db[r].ver = 0)
       /\ db[r].st = "none" => db[r].cat = "none" /\ db[r].val = 0 /\ db[r].track = FALSE
       /\ r \in Sold /\ db[r].st # "none" => db[r].cat \in Cats
       /\ r \in Coupons => db[r].st # "draft"

Screens ==
  /\ view \in [Editors -> [Rows -> Row]]
  /\ \A e \in Editors, r \in Rows : Copy(r, view[e][r], db[r])

Requests ==
  /\ calls = [k \in Slots |-> calls[k]]
  /\ \A k \in Slots : calls[k] # NoCall => CallOK(calls[k], db)

(* The children a deletion counted were none, and it stays so, but for what *)
(* came in late.                                                            *)
Empty(c) == \A r \in Sold \ late : db[r].cat = c => db[r].st \in Shelved

DeletionsCounted ==
  \A k \in Slots : calls[k].phase = "checked" /\ Req(k).row \in Cats
                   /\ Req(k).how = "delete" => Empty(Req(k).row)

(* An item or combo is published in a category that was on sale. *)
Opened(c) == c \in Cats /\ db[c].st \in {"active", "archived"}

PublicationsChecked ==
  \A k \in Slots :
    LET q == Req(k)
        row == Written(db[q.row], q.change)
    IN  calls[k].phase = "checked" /\ q.row \in Sold /\ db[q.row].ver = q.ver
        /\ row.st = "active" => Opened(row.cat)

SoldInOpened == \A r \in Sold : db[r].st = "active" => Opened(db[r].cat)
ArchivedAreEmpty == \A c \in Cats : db[c].st = "archived" => Empty(c)

(* The record of the stock is the shelf, but for the items adrift. *)
RecordAgrees ==
  /\ shelf \in [Items -> [counted : BOOLEAN, n : Int]]
  /\ \A i \in Items \ adrift :
       /\ shelf[i].counted = db[i].track
       /\ db[i].track => shelf[i].n = db[i].stock

Marks ==
  /\ search \in [Items -> SUBSET Vals]
  /\ late \subseteq Sold /\ adrift \subseteq Items /\ troubled \subseteq Items

CatalogInv ==
  /\ RowsOK /\ Screens /\ Requests /\ Marks
  /\ DeletionsCounted /\ PublicationsChecked /\ SoldInOpened /\ ArchivedAreEmpty
  /\ RecordAgrees /\ SearchFollowsMenu

-----------------------------------------------------------------------------
(* Rows and copies of rows. *)

(* The fields of a change are typed; only the item form can begin to count. *)
LEMMA ChangeFields ==
  ASSUME NEW change \in Changes
  PROVE  /\ "st" \in DOMAIN change => change.st \in Statuses \ {"none"}
         /\ "val" \in DOMAIN change => change.val \in Vals
         /\ "cat" \in DOMAIN change => change.cat \in Cats
         /\ "track" \in DOMAIN change => change.track \in BOOLEAN
         /\ "stock" \in DOMAIN change => change.stock \in 0..MaxStock
         /\ "track" \in DOMAIN change /\ "cat" \notin DOMAIN change => change.track = FALSE
<1> DEFINE st == Statuses \ {"none"}
<1>1. CASE change \in [st : st] \/ change \in [val : Vals]
  BY <1>1
<1>5. CASE change \in [val : Vals, cat : Cats] \/ change \in [st : st, cat : Cats]
  BY <1>5
<1>2. CASE change \in [st : st, track : {FALSE}, stock : {0}]
  <2>1. change.st \in st /\ change.track \in {FALSE} /\ change.stock \in {0}
        /\ DOMAIN change = {"st", "track", "stock"}
    BY <1>2
  <2>2. 0 \in 0..MaxStock
    BY DEF MaxStock
  <2>3. QED
    BY <2>1, <2>2, Zenon
<1>3. CASE change \in [st : st, val : Vals, cat : Cats, track : BOOLEAN, stock : 0..MaxStock]
  BY <1>3
<1>4. QED
  BY <1>1, <1>2, <1>3, <1>5 DEF Changes

(* What an update writes: the fields it names, and the next version. *)
LEMMA WrittenIs ==
  ASSUME NEW row \in Row, NEW change \in Changes
  PROVE  LET w == Written(row, change)
         IN  /\ w \in Row
             /\ w.ver = row.ver + 1
             /\ w.st = IF "st" \in DOMAIN change THEN change.st ELSE row.st
             /\ w.val = IF "val" \in DOMAIN change THEN change.val ELSE row.val
             /\ w.cat = IF "cat" \in DOMAIN change THEN change.cat ELSE row.cat
             /\ w.track = IF "track" \in DOMAIN change THEN change.track ELSE row.track
             /\ w.stock = IF "stock" \in DOMAIN change THEN change.stock ELSE row.stock
<1>1. DOMAIN row = {"st", "ver", "val", "cat", "track", "stock"}
  BY DEF Row
<1>2. /\ "st" \in DOMAIN change => change.st \in Statuses
      /\ "val" \in DOMAIN change => change.val \in Vals
      /\ "cat" \in DOMAIN change => change.cat \in Cats
      /\ "track" \in DOMAIN change => change.track \in BOOLEAN
      /\ "stock" \in DOMAIN change => change.stock \in 0..MaxStock
  BY ChangeFields
<1>3. Written(row, change) =
        [st |-> IF "st" \in DOMAIN change THEN change.st ELSE row.st,
         ver |-> row.ver + 1,
         val |-> IF "val" \in DOMAIN change THEN change.val ELSE row.val,
         cat |-> IF "cat" \in DOMAIN change THEN change.cat ELSE row.cat,
         track |-> IF "track" \in DOMAIN change THEN change.track ELSE row.track,
         stock |-> IF "stock" \in DOMAIN change THEN change.stock ELSE row.stock]
  BY <1>1 DEF Written
<1>4. QED
  BY <1>2, <1>3 DEF Row, Statuses

(* An empty row is a copy of any row of the table. *)
LEMMA EmptyCopy ==
  ASSUME RowsOK, NEW r \in Rows
  PROVE  Copy(r, NoRow, db[r])
<1>1. NoRow \in Row /\ NoRow.ver = 0 /\ NoRow.st # "draft"
  BY DEF NoRow, Row, Vals, MaxStock
<1>2. db[r].ver \in Nat
  BY DEF RowsOK, Row
<1>3. db[r].ver = 0 => Content(NoRow) = Content(db[r])
  BY DEF RowsOK, NoRow, Content
<1>4. QED
  BY <1>1, <1>2, <1>3 DEF Copy, Alike

(* A row is a copy of itself. *)
LEMMA OwnCopy ==
  ASSUME NEW r, NEW row \in Row, r \in Coupons => row.st # "draft"
  PROVE  Copy(r, row, row)
BY DEF Copy, Row, Alike

(* Row b is row a or came after it. *)
Outcome(a, b) == /\ b \in Row
               /\ \/ b.ver > a.ver
                  \/ b.ver = a.ver /\ Content(b) = Content(a)

(* A copy stays a copy. *)
LEMMA CopyStays ==
  ASSUME NEW r, NEW h, NEW a \in Row, NEW b, Copy(r, h, a), Outcome(a, b)
  PROVE  Copy(r, h, b)
BY DEF Copy, Outcome, Row, Alike, Content

Onward(d, e) == \A r \in Rows : Outcome(d[r], e[r])

(* Requests and calls stay well formed while the rows move on. *)
LEMMA RequestStays ==
  ASSUME NEW q, NEW d \in [Rows -> Row], NEW e, RequestOK(q, d), Onward(d, e)
  PROVE  RequestOK(q, e)
<1>1. q.row \in Rows /\ Copy(q.row, q.base, d[q.row])
  BY DEF RequestOK, ARequest
<1>2. Copy(q.row, q.base, e[q.row])
  BY <1>1, CopyStays DEF Onward
<1>3. QED
  BY <1>2 DEF RequestOK

(* A call under way has a first request.                                    *)
LEMMA FirstRequest ==
  ASSUME NEW c \in ACall
  PROVE  /\ 1 \in DOMAIN c.todo /\ Head(c.todo) = c.todo[1]
         /\ c.todo[1] \in ARequest /\ c.todo[1].row \in Rows
         /\ c # NoCall
<1>1. c.todo \in Seq(ARequest) /\ c.todo # <<>> /\ c.phase \in Phases
  BY DEF ACall
<1>2. 1 \in DOMAIN c.todo /\ Head(c.todo) = c.todo[1] /\ c.todo[1] \in ARequest
  BY <1>1
<1>3. c.phase # "free"
  BY <1>1 DEF Phases
<1>4. QED
  BY <1>2, <1>3 DEF ARequest, NoCall

(* A call that is well formed stays so when rows only move on.              *)
LEMMA CallStays ==
  ASSUME NEW c, NEW d \in [Rows -> Row], NEW e, CallOK(c, d), Onward(d, e)
  PROVE  CallOK(c, e)
<1>1. c \in ACall /\ c.todo[1].row \in Rows
  BY FirstRequest DEF CallOK
<1>2. \A n \in DOMAIN c.todo : RequestOK(c.todo[n], e)
  BY RequestStays DEF CallOK
<1>3. ASSUME c.phase \in {"written", "done"}
      PROVE  Copy(c.todo[1].row, c.got, e[c.todo[1].row])
  BY <1>1, <1>3, CopyStays DEF CallOK, Onward
<1>4. QED
  BY <1>1, <1>2, <1>3 DEF CallOK

(* The first request of a call. *)
LEMMA ReqOK ==
  ASSUME Requests, NEW k \in Slots, calls[k] # NoCall
  PROVE  /\ Req(k) = calls[k].todo[1]
         /\ RequestOK(Req(k), db)
         /\ Req(k) \in ARequest /\ Req(k).row \in Rows
         /\ CallOK(calls[k], db) /\ calls[k] \in ACall
<1>1. CallOK(calls[k], db) /\ calls[k] \in ACall
  BY DEF Requests, CallOK
<1>2. QED
  BY <1>1, FirstRequest DEF Req, CallOK

(* A slot under way holds a call. *)
LEMMA BusySlot ==
  ASSUME NEW k \in Slots, calls[k].phase # "free"
  PROVE  calls[k] # NoCall
BY DEF NoCall

-----------------------------------------------------------------------------
(* What a step that writes no row leaves true. *)

(* Every call that has been checked, or whose copy to the index is still to *)
(* come, was so before the step, with the same request.                     *)
NoneAhead ==
  \A k \in Slots :
    /\ calls'[k].phase = "checked" => calls[k].phase = "checked" /\ Req(k)' = Req(k)
    /\ calls[k].phase = "written" => calls'[k].phase = "written" /\ Req(k)' = Req(k)

(* A step that writes no row and checks no request keeps the rest.          *)
LEMMA FrameStays ==
  ASSUME CatalogInv, NoneAhead, Screens', Requests',
         UNCHANGED <<db, search, shelf, late, adrift, troubled>>
  PROVE  CatalogInv'
<1>1. DeletionsCounted'
  BY DEF CatalogInv, NoneAhead, DeletionsCounted, Empty
<1>2. PublicationsChecked'
  BY DEF CatalogInv, NoneAhead, PublicationsChecked, Opened
<1>3. SearchFollowsMenu'
  BY DEF CatalogInv, NoneAhead, SearchFollowsMenu, MenuEntry
<1>4. RowsOK' /\ Marks' /\ SoldInOpened' /\ ArchivedAreEmpty' /\ RecordAgrees'
  BY DEF CatalogInv, RowsOK, Marks, SoldInOpened, ArchivedAreEmpty, RecordAgrees, Opened, Empty
<1>5. QED
  BY <1>1, <1>2, <1>3, <1>4 DEF CatalogInv

(* A click sends a queue of well-formed requests. *)
LEMMA SendStays ==
  ASSUME CatalogInv, NEW e \in Editors, NEW todo \in Seq(ARequest) \ {<<>>},
         \A n \in DOMAIN todo : RequestOK(todo[n], db),
         Send(e, todo), Screens'
  PROVE  CatalogInv'
<1> DEFINE new == [by |-> e, todo |-> todo, phase |-> "sent", got |-> NoRow]
<1>1. PICK k \in Slots : calls[k] = NoCall /\ calls' = [calls EXCEPT ![k] = new]
  BY DEF Send
<1>2. NoRow \in Row
  BY DEF NoRow, Row, Vals, MaxStock
<1>3. CallOK(new, db)
  BY <1>2 DEF CallOK, ACall, Phases
<1>4. calls = [j \in Slots |-> calls[j]]
  BY DEF CatalogInv, Requests
<1>5. calls'[k] = new /\ \A j \in Slots \ {k} : calls'[j] = calls[j]
  BY <1>1, <1>4
<1>6. UNCHANGED <<db, search, shelf, late, adrift, troubled>>
  BY DEF Send
<1>7. Requests'
  <2>1. calls' = [j \in Slots |-> calls'[j]]
    BY <1>1, <1>4
  <2>2. ASSUME NEW j \in Slots, calls'[j] # NoCall PROVE CallOK(calls'[j], db')
    BY <1>3, <1>5, <1>6, <2>2 DEF CatalogInv, Requests
  <2>3. QED
    BY <2>1, <2>2 DEF Requests
<1>8. NoneAhead
  BY <1>1, <1>5 DEF NoneAhead, Req, NoCall
<1>9. QED
  BY <1>6, <1>7, <1>8, FrameStays

(* What an editor sees is a well-formed base for a request. *)
LEMMA AskOK ==
  ASSUME CatalogInv, NEW e \in Editors, NEW r \in Rows, NEW how, NEW change \in Changes,
         how \in {"create", "patch", "sweep", "delete"},
         IF how = "create" THEN db[r].st = "none" /\ "st" \in DOMAIN change
         ELSE view[e][r].st \notin Shelved,
         "cat" \in DOMAIN change => r \in Sold,
         LET q == Request(e, r, how, change)
         IN  /\ r \in Cats => CategoryRequest(q)
             /\ r \in Sold => SoldRequest(q)
             /\ r \in Coupons => CouponRequest(q)
  PROVE  RequestOK(Request(e, r, how, change), db)
<1> DEFINE q == Request(e, r, how, change)
<1>1. view[e][r] \in Row /\ Copy(r, view[e][r], db[r]) /\ db[r] \in Row
  BY DEF CatalogInv, Screens, RowsOK
<1>2. q \in ARequest /\ q.row = r /\ q.how = how /\ q.change = change
      /\ q.base = view[e][r] /\ q.ver = q.base.ver
  BY <1>1 DEF Request, ARequest, Row
<1>3. ASSUME how = "create" PROVE view[e][r].st = "none"
  <2>1. db[r].st = "none" /\ db[r].ver = 0
    BY <1>3 DEF CatalogInv, RowsOK
  <2>2. view[e][r].ver = 0
    BY <1>1, <2>1 DEF Copy, Row
  <2>3. QED
    BY <1>1, <2>1, <2>2 DEF Copy, Alike, Content, Toggled
<1>4. QED
  BY <1>1, <1>2, <1>3 DEF RequestOK

(* A click that sends one request. *)
LEMMA AskStays ==
  ASSUME CatalogInv, NEW e \in Editors, NEW q, RequestOK(q, db),
         Send(e, <<q>>), Screens'
  PROVE  CatalogInv'
<1>1. q \in ARequest
  BY DEF RequestOK
<1>2. /\ <<q>> \in Seq(ARequest) \ {<<>>}
      /\ \A n \in DOMAIN <<q>> : RequestOK(<<q>>[n], db)
  BY <1>1
<1>3. QED
  BY <1>2, SendStays

(* Screens nobody touches stay copies of rows that do not change.           *)
LEMMA ScreensStay ==
  ASSUME Screens, UNCHANGED <<db, view>>
  PROVE  Screens'
BY DEF Screens

-----------------------------------------------------------------------------
(* The clicks of the editors. *)

(* No row is of two kinds. *)
LEMMA Kinds ==
  /\ \A r \in Cats : r \notin Sold /\ r \notin Coupons /\ r \in Rows
  /\ \A r \in Sold : r \notin Cats /\ r \notin Coupons /\ r \in Rows
  /\ \A r \in Groups : r \notin Cats /\ r \notin Sold /\ r \notin Coupons /\ r \in Rows
  /\ \A r \in Coupons : r \notin Cats /\ r \notin Sold /\ r \in Rows
  /\ Items \subseteq Sold /\ Combos \subseteq Sold
BY CatalogAssumption DEF Sold, Rows

(* The changes the clicks name. *)
LEMMA ClickChanges ==
  /\ \A s \in Statuses \ {"none"} : [st |-> s] \in Changes /\ DOMAIN [st |-> s] = {"st"}
  /\ \A v \in Vals : [val |-> v] \in Changes /\ DOMAIN [val |-> v] = {"val"}
  /\ \A v \in Vals, c \in Cats :
       /\ [val |-> v, cat |-> c] \in Changes
       /\ DOMAIN [val |-> v, cat |-> c] = {"val", "cat"}
  /\ \A s \in Statuses \ {"none"}, c \in Cats :
       /\ [st |-> s, cat |-> c] \in Changes
       /\ DOMAIN [st |-> s, cat |-> c] = {"st", "cat"}
  /\ \A s \in Statuses \ {"none"}, v \in Vals, c \in Cats, t \in BOOLEAN, n \in 0..MaxStock :
       /\ [st |-> s, val |-> v, cat |-> c, track |-> t, stock |-> n] \in Changes
       /\ DOMAIN [st |-> s, val |-> v, cat |-> c, track |-> t, stock |-> n]
            = {"st", "val", "cat", "track", "stock"}
  /\ \A s \in Statuses \ {"none"} :
       StatusOnly(s) \in Changes /\ DOMAIN StatusOnly(s) = {"st", "track", "stock"}
<1>1. \A s \in Statuses \ {"none"} : [st |-> s] \in Changes /\ DOMAIN [st |-> s] = {"st"}
  BY DEF Changes
<1>2. \A v \in Vals : [val |-> v] \in Changes /\ DOMAIN [val |-> v] = {"val"}
  BY DEF Changes
<1>3. \A v \in Vals, c \in Cats :
       /\ [val |-> v, cat |-> c] \in Changes
       /\ DOMAIN [val |-> v, cat |-> c] = {"val", "cat"}
  BY DEF Changes
<1>4. \A s \in Statuses \ {"none"}, c \in Cats :
       /\ [st |-> s, cat |-> c] \in Changes
       /\ DOMAIN [st |-> s, cat |-> c] = {"st", "cat"}
  BY DEF Changes
<1>5. \A s \in Statuses \ {"none"}, v \in Vals, c \in Cats, t \in BOOLEAN, n \in 0..MaxStock :
       /\ [st |-> s, val |-> v, cat |-> c, track |-> t, stock |-> n] \in Changes
       /\ DOMAIN [st |-> s, val |-> v, cat |-> c, track |-> t, stock |-> n]
            = {"st", "val", "cat", "track", "stock"}
  BY DEF Changes
<1>6. \A s \in Statuses \ {"none"} :
       StatusOnly(s) \in Changes /\ DOMAIN StatusOnly(s) = {"st", "track", "stock"}
  BY DEF Changes, StatusOnly
<1>7. QED
  BY <1>1, <1>2, <1>3, <1>4, <1>5, <1>6

(* The status buttons name statuses.                                        *)
LEMMA StatusNames ==
  /\ {"draft", "active", "unavailable", "archived"} \subseteq Statuses \ {"none"}
  /\ 0 \in Vals /\ \A v \in Vals : 1 - v \in Vals
  /\ {0, 1} \subseteq 0..MaxStock
BY DEF Statuses, Vals, MaxStock

(* An editor's screen is typed, and a row shown is one that exists. *)
LEMMA ShownRow ==
  ASSUME CatalogInv, NEW e \in Editors, NEW r \in Rows
  PROVE  /\ view[e][r] \in Row /\ view[e][r].st \in Statuses
         /\ view[e][r].val \in Vals /\ view[e][r].stock \in 0..MaxStock
         /\ Shown(e, r) <=> view[e][r].st \notin Shelved
<1>1. view[e][r] \in Row
  BY DEF CatalogInv, Screens
<1>2. QED
  BY <1>1 DEF Row, Statuses, Shown, Shelved

(* A change that archives: it moves nothing to another category, and only   *)
(* items have a stock to stop counting.                                     *)
Archives(change, rows) ==
  /\ change \in Changes /\ "cat" \notin DOMAIN change
  /\ rows \subseteq Items \/ "stock" \notin DOMAIN change

(* The queue a deletion sends first: what the editor sees in the category. *)
Sweep(e, rows, how, change) ==
  LET q == SetToSeq(rows) IN [n \in DOMAIN q |-> Request(e, q[n], how, change)]
SweepIsOK(todo) ==
  todo \in Seq(ARequest) /\ \A n \in DOMAIN todo : RequestOK(todo[n], db)

LEMMA SweepOK ==
  ASSUME CatalogInv, NEW e \in Editors, NEW rows \in SUBSET Sold, IsFiniteSet(rows),
         NEW how \in {"sweep", "delete"}, NEW change, Archives(change, rows),
         \A r \in rows : Shown(e, r)
  PROVE  SweepIsOK(Sweep(e, rows, how, change))
<1> DEFINE q == SetToSeq(rows)
           todo == [n \in DOMAIN q |-> Request(e, q[n], how, change)]
           len == Cardinality(rows)
<1>1. len \in Nat /\ \E f : f \in Bijection(1..len, rows)
  BY FS_CardinalityType DEF ExistsBijection
<1>2. \E f \in [1..len -> rows] : IsInjective(f)
  BY <1>1 DEF Bijection, Injection
<1>3. q = CHOOSE f \in [1..len -> rows] : IsInjective(f)
  BY DEF SetToSeq
<1> HIDE DEF len, q
<1>4. q \in [1..len -> rows]
  BY <1>2, <1>3
<1>5. ASSUME NEW r \in rows
      PROVE  RequestOK(Request(e, r, how, change), db)
  <2>2. r \in Sold /\ r \in Rows /\ r \notin Cats /\ r \notin Coupons
    BY <1>5, Kinds
  <2>3. view[e][r].st \notin Shelved
    BY <1>5, <2>2, ShownRow
  <2>1. change \in Changes /\ "cat" \notin DOMAIN change
    BY DEF Archives
  <2>4. SoldRequest(Request(e, r, how, change))
    BY <1>5 DEF SoldRequest, Request, Archives
  <2>5. QED
    BY <2>1, <2>2, <2>3, <2>4, AskOK
<1>6. /\ DOMAIN todo = 1..len
      /\ \A n \in 1..len : q[n] \in rows /\ todo[n] = Request(e, q[n], how, change)
  BY <1>4
<1>7. \A n \in DOMAIN todo : RequestOK(todo[n], db) /\ todo[n] \in ARequest
  BY <1>5, <1>6 DEF RequestOK
<1>8. todo = [n \in 1..len |-> todo[n]]
  BY <1>4
<1> HIDE DEF todo
<1>9. SweepIsOK(todo)
  BY <1>1, <1>6, <1>7, <1>8 DEF SweepIsOK
<1>10. QED
  BY <1>9 DEF Sweep, q, todo

(* Clicks on a category (CatalogEditor's category form and its buttons).    *)
LEMMA CategoryClickStays ==
  ASSUME CatalogInv, NEW e \in Editors, CategoryClick(e)
  PROVE  CatalogInv'
<1>1. PICK c \in Cats : createCategory(e, c) \/ publishCategory(e, c) \/ archiveCategory(e, c)
  BY DEF CategoryClick
<1>2. c \in Rows /\ c \notin Sold /\ c \notin Coupons
  BY Kinds
<1>3. Screens'
  <2>1. UNCHANGED <<db, view>>
    BY <1>1 DEF createCategory, publishCategory, archiveCategory, Send
  <2>2. QED
    BY <2>1, ScreensStay DEF CatalogInv
<1>4. ASSUME NEW how \in {"create", "patch", "delete"}, NEW s \in Statuses \ {"none"},
             IF how = "create" THEN db[c].st = "none" ELSE view[e][c].st \notin Shelved,
             how = "create" => s = "draft",
             how = "patch" => s = "active" /\ view[e][c].st = "draft",
             how = "delete" => s = "archived"
      PROVE  RequestOK(Request(e, c, how, [st |-> s]), db)
  <2> DEFINE change == [st |-> s]
  <2>1. change \in Changes /\ DOMAIN change = {"st"} /\ change.st = s
    BY ClickChanges
  <2> HIDE DEF change
  <2>2. CategoryRequest(Request(e, c, how, change))
    BY <1>4, <2>1 DEF CategoryRequest, Request
  <2>3. RequestOK(Request(e, c, how, change), db)
    BY <1>2, <1>4, <2>1, <2>2, AskOK
  <2>4. QED
    BY <2>3 DEF change
<1>5. CASE createCategory(e, c)
  <2>1. db[c].st = "none" /\ Send(e, <<Request(e, c, "create", [st |-> "draft"])>>)
    BY <1>5 DEF createCategory, Unused
  <2>2. QED
    BY <1>3, <1>4, <2>1, StatusNames, AskStays
<1>6. CASE publishCategory(e, c)
  <2>1. /\ view[e][c].st = "draft" /\ view[e][c].st \notin Shelved
        /\ Send(e, <<Request(e, c, "patch", [st |-> "active"])>>)
    BY <1>6 DEF publishCategory, Shelved
  <2>2. QED
    BY <1>3, <1>4, <2>1, StatusNames, AskStays
<1>7. CASE archiveCategory(e, c)
  <2> DEFINE Seen(rows) == {r \in rows : Shown(e, r) /\ view[e][r].cat = c}
             Queue(rows, how, change) ==
               LET q == SetToSeq(Seen(rows))
               IN  [n \in DOMAIN q |-> Request(e, q[n], how, change)]
             last == Request(e, c, "delete", [st |-> "archived"])
             items == Queue(Items, "sweep", StatusOnly("archived"))
             combos == Queue(Combos, "delete", [st |-> "archived"])
             todo == items \o combos \o <<last>>
  <2>1. Shown(e, c) /\ Send(e, todo)
    BY <1>7 DEF archiveCategory
  <2>2. RequestOK(last, db) /\ last \in ARequest
    BY <1>2, <1>4, <2>1, StatusNames, ShownRow DEF RequestOK
  <2>3. ASSUME NEW rows \in {Items, Combos}, NEW how \in {"sweep", "delete"},
               NEW change, Archives(change, rows)
        PROVE  /\ Queue(rows, how, change) \in Seq(ARequest)
               /\ \A n \in DOMAIN Queue(rows, how, change) :
                    RequestOK(Queue(rows, how, change)[n], db)
    <3>1. Seen(rows) \in SUBSET Sold /\ IsFiniteSet(Seen(rows))
      BY CatalogAssumption, FS_Subset, Kinds
    <3>2. \A r \in Seen(rows) : Shown(e, r)
      OBVIOUS
    <3> DEFINE seen == Seen(rows)
    <3>3. Queue(rows, how, change) = Sweep(e, seen, how, change)
      BY DEF Sweep
    <3>4. seen \in SUBSET Sold /\ IsFiniteSet(seen) /\ Archives(change, seen)
          /\ \A r \in seen : Shown(e, r)
      BY <2>3, <3>1, <3>2 DEF Archives
    <3> HIDE DEF seen, Queue
    <3>5. SweepIsOK(Sweep(e, seen, how, change))
      BY <3>4, SweepOK
    <3>6. QED
      BY <3>3, <3>5 DEF SweepIsOK
  <2>4. /\ items \in Seq(ARequest) /\ \A n \in DOMAIN items : RequestOK(items[n], db)
        /\ combos \in Seq(ARequest) /\ \A n \in DOMAIN combos : RequestOK(combos[n], db)
    <3>1. Archives(StatusOnly("archived"), Items)
      BY ClickChanges, StatusNames DEF Archives
    <3> DEFINE archived == [st |-> "archived"]
    <3>2. Archives(archived, Combos)
      BY ClickChanges, StatusNames DEF Archives
    <3> HIDE DEF archived, Queue
    <3>3. combos = Queue(Combos, "delete", archived)
      BY DEF archived
    <3> HIDE DEF combos
    <3>4. QED
      BY <2>3, <3>1, <3>2, <3>3
  <2>5. ASSUME NEW s \in Seq(ARequest), NEW t \in Seq(ARequest),
               \A n \in DOMAIN s : RequestOK(s[n], db), \A n \in DOMAIN t : RequestOK(t[n], db)
        PROVE  /\ s \o t \o <<last>> \in Seq(ARequest) \ {<<>>}
               /\ \A n \in DOMAIN (s \o t \o <<last>>) : RequestOK((s \o t \o <<last>>)[n], db)
    <3> HIDE DEF last
    <3>1. s \o t \in Seq(ARequest) /\ \A n \in DOMAIN (s \o t) : RequestOK((s \o t)[n], db)
      BY <2>5
    <3>2. QED
      BY <2>2, <3>1
  <2> HIDE DEF items, combos, last
  <2>6. /\ todo \in Seq(ARequest) \ {<<>>}
        /\ \A n \in DOMAIN todo : RequestOK(todo[n], db)
    BY <2>4, <2>5
  <2> HIDE DEF todo
  <2>7. QED
    BY <1>3, <2>1, <2>6, SendStays
<1>8. QED
  BY <1>1, <1>5, <1>6, <1>7

(* Clicks on an item (CatalogEditor's item form and its buttons).           *)
LEMMA ItemClickStays ==
  ASSUME CatalogInv, NEW e \in Editors, ItemClick(e)
  PROVE  CatalogInv'
<1>1. PICK i \in Items : itemAction(e, i) \/ createItem(e, i) \/ saveItem(e, i)
  BY DEF ItemClick
<1>2. i \in Rows /\ i \in Sold /\ i \notin Cats /\ i \notin Coupons
  BY Kinds
<1>3. Screens'
  <2>1. UNCHANGED <<db, view>>
    BY <1>1 DEF itemAction, createItem, saveItem, Send
  <2>2. QED
    BY <2>1, ScreensStay DEF CatalogInv
<1>4. ASSUME NEW change \in Changes, view[e][i].st \notin Shelved
      PROVE  RequestOK(Request(e, i, "patch", change), db)
  <2>1. SoldRequest(Request(e, i, "patch", change))
    BY DEF SoldRequest, Request
  <2>2. QED
    BY <1>2, <1>4, <2>1, AskOK
<1>5. CASE itemAction(e, i)
  <2>1. PICK s \in {"active", "unavailable", "archived"} :
          Send(e, <<Request(e, i, "patch", StatusOnly(s))>>)
    BY <1>5 DEF itemAction
  <2>2. view[e][i].st \notin Shelved
    BY <1>2, <1>5, ShownRow DEF itemAction
  <2>3. StatusOnly(s) \in Changes
    BY ClickChanges, StatusNames
  <2>4. QED
    BY <1>3, <1>4, <2>1, <2>2, <2>3, AskStays
<1>6. CASE createItem(e, i)
  <2>1. PICK c \in Cats, t \in BOOLEAN :
          Send(e, <<Request(e, i, "create", [st |-> "draft", val |-> 0, cat |-> c, track |-> t,
                                             stock |-> IF t THEN MaxStock ELSE 0])>>)
    BY <1>6 DEF createItem
  <2> DEFINE n == IF t THEN MaxStock ELSE 0
             change == [st |-> "draft", val |-> 0, cat |-> c, track |-> t, stock |-> n]
  <2>8. n \in 0..MaxStock
    BY DEF MaxStock
  <2>9. Send(e, <<Request(e, i, "create", change)>>)
    BY <2>1
  <2> HIDE DEF n
  <2>2. change \in Changes /\ DOMAIN change = {"st", "val", "cat", "track", "stock"}
    BY <2>8, ClickChanges, StatusNames
  <2>3. db[i].st = "none"
    BY <1>6 DEF createItem, Unused
  <2> HIDE DEF change
  <2>5. SoldRequest(Request(e, i, "create", change))
    BY <2>2 DEF SoldRequest, Request
  <2>6. RequestOK(Request(e, i, "create", change), db)
    BY <1>2, <2>2, <2>3, <2>5, AskOK
  <2>7. QED
    BY <1>3, <2>9, <2>6, AskStays
<1>7. CASE saveItem(e, i)
  <2>1. PICK c \in Cats, t \in BOOLEAN, n \in 0..MaxStock :
          Send(e, <<Request(e, i, "patch", [st |-> view[e][i].st, val |-> 1 - view[e][i].val,
                                            cat |-> c, track |-> t, stock |-> n])>>)
    BY <1>7 DEF saveItem
  <2>2. view[e][i].st \notin Shelved
    BY <1>2, <1>7, ShownRow DEF saveItem
  <2>3. /\ view[e][i].st \in Statuses \ {"none"} /\ 1 - view[e][i].val \in Vals
    BY <1>2, <2>2, ShownRow, StatusNames DEF Shelved
  <2>4. [st |-> view[e][i].st, val |-> 1 - view[e][i].val, cat |-> c, track |-> t, stock |-> n]
          \in Changes
    BY <2>3, ClickChanges
  <2>5. QED
    BY <1>3, <1>4, <2>1, <2>2, <2>4, AskStays
<1>8. QED
  BY <1>1, <1>5, <1>6, <1>7

(* Clicks on a group of add-ons.                                            *)
LEMMA GroupClickStays ==
  ASSUME CatalogInv, NEW e \in Editors, GroupClick(e)
  PROVE  CatalogInv'
<1>1. PICK g \in Groups :
        createGroup(e, g) \/ publishGroup(e, g) \/ archiveGroup(e, g) \/ saveOption(e, g)
  BY DEF GroupClick
<1>2. g \in Rows /\ g \notin Cats /\ g \notin Sold /\ g \notin Coupons
  BY Kinds
<1>3. Screens'
  <2>1. UNCHANGED <<db, view>>
    BY <1>1 DEF createGroup, publishGroup, archiveGroup, saveOption, Send
  <2>2. QED
    BY <2>1, ScreensStay DEF CatalogInv
<1>4. ASSUME NEW how \in {"create", "patch", "delete"}, NEW change \in Changes,
             IF how = "create" THEN db[g].st = "none" /\ "st" \in DOMAIN change
             ELSE view[e][g].st \notin Shelved,
             "cat" \notin DOMAIN change
      PROVE  RequestOK(Request(e, g, how, change), db)
  BY <1>2, <1>4, AskOK
<1>5. CASE createGroup(e, g)
  <2>1. db[g].st = "none" /\ Send(e, <<Request(e, g, "create", [st |-> "draft"])>>)
    BY <1>5 DEF createGroup, Unused
  <2>2. /\ [st |-> "draft"] \in Changes /\ "st" \in DOMAIN [st |-> "draft"]
        /\ "cat" \notin DOMAIN [st |-> "draft"]
    BY ClickChanges, StatusNames
  <2>3. QED
    BY <1>3, <1>4, <2>1, <2>2, AskStays
<1>6. CASE publishGroup(e, g)
  <2>1. /\ view[e][g].st \notin Shelved
        /\ Send(e, <<Request(e, g, "patch", [st |-> "active"])>>)
    BY <1>6 DEF publishGroup, Shelved
  <2>2. [st |-> "active"] \in Changes /\ "cat" \notin DOMAIN [st |-> "active"]
    BY ClickChanges, StatusNames
  <2>3. QED
    BY <1>3, <1>4, <2>1, <2>2, AskStays
<1>7. CASE archiveGroup(e, g)
  <2>1. /\ view[e][g].st \notin Shelved
        /\ Send(e, <<Request(e, g, "delete", [st |-> "archived"])>>)
    BY <1>2, <1>7, ShownRow DEF archiveGroup
  <2>2. [st |-> "archived"] \in Changes /\ "cat" \notin DOMAIN [st |-> "archived"]
    BY ClickChanges, StatusNames
  <2>3. QED
    BY <1>3, <1>4, <2>1, <2>2, AskStays
<1>8. CASE saveOption(e, g)
  <2>1. /\ view[e][g].st \notin Shelved
        /\ Send(e, <<Request(e, g, "patch", [val |-> 1 - view[e][g].val])>>)
    BY <1>2, <1>8, ShownRow DEF saveOption
  <2>2. /\ [val |-> 1 - view[e][g].val] \in Changes
        /\ "cat" \notin DOMAIN [val |-> 1 - view[e][g].val]
    BY <1>2, ClickChanges, StatusNames, ShownRow
  <2>3. QED
    BY <1>3, <1>4, <2>1, <2>2, AskStays
<1>9. QED
  BY <1>1, <1>5, <1>6, <1>7, <1>8

(* Clicks on a combo.                                                       *)
LEMMA ComboClickStays ==
  ASSUME CatalogInv, NEW e \in Editors, ComboClick(e)
  PROVE  CatalogInv'
<1>1. PICK b \in Combos :
        createCombo(e, b) \/ saveCombo(e, b) \/ updateComboStatus(e, b) \/ archiveCombo(e, b)
  BY DEF ComboClick
<1>2. b \in Rows /\ b \in Sold /\ b \notin Cats /\ b \notin Coupons
  BY Kinds
<1>3. Screens'
  <2>1. UNCHANGED <<db, view>>
    BY <1>1 DEF createCombo, saveCombo, updateComboStatus, archiveCombo, Send
  <2>2. QED
    BY <2>1, ScreensStay DEF CatalogInv
<1>4. ASSUME NEW how \in {"create", "patch", "delete"}, NEW change \in Changes,
             IF how = "create" THEN db[b].st = "none" /\ DOMAIN change = {"st", "cat"}
             ELSE view[e][b].st \notin Shelved /\ "stock" \notin DOMAIN change
      PROVE  RequestOK(Request(e, b, how, change), db)
  <2>1. SoldRequest(Request(e, b, how, change))
    BY <1>4 DEF SoldRequest, Request
  <2>2. QED
    BY <1>2, <1>4, <2>1, AskOK
<1>5. CASE createCombo(e, b)
  <2>1. PICK c \in Cats :
          Send(e, <<Request(e, b, "create", [st |-> "draft", cat |-> c])>>)
    BY <1>5 DEF createCombo
  <2>2. db[b].st = "none"
    BY <1>5 DEF createCombo, Unused
  <2>3. /\ [st |-> "draft", cat |-> c] \in Changes
        /\ DOMAIN [st |-> "draft", cat |-> c] = {"st", "cat"}
    BY ClickChanges, StatusNames
  <2>4. QED
    BY <1>3, <1>4, <2>1, <2>2, <2>3, AskStays
<1>6. CASE saveCombo(e, b)
  <2>1. PICK c \in Cats :
          Send(e, <<Request(e, b, "patch", [val |-> 1 - view[e][b].val, cat |-> c])>>)
    BY <1>6 DEF saveCombo
  <2>2. view[e][b].st \notin Shelved
    BY <1>2, <1>6, ShownRow DEF saveCombo
  <2> DEFINE v == 1 - view[e][b].val
  <2>3. v \in Vals
    BY <1>2, StatusNames, ShownRow
  <2> HIDE DEF v
  <2>4. [val |-> v, cat |-> c] \in Changes /\ "stock" \notin DOMAIN [val |-> v, cat |-> c]
    BY <2>3, ClickChanges
  <2>5. RequestOK(Request(e, b, "patch", [val |-> v, cat |-> c]), db)
    BY <1>4, <2>2, <2>4
  <2>6. QED
    BY <1>3, <2>1, <2>5, AskStays DEF v
<1>7. CASE updateComboStatus(e, b)
  <2>1. PICK s \in {"active", "unavailable"} :
          Send(e, <<Request(e, b, "patch", [st |-> s])>>)
    BY <1>7 DEF updateComboStatus
  <2>2. view[e][b].st \notin Shelved
    BY <1>2, <1>7, ShownRow DEF updateComboStatus
  <2>3. [st |-> s] \in Changes /\ "stock" \notin DOMAIN [st |-> s]
    BY ClickChanges, StatusNames
  <2>4. QED
    BY <1>3, <1>4, <2>1, <2>2, <2>3, AskStays
<1>8. CASE archiveCombo(e, b)
  <2>1. /\ view[e][b].st \notin Shelved
        /\ Send(e, <<Request(e, b, "delete", [st |-> "archived"])>>)
    BY <1>2, <1>8, ShownRow DEF archiveCombo
  <2>2. [st |-> "archived"] \in Changes /\ "stock" \notin DOMAIN [st |-> "archived"]
    BY ClickChanges, StatusNames
  <2>3. QED
    BY <1>3, <1>4, <2>1, <2>2, AskStays
<1>9. QED
  BY <1>1, <1>5, <1>6, <1>7, <1>8

(* The coupon panel shows the new state before it is answered. *)
LEMMA CouponClickStays ==
  ASSUME CatalogInv, NEW e \in Editors, CouponClick(e)
  PROVE  CatalogInv'
<1>1. PICK p \in Coupons :
        handleCreateDiscount(e, p) \/ handleToggleActive(e, p) \/ handleDelete(e, p)
  BY DEF CouponClick
<1>2. p \in Rows /\ p \notin Cats /\ p \notin Sold
  BY Kinds
<1>3. ASSUME NEW how \in {"create", "patch", "delete"}, NEW s \in Statuses \ {"none", "draft"},
             IF how = "create" THEN db[p].st = "none" ELSE view[e][p].st \notin Shelved,
             how = "patch" => view[e][p].st \in Toggled /\ s \in Toggled /\ s # view[e][p].st
      PROVE  RequestOK(Request(e, p, how, [st |-> s]), db)
  <2> DEFINE change == [st |-> s]
  <2>1. change \in Changes /\ DOMAIN change = {"st"} /\ change.st = s
    BY ClickChanges
  <2> HIDE DEF change
  <2>2. CouponRequest(Request(e, p, how, change))
    BY <1>3, <2>1 DEF CouponRequest, Request
  <2>3. RequestOK(Request(e, p, how, change), db)
    BY <1>2, <1>3, <2>1, <2>2, AskOK
  <2>4. QED
    BY <2>3 DEF change
<1>4. {"active", "unavailable", "archived"} \subseteq Statuses \ {"none", "draft"}
  BY DEF Statuses
<1>5. CASE handleCreateDiscount(e, p)
  <2>1. /\ db[p].st = "none" /\ UNCHANGED <<db, view>>
        /\ Send(e, <<Request(e, p, "create", [st |-> "active"])>>)
    BY <1>5 DEF handleCreateDiscount, Unused, NewDiscount, Send
  <2>2. QED
    BY <1>3, <1>4, <2>1, AskStays, ScreensStay DEF CatalogInv
<1>6. CASE handleDelete(e, p)
  <2>1. /\ view[e][p].st \notin Shelved /\ UNCHANGED <<db, view>>
        /\ Send(e, <<Request(e, p, "delete", [st |-> "archived"])>>)
    BY <1>2, <1>6, ShownRow DEF handleDelete, Send
  <2>2. QED
    BY <1>3, <1>4, <2>1, AskStays, ScreensStay DEF CatalogInv
<1>7. CASE handleToggleActive(e, p)
  <2> DEFINE now == view[e][p]
             next == IF now.st = "active" THEN "unavailable" ELSE "active"
  <2>1. /\ now.st \notin Shelved /\ UNCHANGED db
        /\ Send(e, <<Request(e, p, "patch", [st |-> next])>>)
        /\ view' = [view EXCEPT ![e][p].st = next]
    BY <1>2, <1>7, ShownRow DEF handleToggleActive, Send
  <2>2. Copy(p, now, db[p]) /\ now \in Row /\ db[p] \in Row
    BY <1>2 DEF CatalogInv, Screens, RowsOK
  <2>3. now.st \in Toggled /\ next \in Toggled /\ next # now.st
    BY <2>1, <2>2 DEF Copy, Row, Toggled, Shelved
  <2>4. RequestOK(Request(e, p, "patch", [st |-> next]), db)
    <3>1. next \in Statuses \ {"none", "draft"}
      BY <1>4
    <3> HIDE DEF next
    <3>2. QED
      BY <1>3, <2>1, <2>3, <3>1
  <2> DEFINE pressed == [now EXCEPT !.st = next]
  <2>5. Copy(p, pressed, db[p])
    <3>1. /\ pressed \in Row /\ pressed.ver = now.ver /\ pressed.st = next
          /\ pressed.val = now.val /\ pressed.cat = now.cat /\ pressed.track = now.track
      BY <2>2 DEF Row
    <3> HIDE DEF pressed
    <3>2. pressed.ver = db[p].ver => db[p].st \in Toggled
      BY <2>2, <2>3, <3>1 DEF Copy, Alike, Content
    <3>3. pressed.ver = db[p].ver => /\ pressed.val = db[p].val /\ pressed.cat = db[p].cat
                                     /\ pressed.track = db[p].track
      BY <2>2, <3>1 DEF Copy, Alike, Content
    <3>4. QED
      BY <2>2, <2>3, <3>1, <3>2, <3>3 DEF Copy, Alike, Toggled
  <2>6. Screens'
    <3>1. view \in [Editors -> [Rows -> Row]]
      BY DEF CatalogInv, Screens
    <3>2. view' = [view EXCEPT ![e] = [view[e] EXCEPT ![p] = pressed]]
      BY <2>1
    <3> HIDE DEF pressed
    <3>3. \A f \in Editors, r \in Rows :
            view'[f][r] = IF f = e /\ r = p THEN pressed ELSE view[f][r]
      BY <1>2, <3>1, <3>2
    <3>4. pressed \in Row
      BY <2>5 DEF Copy
    <3>5. view' \in [Editors -> [Rows -> Row]]
      BY <1>2, <3>1, <3>2, <3>4
    <3>6. QED
      BY <2>1, <2>5, <3>3, <3>5 DEF CatalogInv, Screens
  <2>7. QED
    BY <2>1, <2>4, <2>6, AskStays
<1>8. QED
  BY <1>1, <1>5, <1>6, <1>7

-----------------------------------------------------------------------------
(* Steps of the server and the answers that write no row. *)

(* One slot changes to a well-formed call or is freed. *)
LEMMA SlotChanges ==
  ASSUME Requests, NEW k \in Slots, NEW c, c = NoCall \/ CallOK(c, db),
         calls' = [calls EXCEPT ![k] = c], UNCHANGED db
  PROVE  /\ Requests'
         /\ calls'[k] = c /\ \A j \in Slots \ {k} : calls'[j] = calls[j]
<1>1. calls = [j \in Slots |-> calls[j]]
  BY DEF Requests
<1>2. calls'[k] = c /\ \A j \in Slots \ {k} : calls'[j] = calls[j]
  BY <1>1
<1>3. calls' = [j \in Slots |-> calls'[j]]
  BY <1>1
<1>4. ASSUME NEW j \in Slots, calls'[j] # NoCall PROVE CallOK(calls'[j], db')
  BY <1>2, <1>4 DEF Requests
<1>5. QED
  BY <1>2, <1>3, <1>4 DEF Requests

(* A call may change its phase to one that promises no copy. *)
LEMMA PhaseChanges ==
  ASSUME NEW c, CallOK(c, db), NEW p \in Phases,
         p \in {"written", "done"} => c.phase \in {"written", "done"},
         p = "written" => c.phase = "written"
  PROVE  /\ CallOK([c EXCEPT !.phase = p], db)
         /\ [c EXCEPT !.phase = p].phase = p
         /\ [c EXCEPT !.phase = p].todo = c.todo
<1> DEFINE new == [c EXCEPT !.phase = p]
<1>1. c \in ACall
  BY DEF CallOK
<1>2. /\ new \in ACall /\ new.phase = p /\ new.todo = c.todo /\ new.got = c.got
  BY <1>1 DEF ACall
<1> HIDE DEF new
<1>3. CallOK(new, db)
  BY <1>2 DEF CallOK
<1>4. QED
  BY <1>2, <1>3 DEF new

(* An editor that loads the menu again has copies of the rows as they are.  *)
LEMMA ReloadStays ==
  ASSUME CatalogInv, NEW e \in Editors, Reload(e)
  PROVE  CatalogInv'
<1> DEFINE mine(k) == calls[k] # NoCall /\ calls[k].by = e
<1>1. /\ calls' = [k \in Slots |-> IF mine(k) THEN [calls[k] EXCEPT !.by = Gone] ELSE calls[k]]
      /\ view' = [view EXCEPT ![e] = db]
      /\ UNCHANGED <<db, search, shelf, late, adrift, troubled>>
  BY DEF Reload
<1>2. ASSUME NEW k \in Slots, mine(k)
      PROVE  /\ CallOK(calls'[k], db) /\ Req(k)' = Req(k)
             /\ calls'[k].phase = calls[k].phase
  <2>1. CallOK(calls[k], db) /\ calls[k] \in ACall
    BY <1>2 DEF CatalogInv, Requests, CallOK
  <2>2. calls'[k] = [calls[k] EXCEPT !.by = Gone]
    BY <1>1, <1>2
  <2>3. /\ calls'[k] \in ACall /\ calls'[k].phase = calls[k].phase
        /\ calls'[k].todo = calls[k].todo /\ calls'[k].got = calls[k].got
    BY <2>1, <2>2 DEF ACall
  <2>4. QED
    BY <2>1, <2>3 DEF CallOK, Req
<1>3. Requests'
  <2>1. ASSUME NEW k \in Slots, calls'[k] # NoCall PROVE CallOK(calls'[k], db')
    BY <1>1, <1>2, <2>1 DEF CatalogInv, Requests
  <2>2. calls' = [k \in Slots |-> calls'[k]]
    BY <1>1
  <2>3. QED
    BY <2>1, <2>2 DEF Requests
<1>4. NoneAhead
  <2>1. ASSUME NEW k \in Slots, ~mine(k) PROVE calls'[k] = calls[k]
    BY <1>1, <2>1
  <2>2. QED
    BY <1>2, <2>1 DEF NoneAhead, Req
<1>5. Screens'
  <2>1. \A r \in Rows : db[r] \in Row /\ Copy(r, db[r], db[r])
    BY OwnCopy DEF CatalogInv, RowsOK
  <2>2. QED
    BY <1>1, <2>1 DEF CatalogInv, Screens, RowsOK
<1>6. QED
  BY <1>1, <1>3, <1>4, <1>5, FrameStays

(* A request, or the answer to it, is lost.                                 *)
LEMMA LoseStays ==
  ASSUME CatalogInv, NEW k \in Slots, Lose(k)
  PROVE  CatalogInv'
<1>1. /\ calls[k].phase \in {"sent", "done"} /\ calls[k] # NoCall
      /\ calls' = [calls EXCEPT ![k].phase = "refused"]
      /\ UNCHANGED <<db, view, search, shelf, late, adrift, troubled>>
  BY BusySlot DEF Lose, Step
<1> DEFINE new == [calls[k] EXCEPT !.phase = "refused"]
<1>2. CallOK(calls[k], db)
  BY <1>1, ReqOK DEF CatalogInv
<1>3. CallOK(new, db) /\ new.phase = "refused"
  BY <1>2, PhaseChanges DEF Phases
<1>4. calls' = [calls EXCEPT ![k] = new]
  BY <1>1
<1> HIDE DEF new
<1>5. Requests' /\ calls'[k] = new /\ \A j \in Slots \ {k} : calls'[j] = calls[j]
  BY <1>1, <1>3, <1>4, SlotChanges DEF CatalogInv
<1>6. NoneAhead
  BY <1>1, <1>3, <1>5 DEF NoneAhead, Req
<1>7. QED
  BY <1>1, <1>5, <1>6, FrameStays, ScreensStay DEF CatalogInv

(* What a screen shows after an answer are copies. *)
LEMMA AnswerCopies ==
  ASSUME CatalogInv, NEW e \in Editors, NEW k \in Slots, calls[k] # NoCall
  PROVE  /\ calls[k].phase = "done" =>
              \A r \in Rows : Copy(r, Accepted(e, Req(k), calls[k].got)[r], db[r])
         /\ \A r \in Rows : Copy(r, Rejected(e, Req(k), calls[k].phase)[r], db[r])
         /\ DOMAIN Accepted(e, Req(k), calls[k].got) = Rows
         /\ DOMAIN Rejected(e, Req(k), calls[k].phase) = Rows
<1> DEFINE q == Req(k)
<1>1. \A r \in Rows : Copy(r, view[e][r], db[r])
  BY DEF CatalogInv, Screens
<1>2. \A r \in Rows : Copy(r, NoRow, db[r]) /\ Copy(r, db[r], db[r])
  BY EmptyCopy, OwnCopy DEF CatalogInv, RowsOK
<1>3. CallOK(calls[k], db) /\ RequestOK(q, db) /\ q = calls[k].todo[1] /\ q.row \in Rows
  BY ReqOK DEF CatalogInv
<1>4. Copy(q.row, q.base, db[q.row])
  BY <1>3 DEF RequestOK
<1>5. ASSUME calls[k].phase = "done", NEW r \in Rows
      PROVE  Copy(r, Accepted(e, q, calls[k].got)[r], db[r])
  <2>1. Copy(q.row, calls[k].got, db[q.row])
    BY <1>3, <1>5 DEF CallOK
  <2> HIDE DEF q
  <2>2. Accepted(e, q, calls[k].got)[r] \in
          {NoRow, view[e][r]} \cup {IF r = q.row THEN calls[k].got ELSE NoRow}
    BY DEF Accepted, Merged
  <2>3. QED
    BY <1>1, <1>2, <2>1, <2>2
<1>6. ASSUME NEW r \in Rows
      PROVE  Copy(r, Rejected(e, q, calls[k].phase)[r], db[r])
  <2> HIDE DEF q
  <2>1. Rejected(e, q, calls[k].phase)[r] \in
          {db[r], view[e][r]} \cup {IF r = q.row THEN q.base ELSE db[r]}
    BY DEF Rejected
  <2>2. QED
    BY <1>1, <1>2, <1>4, <2>1
<1>7. QED
  BY <1>5, <1>6 DEF Accepted, Rejected

(* The rest of a queue of requests is a queue of requests.                  *)
LEMMA TailOfQueue ==
  ASSUME NEW s \in Seq(ARequest), Len(s) > 1
  PROVE  /\ Tail(s) \in Seq(ARequest) \ {<<>>}
         /\ \A n \in DOMAIN Tail(s) : Tail(s)[n] = s[n + 1] /\ n + 1 \in DOMAIN s
<1>1. Tail(s) \in Seq(ARequest) /\ Len(Tail(s)) = Len(s) - 1
  OBVIOUS
<1>2. DOMAIN Tail(s) = 1..Len(s) - 1 /\ DOMAIN s = 1..Len(s) /\ Len(s) \in Nat
  BY <1>1
<1>3. \A n \in 1..Len(s) - 1 : Tail(s)[n] = s[n + 1]
  OBVIOUS
<1>4. Len(Tail(s)) # 0
  BY <1>1
<1>5. Tail(s) # <<>>
  BY <1>4, Len(<<>>) = 0
<1>6. QED
  BY <1>1, <1>2, <1>3, <1>5

(* An answer reaches its screen, and the next of a queue goes out.          *)
LEMMA ReceiveStays ==
  ASSUME CatalogInv, NEW k \in Slots, Receive(k)
  PROVE  CatalogInv'
<1> DEFINE c == calls[k]
<1>1. /\ c.phase \in {"done", "conflict", "refused"} /\ c # NoCall
      /\ UNCHANGED <<db, search, shelf, late, adrift, troubled>>
  BY BusySlot DEF Receive
<1>2. CallOK(c, db) /\ c \in ACall
  BY <1>1, ReqOK DEF CatalogInv
<1>3. CASE c.phase = "done" /\ Len(c.todo) > 1 /\ c.by # Gone
  <2> DEFINE new == [c EXCEPT !.todo = Tail(c.todo), !.phase = "sent"]
  <2>1. calls' = [calls EXCEPT ![k] = new] /\ UNCHANGED view
    <3>1. /\ calls' = [calls EXCEPT ![k].todo = Tail(@), ![k].phase = "sent"]
          /\ UNCHANGED view
      BY <1>3 DEF Receive
    <3>2. QED
      BY <3>1 DEF CatalogInv, Requests
  <2>2. CallOK(new, db) /\ new.phase = "sent"
    <3>1. c.todo \in Seq(ARequest) /\ Len(c.todo) > 1
      BY <1>2, <1>3 DEF ACall
    <3>2. /\ Tail(c.todo) \in Seq(ARequest) \ {<<>>}
          /\ \A n \in DOMAIN Tail(c.todo) : /\ Tail(c.todo)[n] = c.todo[n + 1]
                                            /\ n + 1 \in DOMAIN c.todo
      BY <3>1, TailOfQueue
    <3>3. new \in ACall /\ new.phase = "sent" /\ new.todo = Tail(c.todo)
      BY <1>2, <3>2 DEF ACall, Phases
    <3> HIDE DEF new
    <3>4. QED
      BY <1>2, <3>2, <3>3 DEF CallOK
  <2> HIDE DEF new
  <2>3. Requests' /\ calls'[k] = new /\ \A j \in Slots \ {k} : calls'[j] = calls[j]
    BY <1>1, <2>1, <2>2, SlotChanges DEF CatalogInv
  <2>4. NoneAhead
    BY <1>1, <2>2, <2>3 DEF NoneAhead, Req
  <2>5. QED
    BY <1>1, <2>1, <2>3, <2>4, FrameStays, ScreensStay DEF CatalogInv
<1>4. CASE ~(c.phase = "done" /\ Len(c.todo) > 1 /\ c.by # Gone)
  <2>1. /\ calls' = [calls EXCEPT ![k] = NoCall]
        /\ view' = IF c.by = Gone THEN view
                   ELSE [view EXCEPT ![c.by] =
                           IF c.phase = "done" THEN Accepted(c.by, Req(k), c.got)
                           ELSE Rejected(c.by, Req(k), c.phase)]
    BY <1>4 DEF Receive
  <2>2. Requests' /\ calls'[k] = NoCall /\ \A j \in Slots \ {k} : calls'[j] = calls[j]
    BY <1>1, <2>1, SlotChanges DEF CatalogInv
  <2>3. NoneAhead
    BY <1>1, <2>2 DEF NoneAhead, Req, NoCall
  <2>4. Screens'
    <3>1. CASE c.by = Gone
      BY <1>1, <2>1, <3>1, ScreensStay DEF CatalogInv
    <3>2. CASE c.by # Gone
      <4> DEFINE e == c.by
                 seen == IF c.phase = "done" THEN Accepted(e, Req(k), c.got)
                         ELSE Rejected(e, Req(k), c.phase)
      <4>1. e \in Editors
        BY <1>2, <3>2 DEF ACall
      <4>2. /\ \A r \in Rows : Copy(r, seen[r], db[r])
            /\ DOMAIN seen = Rows /\ seen = [r \in Rows |-> seen[r]]
        <5>1. CASE c.phase = "done"
          <6>1. /\ \A r \in Rows : Copy(r, Accepted(e, Req(k), c.got)[r], db[r])
                /\ DOMAIN Accepted(e, Req(k), c.got) = Rows
            BY <1>1, <4>1, <5>1, AnswerCopies
          <6>2. seen = Accepted(e, Req(k), c.got) /\ seen = [r \in DOMAIN seen |-> seen[r]]
            BY <5>1 DEF Accepted
          <6>3. QED
            BY <6>1, <6>2
        <5>2. CASE c.phase # "done"
          <6>1. /\ \A r \in Rows : Copy(r, Rejected(e, Req(k), c.phase)[r], db[r])
                /\ DOMAIN Rejected(e, Req(k), c.phase) = Rows
            BY <1>1, <4>1, AnswerCopies
          <6>2. seen = Rejected(e, Req(k), c.phase) /\ seen = [r \in DOMAIN seen |-> seen[r]]
            BY <5>2 DEF Rejected
          <6>3. QED
            BY <6>1, <6>2
        <5>3. QED
          BY <5>1, <5>2
      <4>3. view' = [view EXCEPT ![e] = seen]
        BY <2>1, <3>2
      <4> HIDE DEF seen, e
      <4>4. seen \in [Rows -> Row]
        BY <4>2 DEF Copy
      <4>5. QED
        BY <1>1, <4>1, <4>2, <4>3, <4>4 DEF CatalogInv, Screens
    <3>3. QED
      BY <3>1, <3>2
  <2>5. QED
    BY <1>1, <2>2, <2>3, <2>4, FrameStays
<1>5. QED
  BY <1>3, <1>4

(* The version a request names pins down what the row holds: a row of the   *)
(* menu as the editor saw it.                                               *)
LEMMA VersionPins ==
  ASSUME CatalogInv, NEW k \in Slots, calls[k] # NoCall,
         db[Req(k).row].ver = Req(k).ver, Req(k).row \notin Coupons
  PROVE  Content(db[Req(k).row]) = Content(Req(k).base)
<1>1. RequestOK(Req(k), db) /\ Req(k) \in ARequest
  BY ReqOK DEF CatalogInv
<1>2. QED
  BY <1>1 DEF RequestOK, Copy, Alike

(* Where an item or combo will be once its request is carried out. *)
LEMMA NewHome ==
  ASSUME CatalogInv, NEW k \in Slots, calls[k] # NoCall, Req(k).row \in Sold,
         db[Req(k).row].ver = Req(k).ver
  PROVE  Written(db[Req(k).row], Req(k).change).cat \in Cats
<1> DEFINE q == Req(k)
<1>1. RequestOK(q, db) /\ q \in ARequest /\ q.row \in Rows
  BY ReqOK DEF CatalogInv
<1>2. db[q.row] \in Row /\ q.change \in Changes
  BY <1>1 DEF CatalogInv, RowsOK, ARequest
<1>3. CASE "cat" \in DOMAIN q.change
  BY <1>2, <1>3, WrittenIs, ChangeFields
<1>4. CASE "cat" \notin DOMAIN q.change
  <2>1. q.how # "create" /\ q.base.st \notin Shelved
    BY <1>1, <1>4 DEF RequestOK, SoldRequest
  <2>2. db[q.row].st = q.base.st
    BY Kinds, VersionPins DEF Content
  <2>3. db[q.row].cat \in Cats
    BY <1>1, <2>1, <2>2 DEF Shelved, CatalogInv, RowsOK
  <2>4. QED
    BY <1>2, <1>4, <2>3, WrittenIs
<1>5. QED
  BY <1>3, <1>4

(* The check counts the children of a category, and the category of what is *)
(* published.                                                               *)
LEMMA CheckStays ==
  ASSUME CatalogInv, NEW k \in Slots, Check(k)
  PROVE  CatalogInv'
<1> DEFINE p == IF Allowed(Req(k)) THEN "checked" ELSE "conflict"
           new == [calls[k] EXCEPT !.phase = p]
<1>1. /\ calls[k].phase = "sent" /\ calls[k] # NoCall
      /\ calls' = [calls EXCEPT ![k] = new]
      /\ UNCHANGED <<db, view, search, shelf, late, adrift, troubled>>
  BY BusySlot DEF Check, Step
<1>2. CallOK(calls[k], db) /\ Req(k) \in ARequest /\ RequestOK(Req(k), db)
  BY <1>1, ReqOK DEF CatalogInv
<1>3. CallOK(new, db) /\ new.phase = p /\ new.todo = calls[k].todo
  <2>1. p \in Phases /\ p \notin {"written", "done"}
    BY DEF Phases
  <2> HIDE DEF p
  <2>2. QED
    BY <1>2, <2>1, PhaseChanges
<1> HIDE DEF new
<1>4. Requests' /\ calls'[k] = new /\ \A j \in Slots \ {k} : calls'[j] = calls[j]
  BY <1>1, <1>3, SlotChanges DEF CatalogInv
<1>5. Req(k)' = Req(k) /\ \A j \in Slots \ {k} : Req(j)' = Req(j)
  BY <1>3, <1>4 DEF Req
<1>6. DeletionsCounted'
  <2>1. ASSUME Allowed(Req(k)), Req(k).row \in Cats, Req(k).how = "delete"
        PROVE  Empty(Req(k).row)
    <3>1. CheckCategory(Req(k))
      BY <2>1, Kinds DEF Allowed
    <3>2. Children(Req(k).row) = {}
      BY <2>1, <3>1 DEF CheckCategory
    <3>3. QED
      BY <3>2 DEF Children, Empty, Shelved
  <2>2. ASSUME NEW j \in Slots, calls'[j].phase = "checked", Req(j)'.row \in Cats,
               Req(j)'.how = "delete"
        PROVE  Empty(Req(j).row)
    <3>1. CASE j = k
      BY <1>3, <1>4, <1>5, <2>1, <2>2, <3>1
    <3>2. CASE j # k
      BY <1>4, <1>5, <2>2, <3>2 DEF CatalogInv, DeletionsCounted
    <3>3. QED
      BY <3>1, <3>2
  <2>3. \A r : Empty(r)' <=> Empty(r)
    BY <1>1 DEF Empty
  <2>4. QED
    BY <1>5, <2>2, <2>3 DEF DeletionsCounted
<1>7. PublicationsChecked'
  <2> DEFINE row(j) == Written(db[Req(j).row], Req(j).change)
  <2>1. ASSUME Allowed(Req(k)), Req(k).row \in Sold, db[Req(k).row].ver = Req(k).ver,
               row(k).st = "active"
        PROVE  Opened(row(k).cat)
    <3>1. CheckSold(Req(k))
      BY <2>1, Kinds DEF Allowed
    <3>2. db[row(k).cat].st = "active"
      BY <2>1, <3>1 DEF CheckSold, Publishable
    <3>3. row(k).cat \in Cats
      BY <1>1, <2>1, NewHome
    <3>4. QED
      BY <3>2, <3>3 DEF Opened
  <2>2. ASSUME NEW j \in Slots, calls'[j].phase = "checked", Req(j).row \in Sold,
               db[Req(j).row].ver = Req(j).ver, row(j).st = "active"
        PROVE  Opened(row(j).cat)
    <3>1. CASE j = k
      BY <1>3, <1>4, <2>1, <2>2, <3>1
    <3>2. CASE j # k
      BY <1>4, <2>2, <3>2 DEF CatalogInv, PublicationsChecked
    <3>3. QED
      BY <3>1, <3>2
  <2>3. \A j \in Slots : row(j)' = row(j) /\ Req(j)' = Req(j)
    BY <1>1, <1>5 DEF Written
  <2>4. \A c : Opened(c)' <=> Opened(c)
    BY <1>1 DEF Opened
  <2> HIDE DEF row
  <2>5. QED
    BY <1>1, <2>2, <2>3, <2>4 DEF PublicationsChecked, row
<1>8. SearchFollowsMenu'
  <2>1. \A j \in Slots : calls[j].phase = "written" /\ calls[j] # NoCall =>
                           calls'[j].phase = "written" /\ Req(j)' = Req(j)
    BY <1>1, <1>4, <1>5
  <2>2. \A i \in Items :
          \/ search[i] = MenuEntry(db[i])
          \/ \E j \in Slots : calls'[j].phase = "written" /\ Req(j)'.row = i
          \/ i \in troubled
          \/ db[i].st = "active" /\ db[db[i].cat].st # "active"
    BY <2>1, BusySlot DEF CatalogInv, SearchFollowsMenu
  <2>3. QED
    BY <1>1, <2>2 DEF SearchFollowsMenu, MenuEntry
<1>9. QED
  BY <1>1, <1>4, <1>6, <1>7, <1>8
  DEF CatalogInv, RowsOK, Marks, SoldInOpened, ArchivedAreEmpty, RecordAgrees, Opened, Empty,
      Screens

(* The copy to the index: it shows the menu's price, or the item is marked  *)
(* as troubled, or it hides an item whose category is off sale.             *)
LEMMA SyncStays ==
  ASSUME CatalogInv, NEW k \in Slots, NEW ok \in BOOLEAN, Sync(k, ok)
  PROVE  CatalogInv'
<1> DEFINE i == Req(k).row
           got == calls[k].got
           new == [calls[k] EXCEPT !.phase = "done"]
<1>1. /\ calls[k].phase = "written" /\ calls[k] # NoCall
      /\ calls' = [calls EXCEPT ![k] = new]
      /\ search' = IF ok THEN [search EXCEPT ![i] = Indexed(got)] ELSE search
      /\ troubled' = IF ok /\ got.ver = db[i].ver THEN troubled \ {i} ELSE troubled \cup {i}
      /\ UNCHANGED <<db, view, shelf, late, adrift>>
  BY BusySlot DEF Sync, Step
<1>2. /\ CallOK(calls[k], db) /\ i = calls[k].todo[1].row /\ i \in Items
      /\ Copy(i, got, db[i]) /\ got \in Row
  BY <1>1, ReqOK DEF CatalogInv, CallOK, Copy
<1>3. CallOK(new, db) /\ new.phase = "done" /\ new.todo = calls[k].todo
  BY <1>1, <1>2, PhaseChanges DEF Phases
<1> HIDE DEF new
<1>4. Requests' /\ calls'[k] = new /\ \A j \in Slots \ {k} : calls'[j] = calls[j]
  BY <1>1, <1>3, SlotChanges DEF CatalogInv
<1>5. \A j \in Slots : Req(j)' = Req(j)
  BY <1>3, <1>4 DEF Req
<1>6. \A j \in Slots : calls'[j].phase = "checked" => calls[j].phase = "checked"
  BY <1>3, <1>4
<1>7. DeletionsCounted'
  BY <1>1, <1>5, <1>6 DEF CatalogInv, DeletionsCounted, Empty
<1>8. PublicationsChecked'
  BY <1>1, <1>5, <1>6 DEF CatalogInv, PublicationsChecked, Opened
<1>9. Indexed(got) \subseteq Vals
  BY <1>2 DEF Indexed, MenuEntry, Row
<1> HIDE DEF i, got
<1>10. Marks'
  BY <1>1, <1>2, <1>9 DEF CatalogInv, Marks
<1>11. SearchFollowsMenu'
  <2>1. ASSUME i \notin troubled'
        PROVE  search'[i] = MenuEntry(db[i]) \/ (db[i].st = "active" /\ db[db[i].cat].st # "active")
    <3>1. ok /\ got.ver = db[i].ver
      BY <1>1, <2>1
    <3>2. Content(got) = Content(db[i])
      BY <1>2, <3>1, Kinds DEF Copy, Alike
    <3>3. search'[i] = Indexed(got)
      BY <1>1, <1>2, <3>1 DEF CatalogInv, Marks
    <3>4. QED
      BY <3>2, <3>3 DEF Content, Indexed, MenuEntry
  <2>2. ASSUME NEW j \in Items, j # i
        PROVE  /\ search'[j] = search[j] /\ (j \in troubled' <=> j \in troubled)
               /\ \A s \in Slots : calls[s].phase = "written" /\ Req(s).row = j =>
                                     calls'[s].phase = "written"
    BY <1>1, <1>4, <2>2 DEF CatalogInv, Marks, i
  <2> DEFINE Copied(j, index, bad, c) ==
               \/ index[j] = MenuEntry(db[j])
               \/ \E s \in Slots : c[s].phase = "written" /\ Req(s).row = j
               \/ j \in bad
               \/ db[j].st = "active" /\ db[db[j].cat].st # "active"
  <2>3. \A j \in Items : Copied(j, search, troubled, calls)
    BY DEF CatalogInv, SearchFollowsMenu
  <2>4. ASSUME NEW j \in Items PROVE Copied(j, search', troubled', calls')
    <3>1. CASE j = i
      BY <2>1, <3>1
    <3>2. CASE j # i
      BY <2>2, <2>3, <3>2
    <3>3. QED
      BY <3>1, <3>2
  <2> HIDE DEF Copied
  <2>5. SearchFollowsMenu' <=> \A j \in Items : Copied(j, search', troubled', calls')
    BY <1>1, <1>5, ZenonT(60) DEF SearchFollowsMenu, MenuEntry, Copied
  <2>6. QED
    BY <2>4, <2>5
<1>12. QED
  BY <1>1, <1>4, <1>7, <1>8, <1>10, <1>11
  DEF CatalogInv, RowsOK, SoldInOpened, ArchivedAreEmpty, RecordAgrees, Opened, Empty, Screens

-----------------------------------------------------------------------------
(* Sales and redemptions move stock and the versions of coupons, and the    *)
(* content of nothing.                                                      *)

Quiet ==
  /\ db' \in [Rows -> Row]
  /\ \A r \in Rows : /\ Content(db'[r]) = Content(db[r])
                     /\ \/ db'[r].ver = db[r].ver
                        \/ /\ r \in Coupons /\ db[r].st # "none"
                           /\ db'[r].ver = db[r].ver + 1

(* Steps that move stock and versions of coupons, and no content.           *)
LEMMA QuietStays ==
  ASSUME CatalogInv, Quiet, UNCHANGED <<view, calls, search, late, troubled>>,
         adrift' \subseteq Items, RecordAgrees'
  PROVE  CatalogInv'
<1>1. /\ db \in [Rows -> Row]
      /\ \A r \in Rows : /\ db'[r].st = db[r].st /\ db'[r].val = db[r].val
                         /\ db'[r].cat = db[r].cat /\ db'[r].track = db[r].track
  BY DEF CatalogInv, RowsOK, Quiet, Content
<1>2. Onward(db, db')
  BY <1>1 DEF Quiet, Onward, Outcome, Row
<1>3. RowsOK'
  BY <1>1 DEF CatalogInv, RowsOK, Quiet, Row
<1>4. Screens'
  <2>1. ASSUME NEW e \in Editors, NEW r \in Rows PROVE Copy(r, view[e][r], db'[r])
    BY <1>1, <1>2, CopyStays DEF CatalogInv, Screens, Onward
  <2>2. QED
    BY <2>1 DEF CatalogInv, Screens
<1>5. Requests'
  <2>1. ASSUME NEW k \in Slots, calls[k] # NoCall PROVE CallOK(calls[k], db')
    BY <1>1, <1>2, <2>1, CallStays DEF CatalogInv, Requests
  <2>2. QED
    BY <2>1 DEF CatalogInv, Requests
<1>6. \A j \in Slots : Req(j)' = Req(j)
  BY DEF Req
<1>7. \A c \in Cats : (Empty(c)' <=> Empty(c)) /\ (Opened(c)' <=> Opened(c))
  BY <1>1, Kinds DEF Empty, Opened
<1>8. DeletionsCounted'
  BY <1>6, <1>7 DEF CatalogInv, DeletionsCounted
<1>9. PublicationsChecked'
  <2>1. ASSUME NEW k \in Slots, calls[k].phase = "checked", Req(k).row \in Sold,
               db'[Req(k).row].ver = Req(k).ver,
               Written(db'[Req(k).row], Req(k).change).st = "active"
        PROVE  LET c == Written(db'[Req(k).row], Req(k).change).cat
               IN  c \in Cats /\ db'[c].st \in {"active", "archived"}
    <3> DEFINE q == Req(k)
    <3>1. q \in ARequest /\ q.row \in Rows /\ q.change \in Changes
      BY <2>1, BusySlot, ReqOK DEF CatalogInv, ARequest
    <3>2. db[q.row] \in Row /\ db'[q.row] \in Row
      BY <1>1, <3>1 DEF Quiet
    <3>3. /\ Written(db'[q.row], q.change).st = Written(db[q.row], q.change).st
          /\ Written(db'[q.row], q.change).cat = Written(db[q.row], q.change).cat
      BY <1>1, <3>1, <3>2, WrittenIs
    <3>4. db'[q.row].ver = db[q.row].ver
      BY <2>1, <3>1, Kinds DEF Quiet
    <3>5. Opened(Written(db[q.row], q.change).cat)
      BY <2>1, <3>3, <3>4 DEF CatalogInv, PublicationsChecked
    <3>6. Written(db[q.row], q.change).cat \in Cats
      BY <3>5 DEF Opened
    <3>7. db'[Written(db'[q.row], q.change).cat].st = db[Written(db[q.row], q.change).cat].st
      BY <1>1, <3>3, <3>6, Kinds
    <3>8. QED
      BY <3>3, <3>5, <3>6, <3>7 DEF Opened
  <2>2. QED
    BY <1>6, <2>1 DEF PublicationsChecked, Opened, Written
<1>10. SoldInOpened'
  <2>1. ASSUME NEW r \in Sold, db'[r].st = "active"
        PROVE  db'[r].cat \in Cats /\ db'[db'[r].cat].st \in {"active", "archived"}
    <3>1. Opened(db[r].cat) /\ db'[r].cat = db[r].cat
      BY <1>1, <2>1, Kinds DEF CatalogInv, SoldInOpened
    <3>2. QED
      BY <1>1, <3>1, Kinds DEF Opened
  <2>2. QED
    BY <2>1 DEF SoldInOpened, Opened
<1>11. ArchivedAreEmpty'
  BY <1>1, <1>7, Kinds DEF CatalogInv, ArchivedAreEmpty
<1>12. SearchFollowsMenu'
  <2>1. \A i \in Items : MenuEntry(db'[i]) = MenuEntry(db[i])
    BY <1>1, Kinds DEF MenuEntry
  <2>2. ASSUME NEW i \in Items, db[i].st = "active", db[db[i].cat].st # "active"
        PROVE  db'[i].st = "active" /\ db'[db'[i].cat].st # "active"
    <3>1. db[i].cat \in Cats /\ i \in Rows
      BY <2>2, Kinds DEF CatalogInv, SoldInOpened, Opened
    <3>2. QED
      BY <1>1, <2>2, <3>1, Kinds
  <2>3. QED
    BY <1>6, <2>1, <2>2 DEF CatalogInv, SearchFollowsMenu
<1>13. Marks'
  BY DEF CatalogInv, Marks
<1>14. QED
  BY <1>3, <1>4, <1>5, <1>8, <1>9, <1>10, <1>11, <1>12, <1>13 DEF CatalogInv

(* A unit of stock is taken off the record. *)
LEMMA TakenIs ==
  ASSUME CatalogInv, NEW i \in Items, Taken(i)
  PROVE  /\ Quiet
         /\ \A j \in Items : /\ db'[j].track = db[j].track
                             /\ db'[j].stock = IF j = i /\ db[j].track THEN db[j].stock - 1
                                               ELSE db[j].stock
<1>1. i \in Rows /\ db \in [Rows -> Row] /\ Items \subseteq Rows
  BY Kinds DEF CatalogInv, RowsOK, Rows
<1>2. CASE db[i].track /\ db[i].stock >= 1 /\ db' = [db EXCEPT ![i].stock = @ - 1]
  <2> DEFINE row == [db[i] EXCEPT !.stock = @ - 1]
  <2>1. db' = [db EXCEPT ![i] = row]
    BY <1>1, <1>2
  <2>4. db[i] \in Row /\ db[i].stock - 1 \in 0..MaxStock
    BY <1>1, <1>2 DEF Row, MaxStock
  <2>5. row \in Row /\ row.stock = db[i].stock - 1
    BY <2>4 DEF Row
  <2>6. /\ row.ver = db[i].ver /\ row.track = db[i].track /\ row.st = db[i].st
        /\ row.val = db[i].val /\ row.cat = db[i].cat
    BY <2>4 DEF Row
  <2>2. /\ row \in Row /\ Content(row) = Content(db[i]) /\ row.ver = db[i].ver
        /\ row.stock = db[i].stock - 1 /\ row.track = db[i].track
    BY <2>5, <2>6 DEF Content
  <2> HIDE DEF row
  <2>3. QED
    BY <1>1, <1>2, <2>1, <2>2 DEF Quiet
<1>3. CASE ~db[i].track /\ UNCHANGED db
  <2>1. Quiet
    BY <1>1, <1>3 DEF Quiet, Row
  <2>2. QED
    BY <1>3, <2>1
<1>4. QED
  BY <1>2, <1>3 DEF Taken

(* Units that leave the shelf leave the shelf's type alone.                 *)
LEMMA FewerIs ==
  ASSUME NEW on \in [counted : BOOLEAN, n : Int]
  PROVE  /\ Fewer(on) \in [counted : BOOLEAN, n : Int]
         /\ Fewer(on).counted = on.counted
         /\ on.counted => Fewer(on).n = on.n - 1
BY DEF Fewer

(* A sale of an item takes a unit from the record and from the shelf.       *)
LEMMA SaleStays ==
  ASSUME CatalogInv, NEW i \in Items, Sell(i) \/ SellDirect(i)
  PROVE  CatalogInv'
<1>1. /\ Taken(i) /\ shelf' = [shelf EXCEPT ![i] = Fewer(@)]
      /\ UNCHANGED <<view, calls, search, late, adrift, troubled>>
  BY DEF Sell, SellDirect
<1>2. /\ Quiet
      /\ \A j \in Items : /\ db'[j].track = db[j].track
                          /\ db'[j].stock = IF j = i /\ db[j].track THEN db[j].stock - 1
                                            ELSE db[j].stock
  BY <1>1, TakenIs
<1>3. RecordAgrees'
  <2>1. shelf \in [Items -> [counted : BOOLEAN, n : Int]]
    BY DEF CatalogInv, RecordAgrees
  <2>2. /\ shelf' \in [Items -> [counted : BOOLEAN, n : Int]]
        /\ \A j \in Items : shelf'[j] = IF j = i THEN Fewer(shelf[i]) ELSE shelf[j]
        /\ Fewer(shelf[i]).counted = shelf[i].counted
        /\ shelf[i].counted => Fewer(shelf[i]).n = shelf[i].n - 1
    BY <1>1, <2>1, FewerIs
  <2>3. QED
    BY <1>1, <1>2, <2>2 DEF CatalogInv, RecordAgrees
<1>4. QED
  BY <1>1, <1>2, <1>3, QuietStays DEF CatalogInv, Marks

(* A sale of a combo takes from the shelf only.                             *)
LEMMA SellComboStays ==
  ASSUME CatalogInv, NEW b \in Combos, SellCombo(b)
  PROVE  CatalogInv'
<1>1. /\ shelf' = [i \in Items |-> Fewer(shelf[i])] /\ adrift' = Items
      /\ UNCHANGED <<db, view, calls, search, late, troubled>>
  BY DEF SellCombo
<1>2. Quiet
  BY <1>1 DEF CatalogInv, RowsOK, Quiet, Row
<1>3. RecordAgrees'
  <2>1. \A i \in Items : Fewer(shelf[i]) \in [counted : BOOLEAN, n : Int]
    BY FewerIs DEF CatalogInv, RecordAgrees
  <2>2. QED
    BY <1>1, <2>1 DEF RecordAgrees
<1>4. QED
  BY <1>1, <1>2, <1>3, QuietStays

(* A redemption raises the coupon's version.                                *)
LEMMA RedeemStays ==
  ASSUME CatalogInv, NEW c \in Coupons, Redeem(c)
  PROVE  CatalogInv'
<1> DEFINE row == [db[c] EXCEPT !.ver = @ + 1]
<1>1. /\ db[c].st # "none" /\ db' = [db EXCEPT ![c] = row]
      /\ UNCHANGED <<view, calls, search, shelf, late, adrift, troubled>>
      /\ c \in Rows /\ db \in [Rows -> Row]
  BY Kinds DEF Redeem, CatalogInv, RowsOK
<1>2. /\ row \in Row /\ Content(row) = Content(db[c]) /\ row.ver = db[c].ver + 1
      /\ row.stock = db[c].stock
  BY <1>1 DEF Row, Content
<1> HIDE DEF row
<1>3. Quiet
  BY <1>1, <1>2 DEF Quiet
<1>4. RecordAgrees'
  BY <1>1, <1>2, Kinds DEF CatalogInv, RecordAgrees
<1>5. QED
  BY <1>1, <1>3, <1>4, QuietStays DEF CatalogInv, Marks

-----------------------------------------------------------------------------
(* A request is written. *)

(* What the UPDATE does to its row. *)
LEMMA CommitIs ==
  ASSUME CatalogInv, NEW k \in Slots, Commit(k), VersionHolds(Req(k))
  PROVE  LET q == Req(k)
             row == Written(db[q.row], q.change)
         IN  /\ calls[k].phase = "checked" /\ calls[k] # NoCall
             /\ RequestOK(q, db) /\ q \in ARequest /\ q.row \in Rows /\ q.change \in Changes
             /\ CallOK(calls[k], db) /\ calls[k] \in ACall /\ q = calls[k].todo[1]
             /\ db[q.row] \in Row /\ row \in Row /\ row.ver = db[q.row].ver + 1
             /\ db' = [db EXCEPT ![q.row] = row]
             /\ db'[q.row] = row /\ \A r \in Rows \ {q.row} : db'[r] = db[r]
             /\ UNCHANGED <<view, search, troubled>>
             /\ late' = IF row.cat # db[q.row].cat /\ Closing(row.cat)
                        THEN late \cup {q.row} ELSE late
             /\ calls'[k].phase = IF NeedsSync(q, row) THEN "written" ELSE "done"
             /\ \A j \in Slots \ {k} : calls'[j] = calls[j]
             /\ \A j \in Slots : Req(j)' = Req(j)
             /\ Requests'
<1> DEFINE q == Req(k)
           row == Written(db[q.row], q.change)
           p == IF NeedsSync(q, row) THEN "written" ELSE "done"
           new == [calls[k] EXCEPT !.got = row, !.phase = p]
<1>1. calls[k].phase = "checked" /\ calls[k] # NoCall
  BY BusySlot DEF Commit
<1>2. /\ RequestOK(q, db) /\ q \in ARequest /\ q.row \in Rows
      /\ CallOK(calls[k], db) /\ calls[k] \in ACall /\ q = calls[k].todo[1]
  BY <1>1, ReqOK DEF CatalogInv
<1>3. db \in [Rows -> Row] /\ db[q.row] \in Row /\ q.change \in Changes
  BY <1>2 DEF CatalogInv, RowsOK, ARequest
<1>4. row \in Row /\ row.ver = db[q.row].ver + 1
  BY <1>3, WrittenIs
<1>5. /\ db' = [db EXCEPT ![q.row] = row]
      /\ calls' = [calls EXCEPT ![k].got = row, ![k].phase = p]
      /\ late' = IF row.cat # db[q.row].cat /\ Closing(row.cat) THEN late \cup {q.row} ELSE late
      /\ UNCHANGED <<view, search, troubled>>
  BY DEF Commit
<1> HIDE DEF row
<1>6. db'[q.row] = row /\ \A r \in Rows \ {q.row} : db'[r] = db[r]
  BY <1>2, <1>3, <1>5
<1>7. calls = [j \in Slots |-> calls[j]]
  BY DEF CatalogInv, Requests
<1>8. calls' = [calls EXCEPT ![k] = new]
  BY <1>5, <1>7
<1>9. /\ new \in ACall /\ new.phase = p /\ new.todo = calls[k].todo /\ new.got = row
  <2>1. p \in Phases
    BY DEF Phases
  <2> HIDE DEF p
  <2>2. QED
    BY <1>2, <1>4, <2>1 DEF ACall
<1> HIDE DEF new
<1>10. calls'[k] = new /\ \A j \in Slots \ {k} : calls'[j] = calls[j]
  BY <1>7, <1>8
<1>11. \A j \in Slots : Req(j)' = Req(j)
  BY <1>9, <1>10 DEF Req
<1>12. Onward(db, db')
  BY <1>3, <1>4, <1>6 DEF Onward, Outcome, Row
<1>13. CallOK(new, db')
  <2>1. \A n \in DOMAIN new.todo : RequestOK(new.todo[n], db')
    BY <1>2, <1>3, <1>9, <1>12, RequestStays DEF CallOK
  <2>2. q.row \in Coupons => row.st # "draft"
    <3>1. ASSUME q.row \in Coupons PROVE row.st = q.change.st /\ q.change.st # "draft"
      BY <1>2, <1>3, <3>1, WrittenIs DEF row, RequestOK, CouponRequest
    <3>2. QED
      BY <3>1
  <2>3. Copy(q.row, row, db'[q.row])
    BY <1>4, <1>6, <2>2, OwnCopy
  <2>4. p = "written" => q.row \in Items
    BY DEF NeedsSync
  <2> HIDE DEF p
  <2>5. QED
    BY <1>2, <1>9, <2>1, <2>3, <2>4 DEF CallOK
<1>14. Requests'
  <2>1. calls' = [j \in Slots |-> calls'[j]]
    BY <1>7, <1>8
  <2>2. ASSUME NEW j \in Slots, calls'[j] # NoCall PROVE CallOK(calls'[j], db')
    <3>1. CASE j = k
      BY <1>10, <1>13, <3>1
    <3>2. CASE j # k
      BY <1>3, <1>10, <1>12, <2>2, <3>2, CallStays DEF CatalogInv, Requests
    <3>3. QED
      BY <3>1, <3>2
  <2>3. QED
    BY <2>1, <2>2 DEF Requests
<1>15. QED
  BY <1>1, <1>2, <1>3, <1>4, <1>5, <1>6, <1>9, <1>10, <1>11, <1>14 DEF row

(* The row a commit replaces is, but for a coupon, the one its editor saw:   *)
(* it did not exist, or was not archived.                                   *)
LEMMA CommitSees ==
  ASSUME CatalogInv, NEW k \in Slots, Commit(k), VersionHolds(Req(k)),
         Req(k).row \notin Coupons
  PROVE  /\ Content(db[Req(k).row]) = Content(Req(k).base)
         /\ Req(k).how = "create" => db[Req(k).row].st = "none"
         /\ Req(k).how # "create" => db[Req(k).row].st \notin Shelved
         /\ Req(k).row \in Sold => Written(db[Req(k).row], Req(k).change).cat \in Cats
<1>1. /\ calls[k] # NoCall /\ RequestOK(Req(k), db)
      /\ db[Req(k).row].ver = Req(k).ver
  BY CommitIs DEF VersionHolds
<1>2. Content(db[Req(k).row]) = Content(Req(k).base)
  BY <1>1, VersionPins
<1>3. db[Req(k).row].st = Req(k).base.st
  BY <1>2 DEF Content
<1>4. QED
  BY <1>1, <1>2, <1>3, NewHome DEF RequestOK

(* After a commit its row exists. *)
LEMMA CommitRows ==
  ASSUME CatalogInv, NEW k \in Slots, Commit(k), VersionHolds(Req(k))
  PROVE  RowsOK' /\ Screens'
<1> DEFINE q == Req(k)
           old == db[q.row]
           row == Written(old, q.change)
<1>1. /\ RequestOK(q, db) /\ q.row \in Rows /\ q.change \in Changes
      /\ old \in Row /\ row \in Row /\ row.ver = old.ver + 1
      /\ db' = [db EXCEPT ![q.row] = row] /\ UNCHANGED view
      /\ db'[q.row] = row /\ \A r \in Rows \ {q.row} : db'[r] = db[r]
  BY CommitIs
<1>2. db \in [Rows -> Row]
  BY DEF CatalogInv, RowsOK
<1>3. row.st = IF "st" \in DOMAIN q.change THEN q.change.st ELSE old.st
  BY <1>1, WrittenIs
<1>4. "st" \in DOMAIN q.change => q.change.st # "none"
  BY <1>1, ChangeFields
<1> HIDE DEF row, q, old
<1>5. row.st # "none"
  <2>1. CASE "st" \in DOMAIN q.change
    BY <1>3, <1>4, <2>1
  <2>2. CASE "st" \notin DOMAIN q.change
    <3>1. q.how # "create" /\ q.row \notin Coupons
      BY <1>1, <2>2 DEF RequestOK, CouponRequest
    <3>2. old.st \notin Shelved
      BY <3>1, CommitSees DEF q, old
    <3>3. QED
      BY <1>3, <2>2, <3>2 DEF Shelved
  <2>3. QED
    BY <2>1, <2>2
<1>6. q.row \in Sold => row.cat \in Cats
  BY Kinds, CommitSees DEF q, old, row
<1>7. q.row \in Coupons => row.st # "draft"
  BY <1>1, <1>3 DEF RequestOK, CouponRequest
<1>8. row.ver # 0
  BY <1>1 DEF Row
<1>9. RowsOK'
  <2>1. db' \in [Rows -> Row]
    BY <1>1, <1>2
  <2>2. ASSUME NEW r \in Rows
        PROVE  /\ (db'[r].st = "none") <=> (db'[r].ver = 0)
               /\ db'[r].st = "none" => /\ db'[r].cat = "none" /\ db'[r].val = 0
                                         /\ db'[r].track = FALSE
               /\ r \in Sold /\ db'[r].st # "none" => db'[r].cat \in Cats
               /\ r \in Coupons => db'[r].st # "draft"
    <3>1. CASE r = q.row
      BY <1>1, <1>5, <1>6, <1>7, <1>8, <3>1
    <3>2. CASE r # q.row
      BY <1>1, <3>2 DEF CatalogInv, RowsOK
    <3>3. QED
      BY <3>1, <3>2
  <2>3. QED
    BY <2>1, <2>2 DEF RowsOK
<1>10. \A r \in Rows : Outcome(db[r], db'[r])
  BY <1>1, <1>2 DEF Outcome, Row, old
<1>11. Screens'
  BY <1>1, <1>2, <1>10, CopyStays DEF CatalogInv, Screens
<1>12. QED
  BY <1>9, <1>11

(* How a commit moves a category: an archived one stays as it is, one that  *)
(* was opened stays opened, and one is archived only by a deletion that has *)
(* counted its children.                                                    *)
LEMMA CommitCategories ==
  ASSUME CatalogInv, NEW k \in Slots, Commit(k), VersionHolds(Req(k)), NEW c \in Cats
  PROVE  /\ db[c].st = "archived" => db'[c].st = "archived"
         /\ db[c].st \in {"active", "archived"} => db'[c].st \in {"active", "archived"}
         /\ db'[c].st = "archived" => Closing(c)
<1> DEFINE q == Req(k)
           row == Written(db[q.row], q.change)
<1>1. /\ calls[k].phase = "checked" /\ RequestOK(q, db) /\ q.row \in Rows
      /\ q.change \in Changes /\ db[q.row] \in Row
      /\ db'[q.row] = row /\ \A r \in Rows \ {q.row} : db'[r] = db[r]
      /\ q.how \in {"create", "patch", "sweep", "delete"}
  BY CommitIs DEF ARequest
<1>2. CASE c # q.row
  BY <1>1, <1>2, Kinds DEF Closing
<1>3. CASE c = q.row
  <2>1. CategoryRequest(q) /\ c \notin Coupons
    BY <1>1, <1>3, Kinds DEF RequestOK
  <2>2. row.st = q.change.st
    BY <1>1, <2>1, WrittenIs DEF CategoryRequest
  <2>3. /\ q.how = "create" => db[c].st = "none"
        /\ q.how # "create" => db[c].st \notin Shelved
        /\ db[c].st = q.base.st
    BY <1>3, <2>1, CommitSees DEF Content
  <2>4. db[c].st # "archived"
    BY <2>3 DEF Shelved
  <2> HIDE DEF q, row
  <2>5. /\ q.how = "create" => row.st = "draft" /\ db[c].st = "none"
        /\ q.how = "patch" => row.st = "active" /\ db[c].st = "draft"
        /\ q.how = "delete" => row.st = "archived"
        /\ q.how # "sweep"
    BY <2>1, <2>2, <2>3 DEF CategoryRequest
  <2>6. q.how = "delete" => Closing(c)
    BY <1>1, <1>3 DEF Closing, q
  <2>7. QED
    BY <1>1, <1>3, <2>4, <2>5, <2>6
<1>4. QED
  BY <1>2, <1>3

(* A category that is closing stays empty, but for what comes late.         *)
LEMMA ClosingStaysEmpty ==
  ASSUME CatalogInv, NEW k \in Slots, Commit(k), VersionHolds(Req(k)), NEW c \in Cats,
         Closing(c), Empty(c)
  PROVE  Empty(c)'
<1> DEFINE q == Req(k)
           old == db[q.row]
           row == Written(old, q.change)
<1>1. /\ RequestOK(q, db) /\ q.row \in Rows /\ q.change \in Changes /\ old \in Row
      /\ db'[q.row] = row /\ \A r \in Rows \ {q.row} : db'[r] = db[r]
      /\ late' = IF row.cat # old.cat /\ Closing(row.cat) THEN late \cup {q.row} ELSE late
  BY CommitIs
<1>2. row.cat = IF "cat" \in DOMAIN q.change THEN q.change.cat ELSE old.cat
  BY <1>1, WrittenIs
<1> HIDE DEF row, old, q
<1>3. ASSUME q.row \in Sold \ late', row.cat = c PROVE FALSE
  <2>1. old.cat = c /\ q.row \notin late
    BY <1>1, <1>3
  <2>2. q.row \notin Coupons
    BY <1>3, Kinds
  <2>3. old.st \in Shelved
    BY <1>3, <2>1 DEF Empty, old
  <2>4. old.st = "none"
    BY <2>2, <2>3, CommitSees DEF q, old, Shelved
  <2>5. old.cat = "none"
    BY <1>1, <2>4 DEF CatalogInv, RowsOK, old
  <2>6. QED
    BY <2>1, <2>5, CatalogAssumption
<1>4. ASSUME NEW r \in Sold, r \notin late', db'[r].cat = c
      PROVE  db'[r].st \in Shelved
  <2>1. r # q.row
    BY <1>1, <1>3, <1>4
  <2>2. db'[r] = db[r] /\ r \notin late
    BY <1>1, <1>4, <2>1, Kinds
  <2>3. QED
    BY <1>4, <2>2 DEF Empty
<1>5. QED
  BY <1>4 DEF Empty

(* A commit keeps what open deletions counted, or marks what is late.       *)
LEMMA CommitCounts ==
  ASSUME CatalogInv, NEW k \in Slots, Commit(k), VersionHolds(Req(k))
  PROVE  DeletionsCounted' /\ ArchivedAreEmpty'
<1>1. /\ calls'[k].phase # "checked" /\ \A j \in Slots \ {k} : calls'[j] = calls[j]
      /\ \A j \in Slots : Req(j)' = Req(j)
  BY CommitIs
<1>2. DeletionsCounted'
  <2>1. ASSUME NEW j \in Slots, calls'[j].phase = "checked", Req(j).row \in Cats,
               Req(j).how = "delete"
        PROVE  Empty(Req(j).row)'
    <3> DEFINE c == Req(j).row
    <3>1. j # k /\ calls[j].phase = "checked"
      BY <1>1, <2>1
    <3>2. Closing(c) /\ Empty(c)
      BY <2>1, <3>1 DEF CatalogInv, DeletionsCounted, Closing
    <3>3. ASSUME NEW d \in Cats, d = c PROVE Empty(d)'
      BY <3>2, <3>3, ClosingStaysEmpty
    <3>4. \A d \in Cats : d = c => Empty(d)'
      BY <3>3
    <3>5. Req(j)' = Req(j)
      BY <1>1
    <3>6. QED
      BY <2>1, <3>4, <3>5 DEF Empty
  <2>2. QED
    BY <1>1, <2>1 DEF DeletionsCounted, Empty
<1>3. ArchivedAreEmpty'
  <2>1. ASSUME NEW c \in Cats, db'[c].st = "archived" PROVE Empty(c)'
    <3>1. Closing(c)
      BY <2>1, CommitCategories
    <3>2. Empty(c)
      BY <3>1 DEF CatalogInv, Closing, ArchivedAreEmpty, DeletionsCounted
    <3>3. QED
      BY <3>1, <3>2, ClosingStaysEmpty
  <2>2. QED
    BY <2>1 DEF ArchivedAreEmpty
<1>4. QED
  BY <1>2, <1>3

(* A commit keeps what the open publications have checked.                  *)
LEMMA CommitPublishes ==
  ASSUME CatalogInv, NEW k \in Slots, Commit(k), VersionHolds(Req(k))
  PROVE  PublicationsChecked' /\ SoldInOpened'
<1> DEFINE q == Req(k)
           row == Written(db[q.row], q.change)
           OpenNow(c) == c \in Cats /\ db'[c].st \in {"active", "archived"}
<1>1. /\ calls[k].phase = "checked" /\ calls[k] # NoCall /\ q.row \in Rows
      /\ db[q.row] \in Row /\ row \in Row /\ row.ver = db[q.row].ver + 1
      /\ db'[q.row] = row /\ \A r \in Rows \ {q.row} : db'[r] = db[r]
      /\ calls'[k].phase # "checked" /\ \A j \in Slots \ {k} : calls'[j] = calls[j]
      /\ \A j \in Slots : Req(j)' = Req(j)
  BY CommitIs
<1>2. \A c : Opened(c) => OpenNow(c)
  BY CommitCategories DEF Opened
<1>3. PublicationsChecked'
  <2>1. ASSUME NEW j \in Slots, calls'[j].phase = "checked", Req(j).row \in Sold,
               db'[Req(j).row].ver = Req(j).ver,
               Written(db'[Req(j).row], Req(j).change).st = "active"
        PROVE  OpenNow(Written(db'[Req(j).row], Req(j).change).cat)
    <3>1. j # k /\ calls[j].phase = "checked" /\ Req(j).row \in Rows
      BY <1>1, <2>1, Kinds
    <3>2. RequestOK(Req(j), db)
      BY <3>1, BusySlot, ReqOK DEF CatalogInv
    <3>3. Req(j).ver <= db[Req(j).row].ver
      BY <3>2 DEF RequestOK, Copy
    <3>4. Req(j).row # q.row
      <4>1. db[q.row].ver \in Nat
        BY <1>1 DEF Row
      <4> HIDE DEF q, row
      <4>2. QED
        BY <1>1, <2>1, <3>3, <4>1
    <3>5. db'[Req(j).row] = db[Req(j).row]
      BY <1>1, <3>1, <3>4
    <3>6. Opened(Written(db[Req(j).row], Req(j).change).cat)
      BY <2>1, <3>1, <3>5 DEF CatalogInv, PublicationsChecked
    <3>7. QED
      BY <1>2, <3>5, <3>6
  <2>2. QED
    BY <1>1, <2>1, ZenonT(60) DEF PublicationsChecked, Opened, Written
<1>4. SoldInOpened'
  <2>1. ASSUME NEW r \in Sold, db'[r].st = "active" PROVE OpenNow(db'[r].cat)
    <3>1. CASE r = q.row
      <4>1. db[q.row].ver = q.ver
        BY <2>1, <3>1, Kinds, CommitIs DEF VersionHolds
      <4>2. Opened(row.cat)
        BY <1>1, <2>1, <3>1, <4>1 DEF CatalogInv, PublicationsChecked
      <4>3. QED
        BY <1>1, <1>2, <3>1, <4>2
    <3>2. CASE r # q.row
      <4>1. db'[r] = db[r]
        BY <1>1, <3>2, Kinds
      <4>2. Opened(db[r].cat)
        BY <2>1, <4>1 DEF CatalogInv, SoldInOpened
      <4>3. QED
        BY <1>2, <4>1, <4>2
    <3>3. QED
      BY <3>1, <3>2
  <2>2. QED
    BY <2>1 DEF SoldInOpened, Opened
<1>5. QED
  BY <1>3, <1>4

(* A commit keeps the record of the stock, or marks the item as adrift.     *)
LEMMA CommitRecord ==
  ASSUME CatalogInv, NEW k \in Slots, Commit(k), VersionHolds(Req(k))
  PROVE  RecordAgrees' /\ Marks'
<1> DEFINE q == Req(k)
           old == db[q.row]
           row == Written(old, q.change)
<1>1. /\ RequestOK(q, db) /\ q.row \in Rows /\ q.change \in Changes
      /\ old \in Row /\ row \in Row /\ UNCHANGED <<search, troubled>>
      /\ db'[q.row] = row /\ \A r \in Rows \ {q.row} : db'[r] = db[r]
      /\ late' = IF row.cat # old.cat /\ Closing(row.cat) THEN late \cup {q.row} ELSE late
  BY CommitIs
<1>2. /\ row.cat = IF "cat" \in DOMAIN q.change THEN q.change.cat ELSE old.cat
      /\ row.track = IF "track" \in DOMAIN q.change THEN q.change.track ELSE old.track
  BY <1>1, WrittenIs
<1>3. /\ q.row \in Items => Saved(q, row)
      /\ q.row \notin Items => UNCHANGED <<shelf, adrift>>
  BY DEF Commit
<1>4. /\ old.stock \in Int /\ row.stock \in Int /\ q.base.stock \in Int
      /\ old.track \in BOOLEAN /\ row.track \in BOOLEAN /\ q.base.track \in BOOLEAN
  BY <1>1 DEF Row, MaxStock, RequestOK, Copy
<1>5. late' \subseteq Sold
  <2>1. row.cat # old.cat => q.row \in Sold
    BY <1>1, <1>2 DEF RequestOK
  <2> HIDE DEF row, old, q
  <2>2. QED
    BY <1>1, <2>1 DEF CatalogInv, Marks
<1>6. q.row \in Items => old.track = q.base.track
  BY Kinds, CommitSees DEF Content
<1>7. "track" \in DOMAIN q.change /\ "cat" \notin DOMAIN q.change => q.change.track = FALSE
  BY <1>1, ChangeFields
<1> DEFINE AShelf == [counted : BOOLEAN, n : Int]
           stated == Stated(q, row)
<1>8. /\ shelf \in [Items -> AShelf]
      /\ \A i \in Items \ adrift : /\ shelf[i].counted = db[i].track
                                   /\ db[i].track => shelf[i].n = db[i].stock
  BY DEF CatalogInv, RecordAgrees
<1>9. Marks'
  <2>1. adrift' \subseteq Items
    <3> HIDE DEF row, old, q
    <3>1. QED
      BY <1>3 DEF Saved, CatalogInv, Marks
  <2> HIDE DEF row, old, q
  <2>2. QED
    BY <1>1, <1>5, <2>1 DEF CatalogInv, Marks
<1>10. RecordAgrees'
  <2>1. CASE q.row \in Items
    <3>1. \A i \in Items \ {q.row} : /\ shelf'[i] = shelf[i] /\ db'[i] = db[i]
                                     /\ i \in adrift => i \in adrift'
      <4>1. \A i \in Items \ {q.row} : db'[i] = db[i]
        BY <1>1, Kinds
      <4> HIDE DEF row, old, q
      <4>2. QED
        BY <1>3, <1>8, <2>1, <4>1 DEF Saved
    <3>2. CASE Form(q)
      <4>1. /\ shelf' = [shelf EXCEPT ![q.row] = stated]
            /\ stated.counted = row.track
            /\ stated.n = IF row.track /\ q.base.track
                          THEN shelf[q.row].n + row.stock - q.base.stock ELSE row.stock
            /\ stated = [counted |-> stated.counted, n |-> stated.n]
        BY <1>3, <2>1, <3>2 DEF Saved, Stated
      <4>2. row.track /\ q.base.track /\ q.row \notin adrift' =>
              q.row \notin adrift /\ q.base.stock = old.stock
        BY <1>3, <2>1, <3>2 DEF Saved, Drifts
      <4> HIDE DEF row, stated, q
      <4>3. shelf[q.row].n \in Int
        BY <1>8, <2>1
      <4>4. stated \in AShelf
        BY <1>4, <4>1, <4>3
      <4>5. shelf' \in [Items -> AShelf] /\ shelf'[q.row] = stated
        BY <1>8, <2>1, <4>1, <4>4
      <4>6. q.row \notin adrift' /\ row.track => stated.n = row.stock
        BY <1>4, <1>6, <1>8, <2>1, <4>1, <4>2, <4>3 DEF old
      <4> HIDE DEF old
      <4>7. QED
        BY <1>1, <1>8, <3>1, <4>1, <4>5, <4>6 DEF RecordAgrees
    <3>3. CASE ~Form(q)
      <4>1. /\ shelf' = shelf
            /\ q.row \notin adrift' => q.row \notin adrift /\ ~old.track
        BY <1>3, <2>1, <3>3 DEF Saved, Drifts
      <4>2. ~old.track => ~row.track
        BY <1>2, <1>7, <3>3 DEF Form
      <4>3. q.row \notin adrift' => ~shelf[q.row].counted
        BY <1>8, <2>1, <4>1
      <4> HIDE DEF old, row, q
      <4>4. QED
        BY <1>1, <1>4, <1>8, <3>1, <4>1, <4>2, <4>3 DEF RecordAgrees
    <3>4. QED
      BY <3>2, <3>3
  <2>2. CASE q.row \notin Items
    <3>1. \A i \in Items : db'[i] = db[i]
      BY <1>1, <2>2, Kinds
    <3> HIDE DEF old, row, q
    <3>2. QED
      BY <1>3, <1>8, <2>2, <3>1 DEF RecordAgrees
  <2>3. QED
    BY <2>1, <2>2
<1>11. QED
  BY <1>9, <1>10

(* After a commit the copy of the item to the index is under way.           *)
LEMMA CommitIndex ==
  ASSUME CatalogInv, NEW k \in Slots, Commit(k), VersionHolds(Req(k))
  PROVE  SearchFollowsMenu'
<1> DEFINE q == Req(k)
           old == db[q.row]
           row == Written(old, q.change)
<1>1. /\ calls[k].phase = "checked" /\ q.row \in Rows /\ UNCHANGED <<search, troubled>>
      /\ db'[q.row] = row /\ \A r \in Rows \ {q.row} : db'[r] = db[r]
      /\ calls'[k].phase = IF NeedsSync(q, row) THEN "written" ELSE "done"
      /\ \A j \in Slots \ {k} : calls'[j] = calls[j]
      /\ \A j \in Slots : Req(j)' = Req(j)
  BY CommitIs
<1> DEFINE Coming(i) == \E j \in Slots : calls'[j].phase = "written" /\ Req(j).row = i
<1>2. ASSUME NEW i \in Items, NEW j \in Slots, calls[j].phase = "written", Req(j).row = i
      PROVE  Coming(i)
  BY <1>1, <1>2
<1>3. ASSUME NEW i \in Items
      PROVE  \/ search[i] = MenuEntry(db'[i]) \/ Coming(i) \/ i \in troubled
             \/ (db'[i].st = "active" /\ db'[db'[i].cat].st # "active")
  <2>1. CASE i = q.row /\ NeedsSync(q, row)
    BY <1>1, <2>1
  <2>2. CASE i = q.row /\ ~NeedsSync(q, row)
    <3>1. q.how = "create" /\ row.st # "active" /\ i \notin Coupons
      BY <1>3, <2>2, Kinds DEF NeedsSync
    <3>2. old.st = "none"
      BY <2>2, <3>1, CommitSees
    <3>3. MenuEntry(row) = MenuEntry(old)
      BY <3>1, <3>2 DEF MenuEntry
    <3> HIDE DEF Coming, row
    <3>4. QED
      BY <1>1, <1>2, <1>3, <2>2, <3>2, <3>3 DEF CatalogInv, SearchFollowsMenu
  <2>3. CASE i # q.row
    <3>1. db'[i] = db[i]
      BY <1>1, <2>3, Kinds
    <3>2. ASSUME db[i].st = "active", db[db[i].cat].st # "active"
          PROVE  db'[db[i].cat].st # "active"
      <4>1. Opened(db[i].cat)
        BY <3>2, Kinds DEF CatalogInv, SoldInOpened
      <4>2. db[i].cat \in Cats /\ db[db[i].cat].st = "archived"
        BY <3>2, <4>1 DEF Opened
      <4>3. db'[db[i].cat].st = "archived"
        BY <4>2, CommitCategories
      <4>4. QED
        BY <4>3
    <3> HIDE DEF Coming
    <3>3. QED
      BY <1>2, <1>3, <3>1, <3>2 DEF CatalogInv, SearchFollowsMenu
  <2>4. QED
    BY <2>1, <2>2, <2>3
<1>4. QED
  BY <1>1, <1>3 DEF SearchFollowsMenu, MenuEntry

(* A commit keeps the whole invariant.                                      *)
LEMMA CommitStays ==
  ASSUME CatalogInv, NEW k \in Slots, Commit(k)
  PROVE  CatalogInv'
<1>1. CASE VersionHolds(Req(k))
  <2>1. Requests'
    BY <1>1, CommitIs
  <2>2. QED
    BY <1>1, <2>1, CommitRows, CommitCounts, CommitPublishes, CommitRecord, CommitIndex
    DEF CatalogInv
<1>2. CASE ~VersionHolds(Req(k))
  <2> DEFINE new == [calls[k] EXCEPT !.phase = "conflict"]
  <2>1. /\ calls[k].phase = "checked" /\ calls[k] # NoCall
        /\ calls' = [calls EXCEPT ![k] = new]
        /\ UNCHANGED <<db, view, search, shelf, late, adrift, troubled>>
    BY <1>2, BusySlot DEF Commit, Step
  <2>2. CallOK(new, db) /\ new.phase = "conflict"
    BY <2>1, ReqOK, PhaseChanges DEF CatalogInv, Phases
  <2> HIDE DEF new
  <2>3. Requests' /\ calls'[k] = new /\ \A j \in Slots \ {k} : calls'[j] = calls[j]
    BY <2>1, <2>2, SlotChanges DEF CatalogInv
  <2>4. NoneAhead
    BY <2>1, <2>2, <2>3 DEF NoneAhead, Req
  <2>5. QED
    BY <2>1, <2>3, <2>4, FrameStays, ScreensStay DEF CatalogInv
<1>3. QED
  BY <1>1, <1>2

-----------------------------------------------------------------------------
(* The theorems about the catalogue. *)

(* A tenant starts with no rows, or with a menu in its first category. *)
LEMMA InitCatalog == Init => CatalogInv
<1> SUFFICES ASSUME Init PROVE CatalogInv
  OBVIOUS
<1>1. /\ view = [e \in Editors |-> db] /\ calls = [k \in Slots |-> NoCall]
      /\ search = [i \in Items |-> MenuEntry(db[i])]
      /\ shelf = [i \in Items |-> [counted |-> db[i].track, n |-> db[i].stock]]
      /\ late = {} /\ adrift = {} /\ troubled = {}
  BY DEF Init
<1>2. NoRow \in Row /\ NoRow.st = "none" /\ NoRow.ver = 0 /\ NoRow.cat = "none" /\ NoRow.val = 0
      /\ NoRow.track = FALSE
  BY DEF NoRow, Row, Vals, MaxStock
<1>3. /\ RowsOK
      /\ \A r \in Sold : db[r].st # "none" => db[r].st = "active" /\ db[db[r].cat].st = "active"
      /\ \A c \in Cats : db[c].st # "archived"
  <2>1. CASE db = [r \in Rows |-> NoRow]
    BY <1>2, <2>1, Kinds DEF RowsOK
  <2>2. CASE db = Stocked
    <3> DEFINE home == CHOOSE c \in Cats : TRUE
               Full(r) == [st |-> "active", ver |-> 1, val |-> 0,
                           cat |-> IF r \in Items THEN home ELSE "none", track |-> r \in Items,
                           stock |-> IF r \in Items THEN MaxStock ELSE 0]
    <3>1. home \in Cats
      BY CatalogAssumption
    <3>2. db = [r \in Rows |-> IF r \in Combos \cup Groups THEN NoRow ELSE Full(r)]
      BY <2>2 DEF Stocked
    <3> HIDE DEF home
    <3>3. \A r \in Rows : /\ Full(r) \in Row /\ Full(r).st = "active" /\ Full(r).ver = 1
                          /\ r \in Items => Full(r).cat = home
      BY <3>1 DEF Row, Vals, MaxStock
    <3> HIDE DEF Full
    <3>4. /\ db \in [Rows -> Row]
          /\ \A r \in Rows : db[r] = IF r \in Combos \cup Groups THEN NoRow ELSE Full(r)
      BY <1>2, <3>2, <3>3
    <3>5. ASSUME NEW r \in Rows
          PROVE  /\ (db[r].st = "none") <=> (db[r].ver = 0)
                 /\ db[r].st = "none" => db[r].cat = "none" /\ db[r].val = 0 /\ db[r].track = FALSE
                 /\ r \in Coupons => db[r].st # "draft"
                 /\ db[r].st # "archived"
      BY <1>2, <3>3, <3>4
    <3>6. db[home].st = "active"
      BY <3>1, <3>3, <3>4, Kinds DEF Sold
    <3>7. ASSUME NEW r \in Sold, db[r].st # "none"
          PROVE  db[r].st = "active" /\ db[r].cat = home
      <4>1. r \in Items /\ r \notin Combos \cup Groups
        BY <1>2, <3>4, <3>7, Kinds DEF Sold
      <4>2. QED
        BY <3>3, <3>4, <4>1, Kinds
    <3>8. QED
      BY <3>1, <3>4, <3>5, <3>6, <3>7, Kinds DEF RowsOK
  <2>3. QED
    BY <2>1, <2>2 DEF Init
<1>4. Screens
  BY <1>1, <1>3, OwnCopy DEF RowsOK, Screens
<1>5. Requests
  BY <1>1 DEF Requests
<1>6. \A i \in Items : db[i] \in Row /\ MenuEntry(db[i]) \in SUBSET Vals
                     /\ db[i].stock \in Int /\ db[i].track \in BOOLEAN
  BY <1>3, Kinds DEF RowsOK, MenuEntry, Row, MaxStock
<1>7. Marks /\ RecordAgrees /\ SearchFollowsMenu
  BY <1>1, <1>6 DEF Marks, RecordAgrees, SearchFollowsMenu
<1>8. DeletionsCounted /\ PublicationsChecked
  BY <1>1 DEF DeletionsCounted, PublicationsChecked, NoCall
<1>9. SoldInOpened /\ ArchivedAreEmpty
  BY <1>3, Kinds DEF SoldInOpened, Opened, ArchivedAreEmpty, RowsOK
<1>10. QED
  BY <1>3, <1>4, <1>5, <1>7, <1>8, <1>9 DEF CatalogInv

(* Every step of the catalogue keeps the invariant.                         *)
LEMMA NextCatalog == CatalogInv /\ [Next]_vars => CatalogInv'
<1> SUFFICES ASSUME CatalogInv, [Next]_vars PROVE CatalogInv'
  OBVIOUS
<1>1. ASSUME NEW e \in Editors,
             \/ CategoryClick(e) \/ ItemClick(e) \/ GroupClick(e)
             \/ ComboClick(e) \/ CouponClick(e) \/ Reload(e)
      PROVE  CatalogInv'
  BY <1>1, CategoryClickStays, ItemClickStays, GroupClickStays, ComboClickStays,
     CouponClickStays, ReloadStays
<1>2. ASSUME NEW k \in Slots,
             \/ Check(k) \/ Commit(k) \/ Sync(k, TRUE) \/ Sync(k, FALSE)
             \/ Lose(k) \/ Receive(k)
      PROVE  CatalogInv'
  BY <1>2, CheckStays, CommitStays, SyncStays, LoseStays, ReceiveStays
<1>3. ASSUME NEW i \in Items, SellDirect(i) \/ Sell(i) PROVE CatalogInv'
  BY <1>3, SaleStays
<1>4. ASSUME NEW b \in Combos, SellCombo(b) PROVE CatalogInv'
  BY <1>4, SellComboStays
<1>5. ASSUME NEW p \in Coupons, Redeem(p) PROVE CatalogInv'
  BY <1>5, RedeemStays
<1>6. CASE UNCHANGED vars
  <2>1. Screens' /\ Requests' /\ NoneAhead
    BY <1>6 DEF vars, CatalogInv, Screens, Requests, NoneAhead, Req
  <2>2. UNCHANGED <<db, search, shelf, late, adrift, troubled>>
    BY <1>6 DEF vars
  <2>3. QED
    BY <2>1, <2>2, FrameStays
<1>7. QED
  BY <1>1, <1>2, <1>3, <1>4, <1>5, <1>6 DEF Next

(* The inductive invariant of the catalogue: every row on a screen or in a  *)
(* request is an older copy of its row or the row itself, deletions count   *)
(* their children and publications check their category in time.            *)
THEOREM CatalogInductive == Spec => []CatalogInv
BY InitCatalog, NextCatalog, PTL DEF Spec

(* No stock is driven below zero, and the record of what a tenant counts is *)
(* what is on the shelf (the guarded deduction of order.repository), unless *)
(* an editor saved a form older than a sale, a combo was sold or a status   *)
(* button ended the counting.                                               *)
THEOREM StockSafety == Spec => []StockAgrees
<1>1. CatalogInv => StockAgrees
  <2> SUFFICES ASSUME CatalogInv PROVE StockAgrees
    OBVIOUS
  <2>1. ASSUME NEW k \in Slots, calls[k] # NoCall
        PROVE  /\ calls[k].by \in Editors \cup {Gone}
               /\ calls[k].phase \in Phases /\ calls[k].todo # <<>>
    BY <2>1, ReqOK DEF CatalogInv, ACall
  <2>2. TypeOK
    BY <2>1 DEF CatalogInv, RowsOK, Screens, Marks, TypeOK, Phases
  <2>3. RecordFollowsShelf
    BY DEF CatalogInv, RecordAgrees, RecordFollowsShelf
  <2>4. QED
    BY <2>2, <2>3 DEF StockAgrees
<1>2. QED
  BY <1>1, CatalogInductive, PTL

(* What is on sale is in a category that is on sale, however its            *)
(* publication and the deletion of the category cross (catalog.service's    *)
(* assertPublishableItem against assertArchivableCategory), except what     *)
(* entered the category after its contents were counted.                    *)
THEOREM LiveCategories == Spec => []OnlyLiveCategoriesSell
<1>1. CatalogInv => OnlyLiveCategoriesSell
  BY DEF CatalogInv, OnlyLiveCategoriesSell, SoldInOpened, Opened, ArchivedAreEmpty, Empty,
         Shelved
<1>2. QED
  BY <1>1, CatalogInductive, PTL

(* The search index shows an item as the menu does, or its copy is on the   *)
(* way, has failed or was overtaken (catalog.service's syncItem).           *)
THEOREM IndexFollows == Spec => []SearchFollowsMenu
BY CatalogInductive, PTL DEF CatalogInv

(* A row's content changes by no step but a commit. *)
LEMMA ContentByCommit ==
  ASSUME CatalogInv, Next, NEW r \in Rows, Content(db'[r]) # Content(db[r])
  PROVE  \E k \in Slots : Commit(k) /\ VersionHolds(Req(k)) /\ Req(k).row = r
<1>1. db' # db /\ ~Quiet
  BY DEF Quiet
<1>2. ASSUME NEW i \in Items, SellDirect(i) \/ Sell(i) PROVE FALSE
  BY <1>1, <1>2, TakenIs DEF SellDirect, Sell
<1>3. ASSUME NEW p \in Coupons, Redeem(p) PROVE FALSE
  BY <1>3, Kinds DEF Redeem, CatalogInv, RowsOK, Content
<1>4. PICK k \in Slots : Commit(k)
  <2>1. ASSUME NEW e \in Editors,
               \/ CategoryClick(e) \/ ItemClick(e) \/ GroupClick(e)
               \/ ComboClick(e) \/ CouponClick(e) \/ Reload(e)
        PROVE  FALSE
    BY <1>1, <2>1 DEF CategoryClick, ItemClick, GroupClick, ComboClick, CouponClick, Reload,
       createCategory, publishCategory, archiveCategory, itemAction, createItem, saveItem,
       createGroup, publishGroup, archiveGroup, saveOption, createCombo, saveCombo,
       updateComboStatus, archiveCombo, handleCreateDiscount, handleToggleActive,
       handleDelete, Send
  <2>2. ASSUME NEW k \in Slots,
               Check(k) \/ Sync(k, TRUE) \/ Sync(k, FALSE) \/ Lose(k) \/ Receive(k)
        PROVE  FALSE
    BY <1>1, <2>2 DEF Check, Sync, Lose, Receive
  <2>3. ASSUME NEW b \in Combos, SellCombo(b) PROVE FALSE
    BY <1>1, <2>3 DEF SellCombo
  <2>4. QED
    BY <1>2, <1>3, <2>1, <2>2, <2>3 DEF Next
<1>5. VersionHolds(Req(k))
  BY <1>1, <1>4 DEF Commit
<1>6. Req(k).row = r
  BY <1>4, <1>5, CommitIs
<1>7. QED
  BY <1>4, <1>5, <1>6

(* No edit is overwritten unseen: the content of a row changes only by the  *)
(* request of an editor who had that content on the screen (If-Match of     *)
(* catalog.service and discount.service).                                   *)
THEOREM EditsAreSeen == Spec => NoLostEdit
<1> DEFINE Seen(r, k) == /\ calls[k].phase = "checked" /\ calls'[k].phase # "checked"
                         /\ Req(k).row = r
                         /\ \/ Req(k).how = "create"
                            \/ r \in Coupons /\ Req(k).how = "delete"
                            \/ Content(Req(k).base) = Content(db[r])
           Step1 == \A r \in Rows : Content(db'[r]) # Content(db[r]) => \E k \in Slots : Seen(r, k)
<1>1. ASSUME CatalogInv, Next PROVE Step1
  <2> SUFFICES ASSUME NEW r \in Rows, Content(db'[r]) # Content(db[r])
               PROVE  \E k \in Slots : Seen(r, k)
    OBVIOUS
  <2>1. PICK k \in Slots : Commit(k) /\ VersionHolds(Req(k)) /\ Req(k).row = r
    BY <1>1, ContentByCommit
  <2> DEFINE q == Req(k)
  <2>2. /\ calls[k].phase = "checked" /\ calls'[k].phase # "checked"
        /\ RequestOK(q, db) /\ q \in ARequest /\ q.change \in Changes
        /\ db[r] \in Row /\ db'[r] = Written(db[r], q.change)
    BY <1>1, <2>1, CommitIs
  <2>3. CASE r \notin Coupons
    BY <1>1, <2>1, <2>2, <2>3, CommitSees
  <2>4. CASE r \in Coupons /\ q.how \notin {"create", "delete"}
    <3>1. CouponRequest(q) /\ q.how = "patch" /\ db[r].ver = q.ver
      BY <2>1, <2>2, <2>4 DEF RequestOK, ARequest, CouponRequest, VersionHolds, CouponHolds
    <3>2. Alike(r, q.base, db[r])
      BY <2>1, <2>2, <3>1 DEF RequestOK, Copy
    <3>3. /\ db'[r].st = q.change.st /\ db'[r].val = db[r].val /\ db'[r].cat = db[r].cat
          /\ db'[r].track = db[r].track
      BY <2>2, <3>1, WrittenIs DEF CouponRequest
    <3>4. CASE Content(q.base) = Content(db[r])
      BY <2>1, <2>2, <3>4
    <3>5. CASE Content(q.base) # Content(db[r])
      <4>1. /\ q.base.val = db[r].val /\ q.base.cat = db[r].cat /\ q.base.track = db[r].track
            /\ q.base.st \in Toggled /\ db[r].st \in Toggled
        BY <3>2, <3>5 DEF Alike
      <4>2. q.base.st # db[r].st
        BY <3>5, <4>1 DEF Content
      <4>3. q.change.st = db[r].st
        BY <3>1, <4>1, <4>2 DEF CouponRequest, Toggled
      <4>4. Content(db'[r]) = Content(db[r])
        BY <3>3, <4>3 DEF Content
      <4>5. QED
        BY <4>4
    <3>6. QED
      BY <3>4, <3>5
  <2>5. CASE r \in Coupons /\ q.how \in {"create", "delete"}
    BY <2>1, <2>2, <2>5
  <2>6. QED
    BY <2>3, <2>4, <2>5
<1>2. CatalogInv /\ [Next]_vars => [Step1]_vars
  BY <1>1
<1>3. NoLostEdit <=> [][Step1]_vars
  BY DEF NoLostEdit
<1>4. QED
  BY <1>2, <1>3, CatalogInductive, PTL DEF Spec

-----------------------------------------------------------------------------(* The live board. *)

(* The last number of the log that is visible. *)
Top == IF writers = {} THEN counter ELSE counter - 1

Writer == [o : Orders, stage : Stages \ {"payment"}, seq : Nat,
           by : {"other", "board", "customer"}]

(* One transaction at a time holds the counter, so the log has no holes. *)
LogOK ==
  /\ order \in [Orders -> OrderRow]
  /\ counter \in Nat
  /\ \/ writers = {}
     \/ counter > 0 /\ \E w \in writers : w \in Writer /\ w.seq = counter /\ writers = {w}
  /\ DOMAIN log = 1..Top
  /\ \A n \in 1..Top : log[n] \in Orders

AFetch == {NoFetch} \cup [phase : {"asked"}, o : Orders]
                    \cup [phase : {"read"}, o : Orders, row : OrderRow]

AnAct == {[phase |-> "idle"]}
           \cup [phase : {"sent", "writing", "conflict"}, o : Orders, base : OrderRow,
                 next : Stages \ {"payment"}]
           \cup [phase : {"done"}, o : Orders, base : OrderRow, row : OrderRow]

BoardType ==
  /\ board \in [rows : [Orders -> OrderRow], last : Nat, fetch : [Fetches -> AFetch], act : AnAct]
  /\ missed \subseteq Orders

PagesType ==
  /\ track \in [phase : {"due", "asked", "read", "stopped", "html", "left"}, row : OrderRow,
                shown : Stages, cancel : {"idle", "sent", "writing", "refused", "done"}]
  /\ wait \in [running : BOOLEAN, polls : [Polls -> {NoPoll} \cup [phase : {"asked"}]
                                               \cup [phase : {"read"}, stage : Stages]],
               failures : Nat, attempts : Nat, shown : Stages, approved : BOOLEAN,
               gaveUp : BOOLEAN, crossed : BOOLEAN]

StreamType ==
  /\ stream = [up |-> stream.up, over |-> stream.over, cursor |-> stream.cursor,
               polls |-> stream.polls, pipe |-> stream.pipe]
  /\ stream.up \in BOOLEAN /\ stream.over \in BOOLEAN /\ stream.cursor \in 0..Top
  /\ stream.pipe \in Seq(Nat) /\ \A i \in DOMAIN stream.pipe : stream.pipe[i] \in 1..Top
  /\ stream.polls = [p \in Polls |-> stream.polls[p]]
  /\ \A p \in Polls : stream.polls[p] # NoPoll =>
       \E a, b \in 1..Top : a <= b /\ stream.polls[p] = [phase |-> "read", got |-> a..b]

(* A row that left the database at some time. *)
Held(o, row) ==
  /\ row.ver <= order[o].ver
  /\ row.ver = order[o].ver => row.stage = order[o].stage
  /\ order[o].stage = "payment" => row.stage = "payment"

Copies ==
  /\ \A o \in Orders : Held(o, board.rows[o])
  /\ \A f \in Fetches : board.fetch[f].phase = "read" =>
                          Held(board.fetch[f].o, board.fetch[f].row)
  /\ board.act.phase # "idle" => Held(board.act.o, board.act.base)
  /\ board.act.phase = "done" => Held(board.act.o, board.act.row)

(* What is older than the collection of an order was still to be paid. *)
Unpaid(row) == row.ver < board.act.row.ver => row.stage = "payment"
PaidOnce ==
  board.act.phase = "done" /\ board.act.base.stage = "payment" =>
    /\ Unpaid(board.rows[board.act.o])
    /\ \A f \in Fetches : board.fetch[f].phase = "read" /\ board.fetch[f].o = board.act.o =>
                            Unpaid(board.fetch[f].row)

Writing ==
  /\ \A w \in writers : w.by = "board" => board.act.phase = "writing" /\ w.o = board.act.o
  /\ board.act.phase = "writing" => /\ \E w \in writers : w.by = "board"
                                    /\ board.act.base.stage = order[board.act.o].stage

Carried(m) == \E j \in DOMAIN stream.pipe : stream.pipe[j] = m

(* Of the events after h, the pipe skips none.*)
NoGaps(h) ==
  /\ \A i \in DOMAIN stream.pipe : \A m \in 1..Top :
       h < m /\ m < stream.pipe[i] => \E j \in 1..(i - 1) : stream.pipe[j] = m
  /\ \A m \in 1..Top : h < m /\ m <= stream.cursor => Carried(m)
  /\ \A p \in Polls : stream.polls[p] # NoPoll =>
       \A m \in 1..Top : h < m /\ (\A n \in stream.polls[p].got : m < n) => Carried(m)

Asked(o) == \E f \in Fetches : board.fetch[f].phase = "asked" /\ board.fetch[f].o = o
ReadFresh(o) == \E f \in Fetches : /\ board.fetch[f].phase = "read" /\ board.fetch[f].o = o
                                   /\ board.fetch[f].row.ver = order[o].ver
Told(o, h) ==
  \/ \E n \in 1..Top : n > h /\ log[n] = o
  \/ Asked(o) \/ ReadFresh(o) \/ board.rows[o].ver = order[o].ver

Heard(h) ==
  /\ board.last <= h /\ h <= Top
  /\ NoGaps(h)
  /\ \A o \in Orders \ missed : Told(o, h)

BoardInv ==
  /\ LogOK /\ BoardType /\ PagesType /\ StreamType
  /\ Copies /\ PaidOnce /\ Writing
  /\ \E h \in 0..counter : Heard(h)

-----------------------------------------------------------------------------
(* The log and its readers. *)

(* The last visible number is the counter, or the one before it.            *)
LEMMA TopIs ==
  ASSUME LogOK
  PROVE  /\ Top \in Nat /\ counter \in Nat /\ Top <= counter
         /\ writers = {} => Top = counter
         /\ writers # {} => Top = counter - 1
BY DEF LogOK, Top

(* A poll reads the numbers that follow the cursor, without a hole.         *)
LEMMA PollReads ==
  ASSUME LogOK, NEW c \in 0..Top, After100(c) # {}
  PROVE  \E b \in 1..Top : c + 1 <= b /\ After100(c) = (c + 1)..b
<1> DEFINE later == {n \in DOMAIN log : n > c}
           b == IF c + Limit <= Top THEN c + Limit ELSE Top
<1>1. Top \in Nat /\ DOMAIN log = 1..Top /\ Limit \in Nat \ {0} /\ c \in Nat
  BY TopIs, BoardAssumption DEF LogOK
<1>2. later = (c + 1)..Top
  BY <1>1
<1>3. ASSUME NEW n \in later PROVE Cardinality({m \in later : m <= n}) = n - c
  <2>1. {m \in later : m <= n} = (c + 1)..n
    BY <1>1, <1>2
  <2>2. c + 1 \in Int /\ n \in Int /\ ~(c + 1 > n)
    BY <1>1, <1>2
  <2>3. Cardinality((c + 1)..n) = n - (c + 1) + 1
    BY <2>2, FS_Interval
  <2>4. n - (c + 1) + 1 = n - c
    BY <1>1, <2>2
  <2>5. QED
    BY <2>1, <2>3, <2>4
<1>4. After100(c) = {n \in later : n - c <= Limit}
  BY <1>3 DEF After100
<1>5. After100(c) = (c + 1)..b
  BY <1>1, <1>2, <1>4
<1>6. c + 1 <= b /\ b \in 1..Top
  BY <1>1, <1>5
<1>7. QED
  BY <1>5, <1>6

(* What is sent is what was read, in order, and the cursor moves to its end. *)
LEMMA SentInOrder ==
  ASSUME NEW a \in Nat, NEW b \in Nat, a <= b
  PROVE  /\ InOrder(a..b) = [k \in 1..(b - a + 1) |-> a + k - 1]
         /\ CursorAfter(a..b) = b
<1>1. Cardinality(a..b) = b - a + 1
  BY FS_Interval
<1>2. ASSUME NEW k \in 1..(b - a + 1)
      PROVE  (CHOOSE n \in a..b : Cardinality({m \in a..b : m <= n}) = k) = a + k - 1
  <2>1. ASSUME NEW n \in a..b PROVE Cardinality({m \in a..b : m <= n}) = n - a + 1
    <3>1. {m \in a..b : m <= n} = a..n
      OBVIOUS
    <3>2. Cardinality(a..n) = n - a + 1
      BY FS_Interval
    <3>3. QED
      BY <3>1, <3>2
  <2>2. a + k - 1 \in a..b
    OBVIOUS
  <2>3. \A n \in a..b : Cardinality({m \in a..b : m <= n}) = k <=> n = a + k - 1
    BY <2>1
  <2>4. QED
    BY <2>2, <2>3
<1>3. CursorAfter(a..b) = b
  BY DEF CursorAfter, Max
<1>4. InOrder(a..b) = [k \in 1..Cardinality(a..b) |->
                          CHOOSE n \in a..b : Cardinality({m \in a..b : m <= n}) = k]
  BY Zenon DEF InOrder, Cardinality, Cardinality
<1>5. QED
  BY <1>1, <1>2, <1>3, <1>4

-----------------------------------------------------------------------------
(* The pages: polls and answers.                                            *)

(* A step that leaves the orders, the log, the stream and the board alone.  *)
Elsewhere == UNCHANGED <<order, log, counter, writers, stream, board, missed>>

(* Only the pages change.                                                   *)
LEMMA ElsewhereStays ==
  ASSUME BoardInv, Elsewhere, PagesType'
  PROVE  BoardInv'
<1>1. Top' = Top
  BY DEF Elsewhere, Top
<1>2. LogOK' /\ BoardType' /\ StreamType' /\ Copies' /\ PaidOnce' /\ Writing'
  BY <1>1 DEF BoardInv, Elsewhere, LogOK, BoardType, StreamType, Copies, Held, PaidOnce,
     Unpaid, Writing
<1>3. \A h : Heard(h) => Heard(h)'
  BY <1>1 DEF Elsewhere, Heard, NoGaps, Carried, Told, Asked, ReadFresh
<1>4. QED
  BY <1>2, <1>3 DEF BoardInv, Elsewhere

(* The status page polls and cancels.                                       *)
LEMMA TrackStays ==
  ASSUME BoardInv,
         \/ TrackAsk \/ TrackRead \/ TrackShow
         \/ TrackFails(TRUE) \/ TrackFails(FALSE) \/ TrackCancel
  PROVE  BoardInv'
<1>1. Elsewhere /\ UNCHANGED wait
  BY DEF TrackAsk, TrackRead, TrackShow, TrackFails, TrackCancel, Elsewhere
<1>2. Tracked \in Orders /\ order[Tracked] \in OrderRow
  BY BoardAssumption DEF BoardInv, LogOK
<1> DEFINE ATrack == [phase : {"due", "asked", "read", "stopped", "html", "left"}, row : OrderRow,
                      shown : Stages, cancel : {"idle", "sent", "writing", "refused", "done"}]
<1>3. track \in ATrack /\ track.row.stage \in Stages
  BY DEF BoardInv, PagesType, OrderRow
<1>4. ASSUME TrackAsk PROVE track' \in ATrack
  BY <1>3, <1>4 DEF TrackAsk
<1>5. ASSUME TrackRead PROVE track' \in ATrack
  BY <1>2, <1>3, <1>5 DEF TrackRead
<1>6. ASSUME TrackShow PROVE track' \in ATrack
  BY <1>3, <1>6 DEF TrackShow
<1>7. ASSUME TrackFails(TRUE) \/ TrackFails(FALSE) PROVE track' \in ATrack
  BY <1>3, <1>7 DEF TrackFails, AfterFailure
<1>8. ASSUME TrackCancel PROVE track' \in ATrack
  BY <1>3, <1>8 DEF TrackCancel
<1>9. track' \in ATrack
  BY <1>4, <1>5, <1>6, <1>7, <1>8
<1>10. PagesType'
  BY <1>1, <1>9 DEF BoardInv, PagesType
<1>11. QED
  BY <1>1, <1>10, ElsewhereStays

(* The success page polls on its interval.                                  *)
LEMMA WaitStays ==
  ASSUME BoardInv, NEW p \in Polls,
         WaitAsk(p) \/ WaitRead(p) \/ WaitShow(p) \/ WaitFails(p)
  PROVE  BoardInv'
<1>1. Elsewhere /\ UNCHANGED track
  BY DEF WaitAsk, WaitRead, WaitShow, WaitFails, Elsewhere
<1>2. order[Tracked].stage \in Stages
  BY BoardAssumption DEF BoardInv, LogOK, OrderRow
<1> DEFINE APoll == {NoPoll} \cup [phase : {"asked"}] \cup [phase : {"read"}, stage : Stages]
<1> DEFINE AWait == [running : BOOLEAN, polls : [Polls -> APoll], failures : Nat,
                    attempts : Nat, shown : Stages, approved : BOOLEAN,
                    gaveUp : BOOLEAN, crossed : BOOLEAN]
<1>3. wait \in AWait /\ wait.polls[p] \in APoll
  BY DEF BoardInv, PagesType
<1>4. NoPoll \in APoll /\ [phase |-> "asked"] \in APoll
      /\ \A s \in Stages : [phase |-> "read", stage |-> s] \in APoll
  OBVIOUS
<1>5. wait.polls[p].phase = "read" => wait.polls[p].stage \in Stages
  BY <1>3 DEF NoPoll
<1> HIDE DEF APoll
<1>6. ASSUME WaitAsk(p) PROVE wait' \in AWait
  <2> DEFINE n == IF wait.attempts < MaxAttempts THEN wait.attempts + 1 ELSE wait.attempts
  <2>1. wait' = [wait EXCEPT !.polls[p] = [phase |-> "asked"],
                    !.attempts = n]
    BY <1>6 DEF WaitAsk
  <2>2. n \in Nat
    BY <1>3
  <2> HIDE DEF n
  <2>3. wait' \in AWait
    BY <1>3, <1>4, <2>1, <2>2
  <2>4. QED
    BY <2>3
<1>7. ASSUME WaitRead(p) PROVE wait' \in AWait
  <2> DEFINE stage == IF wait.approved THEN order[Tracked].stage ELSE "payment"
  <2>1. wait' = [wait EXCEPT !.polls[p] = [phase |-> "read", stage |-> stage]]
    BY <1>7 DEF WaitRead
  <2>4. stage \in Stages
    BY <1>2 DEF Stages
  <2> HIDE DEF stage
  <2>2. wait' \in AWait
    BY <1>3, <1>4, <2>1, <2>4
  <2>3. QED
    BY <2>2
<1>8. ASSUME WaitShow(p) PROVE wait' \in AWait
  <2> DEFINE stage == wait.polls[p].stage
             tired == stage = "payment" /\ wait.attempts = MaxAttempts
  <2>1. /\ stage \in Stages
        /\ wait' = [wait EXCEPT
               !.polls[p] = NoPoll, !.failures = 0,
               !.shown = IF stage = "payment" THEN @ ELSE stage,
               !.running = @ /\ ~Finished(stage) /\ ~tired,
               !.gaveUp = @ \/ tired,
               !.crossed = @ \/ (Finished(wait.shown) /\ stage # wait.shown)]
    BY <1>5, <1>8 DEF WaitShow
  <2> HIDE DEF stage, tired
  <2>2. wait' \in AWait
    BY <1>3, <1>4, <2>1, ZenonT(60)
  <2>3. QED
    BY <2>2
<1>9. ASSUME WaitFails(p) PROVE wait' \in AWait
  <2> DEFINE tired == wait.failures + 1 >= MaxFailures \/ wait.attempts = MaxAttempts
             n == IF wait.failures < MaxFailures THEN wait.failures + 1 ELSE wait.failures
  <2>1. wait' = [wait EXCEPT !.polls[p] = NoPoll, !.failures = n,
                    !.running = @ /\ ~tired, !.gaveUp = @ \/ tired]
    BY <1>9 DEF WaitFails
  <2>2. n \in Nat
    BY <1>3
  <2> HIDE DEF tired, n
  <2>3. wait' \in AWait
    BY <1>3, <1>4, <2>1, <2>2
  <2>4. QED
    BY <2>3
<1>10. wait' \in AWait
  BY <1>6, <1>7, <1>8, <1>9
<1>11. PagesType'
  BY <1>1, <1>10 DEF BoardInv, PagesType, APoll
<1>12. QED
  BY <1>1, <1>11, ElsewhereStays

(* The approval of the attempt is overwritten.                              *)
LEMMA LoseApprovalStays ==
  ASSUME BoardInv, LoseApproval
  PROVE  BoardInv'
<1>1. Elsewhere /\ UNCHANGED track /\ wait' = [wait EXCEPT !.approved = FALSE]
  BY DEF LoseApproval, Elsewhere
<1>2. PagesType'
  BY <1>1 DEF BoardInv, PagesType
<1>3. QED
  BY <1>1, <1>2, ElsewhereStays

-----------------------------------------------------------------------------
(* The orders and their log. *)

(* A transaction takes the next number; nothing becomes visible.            *)
LEMMA BeginIs ==
  ASSUME LogOK, NEW o \in Orders, NEW stage \in Stages \ {"payment"},
         NEW who \in {"other", "board", "customer"},
         Begin(o, stage, who), UNCHANGED <<order, log>>
  PROVE  /\ LogOK' /\ Top' = Top /\ writers = {} /\ counter' = counter + 1
         /\ writers' = {[o |-> o, stage |-> stage, seq |-> counter + 1, by |-> who]}
<1> DEFINE w == [o |-> o, stage |-> stage, seq |-> counter + 1, by |-> who]
<1>1. counter \in Nat
  BY DEF LogOK
<1>2. writers = {} /\ counter' = counter + 1 /\ writers' = {w}
  BY DEF Begin, CounterFree, NextSequence
<1>3. w \in Writer
  BY <1>1 DEF Writer
<1>4. Top' = Top /\ Top = counter
  <2> HIDE DEF w
  <2>1. writers' # {} /\ counter' - 1 = counter
    BY <1>1, <1>2
  <2>2. QED
    BY <1>2, <2>1 DEF Top
<1>5. /\ counter' > 0 /\ counter' \in Nat
      /\ \E v \in writers' : v \in Writer /\ v.seq = counter' /\ writers' = {v}
  BY <1>1, <1>2, <1>3
<1> HIDE DEF w
<1>6. LogOK'
  BY <1>4, <1>5 DEF LogOK
<1>7. QED
  BY <1>2, <1>4, <1>6 DEF w

(* A commit makes the one open transaction visible, at the end of the log.  *)
LEMMA PublishIs ==
  ASSUME LogOK, NEW w, Publish(w), UNCHANGED counter
  PROVE  /\ LogOK' /\ Top' = Top + 1 /\ Top \in Nat
         /\ writers = {w} /\ writers' = {} /\ w \in Writer
         /\ order' = [order EXCEPT ![w.o] = After(w)]
         /\ After(w) \in OrderRow /\ After(w).ver = order[w.o].ver + 1
         /\ After(w).stage # "payment"
         /\ log'[Top + 1] = w.o /\ \A n \in 1..Top : log'[n] = log[n]
<1>1. /\ writers = {w} /\ w \in Writer /\ w.seq = counter /\ counter > 0 /\ counter \in Nat
  BY DEF LogOK, Publish
<1>2. /\ writers' = {} /\ order' = [order EXCEPT ![w.o] = After(w)]
      /\ log' = [n \in DOMAIN log \cup {w.seq} |-> IF n = w.seq THEN w.o ELSE log[n]]
  BY <1>1 DEF Publish
<1>3. Top = counter - 1 /\ Top' = counter /\ Top \in Nat
  BY <1>1, <1>2 DEF Top
<1>4. w.o \in Orders /\ w.stage \in Stages \ {"payment"}
  BY <1>1 DEF Writer
<1>5. order \in [Orders -> OrderRow] /\ order[w.o] \in OrderRow
  BY <1>4 DEF LogOK
<1>6. After(w) \in OrderRow /\ After(w).ver = order[w.o].ver + 1 /\ After(w).stage = w.stage
  BY <1>4, <1>5 DEF After, OrderRow
<1>7. /\ DOMAIN log = 1..Top /\ \A n \in 1..Top : log[n] \in Orders
  BY DEF LogOK
<1>8. /\ DOMAIN log' = 1..(Top + 1)
      /\ log'[Top + 1] = w.o /\ \A n \in 1..Top : log'[n] = log[n]
  BY <1>1, <1>2, <1>3, <1>7
<1>9. order' \in [Orders -> OrderRow]
  BY <1>2, <1>5, <1>6
<1>10. \A n \in 1..Top' : log'[n] \in Orders
  <2>1. Top' = Top + 1 /\ \A n \in 1..(Top + 1) : n \in 1..Top \/ n = Top + 1
    BY <1>1, <1>3
  <2>2. QED
    BY <1>4, <1>7, <1>8, <2>1
<1>11. LogOK'
  BY <1>1, <1>2, <1>3, <1>8, <1>9, <1>10 DEF LogOK
<1>12. QED
  BY <1>1, <1>2, <1>3, <1>4, <1>6, <1>8, <1>11

(* Taking a number changes nothing that is seen.                            *)
LEMMA BeginStays ==
  ASSUME BoardInv, NEW o \in Orders, NEW stage \in Stages \ {"payment"},
         NEW who \in {"other", "board", "customer"}, Begin(o, stage, who),
         UNCHANGED <<order, log, stream, missed>>,
         BoardType', PagesType', Writing',
         UNCHANGED <<board.rows, board.last, board.fetch>>,
         board'.act.phase \in {board.act.phase, "writing"},
         board.act.phase # "idle" => board'.act.o = board.act.o /\ board'.act.base = board.act.base,
         board.act.phase = "done" => board'.act = board.act,
         board'.act.phase # "idle" => board.act.phase # "idle"
  PROVE  BoardInv'
<1>1. LogOK' /\ Top' = Top /\ counter' = counter + 1 /\ counter \in Nat
  BY BeginIs DEF BoardInv, LogOK
<1>2. StreamType'
  BY <1>1 DEF BoardInv, StreamType
<1>3. board'.act.phase = "done" => board.act.phase = "done"
  OBVIOUS
<1>4. Copies'
  BY <1>3 DEF BoardInv, Copies, Held
<1>5. PaidOnce'
  BY <1>3 DEF BoardInv, PaidOnce, Unpaid
<1>6. ASSUME NEW h \in 0..counter, Heard(h) PROVE h \in 0..counter' /\ Heard(h)'
  BY <1>1, <1>6 DEF Heard, NoGaps, Carried, Told, Asked, ReadFresh
<1>7. QED
  BY <1>1, <1>2, <1>4, <1>5, <1>6 DEF BoardInv

(* A commit ages every copy of its order, and its event is still to come.   *)
LEMMA PublishStays ==
  ASSUME BoardInv, NEW w, Publish(w), UNCHANGED <<counter, stream, missed>>,
         BoardType', PagesType', Writing', PaidOnce',
         UNCHANGED <<board.rows, board.last, board.fetch>>,
         board'.act.phase \in {board.act.phase, "done"},
         board'.act.phase # "idle" =>
           /\ board.act.phase # "idle"
           /\ board'.act.o = board.act.o /\ board'.act.base = board.act.base,
         board'.act.phase = "done" =>
           \/ board'.act = board.act
           \/ board'.act.o = w.o /\ board'.act.row = After(w)
  PROVE  BoardInv'
<1>1. /\ LogOK' /\ Top' = Top + 1 /\ Top \in Nat
      /\ order' = [order EXCEPT ![w.o] = After(w)]
      /\ After(w) \in OrderRow /\ After(w).ver = order[w.o].ver + 1 /\ After(w).stage # "payment"
      /\ log'[Top + 1] = w.o /\ \A n \in 1..Top : log'[n] = log[n]
      /\ w.o \in Orders
  BY PublishIs DEF BoardInv, Writer
<1>2. order \in [Orders -> OrderRow] /\ counter \in Nat /\ Top <= counter
  BY TopIs DEF BoardInv, LogOK
<1>3. order'[w.o] = After(w) /\ \A o \in Orders \ {w.o} : order'[o] = order[o]
  BY <1>1, <1>2
<1>4. StreamType'
  <2>1. \A m \in 0..Top : m \in 0..Top'
    BY <1>1
  <2>2. \A m \in 1..Top : m \in 1..Top'
    BY <1>1
  <2>3. QED
    BY <2>1, <2>2 DEF BoardInv, StreamType
<1>5. ASSUME NEW o \in Orders, NEW row \in OrderRow, Held(o, row)
      PROVE  /\ row.ver <= order'[o].ver
             /\ row.ver = order'[o].ver => row.stage = order'[o].stage
             /\ order'[o].stage = "payment" => row.stage = "payment"
  <2>1. order[o].ver \in Nat /\ row.ver \in Nat
    BY <1>2, <1>5 DEF OrderRow
  <2>2. CASE o = w.o
    BY <1>1, <1>3, <1>5, <2>1, <2>2 DEF Held
  <2>3. CASE o # w.o
    BY <1>3, <1>5, <2>3 DEF Held
  <2>4. QED
    BY <2>2, <2>3
<1>6. /\ \A o \in Orders : board.rows[o] \in OrderRow
      /\ \A f \in Fetches : board.fetch[f].phase = "read" =>
                              board.fetch[f].o \in Orders /\ board.fetch[f].row \in OrderRow
      /\ board.act.phase # "idle" => board.act.o \in Orders /\ board.act.base \in OrderRow
      /\ board.act.phase = "done" => board.act.row \in OrderRow
  <2>1. board.act \in AnAct /\ \A f \in Fetches : board.fetch[f] \in AFetch
    BY DEF BoardInv, BoardType
  <2>2. QED
    BY <2>1 DEF BoardInv, BoardType, AnAct, AFetch, NoFetch
<1>7. Copies'
  <2>1. \A o \in Orders : Held(o, board.rows[o])'
    BY <1>5, <1>6 DEF BoardInv, Copies, Held
  <2>2. ASSUME NEW f \in Fetches, board.fetch[f].phase = "read"
        PROVE  Held(board.fetch[f].o, board.fetch[f].row)'
    BY <1>5, <1>6, <2>2 DEF BoardInv, Copies, Held
  <2>3. board'.act.phase # "idle" => Held(board.act.o, board.act.base)'
    BY <1>5, <1>6 DEF BoardInv, Copies, Held
  <2>4. board'.act.phase = "done" => Held(board.act.o, board.act.row)'
    BY <1>1, <1>3, <1>5, <1>6 DEF BoardInv, Copies, Held, OrderRow
  <2>5. QED
    BY <2>1, <2>2, <2>3, <2>4 DEF Copies, Held
<1>8. ASSUME NEW h \in 0..counter, Heard(h) PROVE h \in 0..counter' /\ Heard(h)'
  <2>1. board.last <= h /\ h <= Top /\ h <= Top'
    BY <1>1, <1>8 DEF Heard
  <2>2. NoGaps(h)'
    <3>1. \A i \in DOMAIN stream.pipe : stream.pipe[i] \in 1..Top
      BY DEF BoardInv, StreamType
    <3>2. stream.cursor \in 0..Top
      BY DEF BoardInv, StreamType
    <3>3. \A m \in 1..Top' : m \in 1..Top \/ m = Top + 1
      BY <1>1
    <3>4. ASSUME NEW p \in Polls, stream.polls[p] # NoPoll,
                 \A n \in stream.polls[p].got : Top + 1 < n
          PROVE  FALSE
      <4>1. PICK a \in 1..Top, b \in 1..Top :
              a <= b /\ stream.polls[p] = [phase |-> "read", got |-> a..b]
        BY <3>4 DEF BoardInv, StreamType
      <4>2. a \in stream.polls[p].got
        BY <4>1
      <4>3. QED
        BY <1>1, <3>4, <4>2
    <3>5. QED
      BY <1>1, <1>8, <3>1, <3>2, <3>3, <3>4 DEF Heard, NoGaps, Carried
  <2>3. ASSUME NEW o \in Orders \ missed PROVE Told(o, h)'
    <3>1. CASE o = w.o
      BY <1>1, <2>1, <3>1 DEF Told
    <3>2. CASE o # w.o
      BY <1>1, <1>3, <1>8, <3>2 DEF Heard, Told, Asked, ReadFresh
    <3>3. QED
      BY <3>1, <3>2
  <2>4. QED
    BY <2>1, <2>2, <2>3 DEF Heard
<1>9. QED
  BY <1>1, <1>4, <1>7, <1>8 DEF BoardInv

(* What the board's button holds in each phase.                             *)
LEMMA ActType ==
  ASSUME BoardInv
  PROVE  /\ board.act \in AnAct
         /\ board.act.phase # "idle" => board.act.o \in Orders /\ board.act.base \in OrderRow
         /\ board.act.phase \in {"sent", "writing", "conflict"} =>
              /\ board.act \in [phase : {"sent", "writing", "conflict"}, o : Orders, base : OrderRow,
                                next : Stages \ {"payment"}]
              /\ board.act.next \in Stages \ {"payment"}
         /\ board.act.phase = "done" => board.act.row \in OrderRow
<1>1. board.act \in AnAct
  BY DEF BoardInv, BoardType
<1>2. QED
  BY <1>1 DEF AnAct

(* No stage that an order moves to is the one before payment.               *)
LEMMA MovesOn ==
  ASSUME NEW stage \in Stages
  PROVE  /\ Moves(stage) \subseteq Stages \ {"payment"}
         /\ NextStage(stage) \subseteq Stages \ {"payment"}
BY DEF Stages, Moves, NextStage

(* Another part of the system begins a change.                              *)
LEMMA ChangeStays ==
  ASSUME BoardInv, NEW o \in Orders, Change(o)
  PROVE  BoardInv'
<1>1. PICK stage \in Moves(order[o].stage) : Begin(o, stage, "other")
  BY DEF Change
<1>2. stage \in Stages \ {"payment"}
  BY <1>1, MovesOn DEF BoardInv, LogOK, OrderRow
<1>3. UNCHANGED <<order, log, stream, board, missed, track, wait>>
  BY DEF Change
<1>4. writers = {} /\ writers' = {[o |-> o, stage |-> stage, seq |-> counter + 1, by |-> "other"]}
  BY <1>1, <1>2, <1>3, BeginIs DEF BoardInv
<1>5. BoardType' /\ PagesType' /\ Writing'
  BY <1>3, <1>4 DEF BoardInv, BoardType, PagesType, Writing
<1>6. QED
  BY <1>1, <1>2, <1>3, <1>5, BeginStays

(* A change by another part of the system commits.                          *)
LEMMA PublicationStays ==
  ASSUME BoardInv, NEW w \in writers, CommitChange(w)
  PROVE  BoardInv'
<1>1. w.by = "other" /\ Publish(w) /\ UNCHANGED <<counter, stream, board, missed, track, wait>>
  BY DEF CommitChange
<1>2. writers = {w} /\ writers' = {}
  BY <1>1, PublishIs DEF BoardInv
<1>3. BoardType' /\ PagesType' /\ Writing' /\ PaidOnce'
  BY <1>1, <1>2 DEF BoardInv, BoardType, PagesType, Writing, PaidOnce, Unpaid
<1>4. QED
  BY <1>1, <1>3, PublishStays DEF BoardInv

(* The customer's cancellation is served.                                   *)
LEMMA ServeCancelStays ==
  ASSUME BoardInv, ServeCancel
  PROVE  BoardInv'
<1>1. /\ track.cancel = "sent"
      /\ UNCHANGED <<order, log, stream, board, missed, wait>>
  BY DEF ServeCancel
<1>2. CASE order[Tracked].stage = "payment"
  <2>1. Begin(Tracked, "cancelled", "customer") /\ track' = [track EXCEPT !.cancel = "writing"]
    BY <1>2 DEF ServeCancel
  <2>2. Tracked \in Orders /\ "cancelled" \in Stages \ {"payment"}
    BY BoardAssumption DEF Stages
  <2>3. /\ writers = {}
        /\ writers' = {[o |-> Tracked, stage |-> "cancelled", seq |-> counter + 1,
                       by |-> "customer"]}
    BY <1>1, <2>1, <2>2, BeginIs DEF BoardInv
  <2>4. PagesType'
    BY <1>1, <2>1 DEF BoardInv, PagesType
  <2>5. BoardType' /\ Writing'
    BY <1>1, <2>3 DEF BoardInv, BoardType, Writing
  <2>6. QED
    BY <1>1, <2>1, <2>2, <2>4, <2>5, BeginStays
<1>3. CASE order[Tracked].stage # "payment"
  <2>1. track' = [track EXCEPT !.cancel = "refused"] /\ UNCHANGED <<counter, writers>>
    BY <1>3 DEF ServeCancel
  <2>2. PagesType' /\ Elsewhere
    BY <1>1, <2>1 DEF BoardInv, PagesType, Elsewhere
  <2>3. QED
    BY <2>2, ElsewhereStays
<1>4. QED
  BY <1>2, <1>3

(* The customer's cancellation commits.                                     *)
LEMMA CommitCancelStays ==
  ASSUME BoardInv, NEW w \in writers, CommitCancel(w)
  PROVE  BoardInv'
<1>1. /\ w.by = "customer" /\ Publish(w) /\ UNCHANGED <<counter, stream, board, missed, wait>>
      /\ track' = [track EXCEPT !.phase = "left", !.cancel = "done", !.shown = "cancelled"]
  BY DEF CommitCancel
<1>2. writers = {w} /\ writers' = {}
  BY <1>1, PublishIs DEF BoardInv
<1> DEFINE ATrack == [phase : {"due", "asked", "read", "stopped", "html", "left"}, row : OrderRow,
                      shown : Stages, cancel : {"idle", "sent", "writing", "refused", "done"}]
<1>6. track \in ATrack /\ "cancelled" \in Stages
  BY DEF BoardInv, PagesType, Stages
<1>7. track' \in ATrack
  BY <1>1, <1>6
<1>3. PagesType'
  BY <1>1, <1>7 DEF BoardInv, PagesType
<1>4. BoardType' /\ Writing' /\ PaidOnce'
  BY <1>1, <1>2 DEF BoardInv, BoardType, Writing, PaidOnce, Unpaid
<1>5. QED
  BY <1>1, <1>3, <1>4, PublishStays DEF BoardInv

-----------------------------------------------------------------------------
(* The buttons of the board. *)

(* A step that changes nothing but what the board's button is doing.        *)
LEMMA ActStays ==
  ASSUME BoardInv, UNCHANGED <<order, log, counter, writers, stream, missed, track, wait>>,
         UNCHANGED <<board.rows, board.last, board.fetch>>,
         BoardType', Writing',
         board'.act.phase # "idle" => Held(board'.act.o, board'.act.base),
         board'.act.phase # "done"
  PROVE  BoardInv'
<1>1. Top' = Top
  BY DEF Top
<1>2. LogOK' /\ PagesType' /\ StreamType'
  BY <1>1 DEF BoardInv, LogOK, PagesType, StreamType
<1>3. Copies' /\ PaidOnce'
  BY DEF BoardInv, Copies, Held, PaidOnce
<1>4. ASSUME NEW h, Heard(h) PROVE Heard(h)'
  BY <1>1, <1>4 DEF Heard, NoGaps, Carried, Told, Asked, ReadFresh
<1>5. QED
  BY <1>2, <1>3, <1>4 DEF BoardInv

(* A button is pressed on the row that the board shows.                     *)
LEMMA PressStays ==
  ASSUME BoardInv, NEW o \in Orders, Press(o)
  PROVE  BoardInv'
<1>1. /\ board.act.phase = "idle"
      /\ UNCHANGED <<order, log, counter, writers, stream, missed, track, wait>>
  BY DEF Press
<1>2. PICK next \in NextStage(board.rows[o].stage) :
        board' = [board EXCEPT !.act =
                    [phase |-> "sent", o |-> o, base |-> board.rows[o], next |-> next]]
  BY DEF Press
<1>3. board.rows[o] \in OrderRow /\ board.rows[o].stage \in Stages /\ Held(o, board.rows[o])
  BY DEF BoardInv, BoardType, Copies, OrderRow
<1>4. next \in Stages \ {"payment"}
  BY <1>2, <1>3, MovesOn
<1> DEFINE act == [phase |-> "sent", o |-> o, base |-> board.rows[o], next |-> next]
<1>5. act \in AnAct
  BY <1>3, <1>4 DEF AnAct
<1>6. board' = [board EXCEPT !.act = act] /\ act.phase = "sent"
      /\ act.o = o /\ act.base = board.rows[o]
  BY <1>2
<1> HIDE DEF act
<1>7. /\ BoardType' /\ board'.act = act
      /\ UNCHANGED <<board.rows, board.last, board.fetch>>
  BY <1>1, <1>5, <1>6 DEF BoardInv, BoardType
<1>8. Writing'
  BY <1>1, <1>6, <1>7 DEF BoardInv, Writing
<1>9. QED
  BY <1>1, <1>3, <1>6, <1>7, <1>8, ActStays

(* The button's call fails.                                                 *)
LEMMA PressFailsStays ==
  ASSUME BoardInv, PressFails
  PROVE  BoardInv'
<1>1. /\ board.act.phase \in {"sent", "done"} /\ board' = [board EXCEPT !.act = [phase |-> "idle"]]
      /\ UNCHANGED <<order, log, counter, writers, stream, missed, track, wait>>
  BY DEF PressFails
<1>2. [phase |-> "idle"] \in AnAct
  BY DEF AnAct
<1>3. /\ BoardType' /\ board'.act.phase = "idle"
      /\ UNCHANGED <<board.rows, board.last, board.fetch>>
  BY <1>1, <1>2 DEF BoardInv, BoardType
<1>4. Writing'
  BY <1>1, <1>3 DEF BoardInv, Writing
<1>5. QED
  BY <1>1, <1>3, <1>4, ActStays

(* A button takes effect on the stage it was pressed on.                    *)
LEMMA CurrentStage ==
  ASSUME BoardInv, board.act.phase = "sent", Current(board.act)
  PROVE  board.act.base.stage = order[board.act.o].stage
BY DEF BoardInv, Copies, Held, Current

(* The button's call is served, if the order is still as it was.            *)
LEMMA ServePressStays ==
  ASSUME BoardInv, ServePress
  PROVE  BoardInv'
<1> DEFINE act == board.act
<1>1. /\ act.phase = "sent" /\ act.o \in Orders /\ act.base \in OrderRow
      /\ act \in [phase : {"sent", "writing", "conflict"}, o : Orders, base : OrderRow,
                  next : Stages \ {"payment"}]
      /\ act.next \in Stages \ {"payment"}
      /\ UNCHANGED <<order, log, stream, missed, track, wait>>
  BY ActType DEF ServePress
<1>2. ASSUME NEW p \in {"writing", "conflict"}, board' = [board EXCEPT !.act.phase = p]
      PROVE  /\ BoardType' /\ board'.act.phase = p
             /\ board'.act.o = act.o /\ board'.act.base = act.base
             /\ UNCHANGED <<board.rows, board.last, board.fetch>>
  <2>1. [act EXCEPT !.phase = p] \in AnAct
    BY <1>1 DEF AnAct
  <2>2. board' = [board EXCEPT !.act = [act EXCEPT !.phase = p]]
    BY <1>2
  <2> DEFINE new == [act EXCEPT !.phase = p]
  <2>3. new.phase = p /\ new.o = act.o /\ new.base = act.base
    BY <1>1
  <2> HIDE DEF new, act
  <2>4. /\ BoardType' /\ board'.act = new
        /\ UNCHANGED <<board.rows, board.last, board.fetch>>
    BY <1>1, <2>1, <2>2 DEF BoardInv, BoardType, new
  <2>5. QED
    BY <2>3, <2>4
<1>3. CASE Current(act)
  <2>1. Begin(act.o, act.next, "board") /\ board' = [board EXCEPT !.act.phase = "writing"]
    BY <1>3 DEF ServePress
  <2>2. /\ BoardType' /\ board'.act.phase = "writing"
        /\ board'.act.o = act.o /\ board'.act.base = act.base
        /\ UNCHANGED <<board.rows, board.last, board.fetch>>
    BY <1>2, <2>1
  <2>3. writers' = {[o |-> act.o, stage |-> act.next, seq |-> counter + 1, by |-> "board"]}
    BY <1>1, <2>1, BeginIs DEF BoardInv
  <2>4. act.base.stage = order[act.o].stage
    BY <1>1, <1>3, CurrentStage
  <2>5. Writing'
    BY <1>1, <2>2, <2>3, <2>4 DEF Writing
  <2>6. PagesType'
    BY <1>1 DEF BoardInv, PagesType
  <2> HIDE DEF act
  <2>7. QED
    BY <1>1, <2>1, <2>2, <2>5, <2>6, BeginStays DEF act
<1>4. CASE ~Current(act)
  <2>1. board' = [board EXCEPT !.act.phase = "conflict"] /\ UNCHANGED <<counter, writers>>
    BY <1>4 DEF ServePress
  <2>2. /\ BoardType' /\ board'.act.phase = "conflict"
        /\ board'.act.o = act.o /\ board'.act.base = act.base
        /\ UNCHANGED <<board.rows, board.last, board.fetch>>
    BY <1>2, <2>1
  <2>3. Held(act.o, act.base)
    BY <1>1 DEF BoardInv, Copies
  <2>4. Writing'
    BY <1>1, <2>1, <2>2 DEF BoardInv, Writing
  <2>5. QED
    BY <1>1, <2>1, <2>2, <2>3, <2>4, ActStays
<1>5. QED
  BY <1>3, <1>4

(* The button's change commits.                                             *)
LEMMA CommitPressStays ==
  ASSUME BoardInv, NEW w \in writers, CommitPress(w)
  PROVE  BoardInv'
<1> DEFINE act == board.act
           new == [phase |-> "done", o |-> w.o, base |-> act.base, row |-> After(w)]
<1>1. /\ w.by = "board" /\ Publish(w) /\ UNCHANGED <<counter, stream, missed, track, wait>>
      /\ board' = [board EXCEPT !.act = new]
  BY DEF CommitPress
<1>2. /\ writers = {w} /\ writers' = {} /\ w.o \in Orders
      /\ After(w) \in OrderRow /\ After(w).ver = order[w.o].ver + 1
  BY <1>1, PublishIs DEF BoardInv, Writer
<1>3. /\ act.phase = "writing" /\ act.o = w.o /\ act.base \in OrderRow
      /\ act.base.stage = order[w.o].stage
  BY <1>1, ActType DEF BoardInv, Writing
<1>4. new \in AnAct /\ new.phase = "done" /\ new.o = act.o /\ new.base = act.base
      /\ new.row = After(w)
  BY <1>2, <1>3 DEF AnAct
<1> HIDE DEF new
<1>5. /\ BoardType' /\ board'.act = new
      /\ UNCHANGED <<board.rows, board.last, board.fetch>>
  BY <1>1, <1>4 DEF BoardInv, BoardType
<1>6. Writing'
  BY <1>2, <1>4, <1>5 DEF Writing
<1>7. PagesType'
  BY <1>1 DEF BoardInv, PagesType
<1>8. PaidOnce'
  <2>1. ASSUME new.base.stage = "payment", NEW row, Held(w.o, row) PROVE row.stage = "payment"
    BY <1>3, <1>4, <2>1 DEF Held
  <2>2. /\ Held(w.o, board.rows[w.o])
        /\ \A f \in Fetches : board.fetch[f].phase = "read" /\ board.fetch[f].o = w.o =>
                                Held(w.o, board.fetch[f].row)
    BY <1>2 DEF BoardInv, Copies
  <2>3. new.base.stage = "payment" =>
          /\ board.rows[w.o].stage = "payment"
          /\ \A f \in Fetches : board.fetch[f].phase = "read" /\ board.fetch[f].o = w.o =>
                                  board.fetch[f].row.stage = "payment"
    BY <2>1, <2>2
  <2>4. board'.rows = board.rows /\ board'.fetch = board.fetch /\ new.o = w.o
    BY <1>3, <1>4, <1>5
  <2> HIDE DEF act
  <2>5. QED
    BY <1>5, <2>3, <2>4 DEF PaidOnce, Unpaid
<1> HIDE DEF act
<1>9. QED
  BY <1>1, <1>3, <1>4, <1>5, <1>6, <1>7, <1>8, PublishStays DEF act

-----------------------------------------------------------------------------
(* Rows that arrive. *)

(* The board takes a row it was given for an order: either it is the order  *)
(* as it is, or it is marked as overtaken, or the board is no more behind   *)
(* than it was.                                                             *)
LEMMA RowStays ==
  ASSUME BoardInv, NEW o \in Orders, NEW row \in OrderRow, Held(o, row), ShowRow(o, row),
         UNCHANGED <<order, log, counter, writers, stream, track, wait>>,
         BoardType', Writing',
         board'.rows = [board.rows EXCEPT ![o] = row], board'.last = board.last,
         \A f \in Fetches :
           \/ board'.fetch[f] = board.fetch[f]
           \/ /\ board'.fetch[f] = NoFetch
              /\ board.fetch[f].phase = "read" /\ board.fetch[f].o = o
              /\ board.fetch[f].row = row,
         \/ board'.act.phase = "idle"
         \/ board'.act = board.act /\ (PaidOnce => PaidOnce')
  PROVE  BoardInv'
<1>1. Top' = Top /\ LogOK' /\ PagesType' /\ StreamType'
  <2>1. Top' = Top
    BY DEF Top
  <2>2. QED
    BY <2>1 DEF BoardInv, LogOK, PagesType, StreamType
<1>2. /\ board.rows \in [Orders -> OrderRow] /\ board'.rows[o] = row
      /\ \A o2 \in Orders \ {o} : board'.rows[o2] = board.rows[o2]
      /\ order \in [Orders -> OrderRow]
  BY DEF BoardInv, BoardType, LogOK
<1>3. /\ \A f \in Fetches : board'.fetch[f].phase # "idle" => board'.fetch[f] = board.fetch[f]
      /\ \A f \in Fetches : board.fetch[f].phase = "asked" => board'.fetch[f] = board.fetch[f]
      /\ \A f \in Fetches : board'.fetch[f] # board.fetch[f] =>
                              board.fetch[f].o = o /\ board.fetch[f].row = row
  BY DEF NoFetch
<1>4. Copies'
  <2>1. \A o2 \in Orders : Held(o2, board.rows[o2])'
    BY <1>2 DEF BoardInv, Copies, Held
  <2>2. ASSUME NEW f \in Fetches, board'.fetch[f].phase = "read"
        PROVE  Held(board.fetch[f].o, board.fetch[f].row)'
    BY <1>3, <2>2 DEF BoardInv, Copies, Held
  <2>3. /\ board'.act.phase # "idle" => Held(board.act.o, board.act.base)'
        /\ board'.act.phase = "done" => Held(board.act.o, board.act.row)'
    BY DEF BoardInv, Copies, Held
  <2>4. QED
    BY <2>1, <2>2, <2>3 DEF Copies
<1>5. PaidOnce'
  BY DEF BoardInv, PaidOnce
<1>6. ASSUME NEW h, Heard(h) PROVE Heard(h)'
  <2>1. NoGaps(h)'
    BY <1>1, <1>6 DEF Heard, NoGaps, Carried
  <2>2. ASSUME NEW o2 \in Orders \ {o}, o2 \notin missed' PROVE Told(o2, h)'
    <3>1. o2 \notin missed
      BY <2>2 DEF ShowRow
    <3>2. Told(o2, h)
      BY <1>6, <3>1 DEF Heard
    <3>3. Asked(o2) => Asked(o2)'
      BY <1>3 DEF Asked
    <3>4. ReadFresh(o2) => ReadFresh(o2)'
      BY <1>3, <2>2 DEF ReadFresh
    <3>5. board'.rows[o2] = board.rows[o2]
      BY <1>2
    <3>6. QED
      BY <1>1, <3>2, <3>3, <3>4, <3>5 DEF Told
  <2>3. ASSUME o \notin missed' PROVE Told(o, h)'
    <3>1. CASE row.ver = order[o].ver
      BY <1>2, <3>1 DEF Told
    <3>2. CASE row.ver # order[o].ver
      <4>1. o \notin missed /\ ~(row.ver < board.rows[o].ver)
        BY <2>3, <3>2 DEF ShowRow
      <4>2. /\ row.ver \in Nat /\ order[o].ver \in Nat /\ board.rows[o].ver \in Nat
            /\ row.ver <= order[o].ver
        BY <1>2 DEF Held, OrderRow
      <4>3. board.rows[o].ver # order[o].ver
        BY <3>2, <4>1, <4>2
      <4>4. Told(o, h)
        BY <1>6, <4>1 DEF Heard
      <4>5. Asked(o) => Asked(o)'
        BY <1>3 DEF Asked
      <4>6. ReadFresh(o) => ReadFresh(o)'
        BY <1>3, <3>2 DEF ReadFresh
      <4>7. QED
        BY <1>1, <4>3, <4>4, <4>5, <4>6 DEF Told
    <3>3. QED
      BY <3>1, <3>2
  <2>4. QED
    BY <1>1, <1>6, <2>1, <2>2, <2>3 DEF Heard
<1>7. QED
  BY <1>1, <1>4, <1>5, <1>6 DEF BoardInv

(* What a GET holds in each phase.                                          *)
LEMMA FetchType ==
  ASSUME BoardInv, NEW f \in Fetches
  PROVE  /\ board.fetch[f] \in AFetch
         /\ board.fetch[f].phase # "idle" => board.fetch[f].o \in Orders
         /\ board.fetch[f].phase = "read" =>
              board.fetch[f].row \in OrderRow /\ Held(board.fetch[f].o, board.fetch[f].row)
<1>1. board.fetch[f] \in AFetch
  BY DEF BoardInv, BoardType
<1>2. QED
  BY <1>1 DEF AFetch, NoFetch, BoardInv, Copies

(* A GET is answered.                                                       *)
LEMMA FetchDoneStays ==
  ASSUME BoardInv, NEW f \in Fetches, FetchDone(f)
  PROVE  BoardInv'
<1> DEFINE c == board.fetch[f]
<1>1. /\ c.phase = "read" /\ board' = [board EXCEPT !.fetch[f] = NoFetch, !.rows[c.o] = c.row]
      /\ ShowRow(c.o, c.row)
      /\ UNCHANGED <<order, log, counter, writers, stream, track, wait>>
  BY DEF FetchDone
<1>2. c.o \in Orders /\ c.row \in OrderRow /\ Held(c.o, c.row)
  BY <1>1, FetchType
<1>3. /\ board.rows \in [Orders -> OrderRow]
      /\ board.fetch \in [Fetches -> AFetch] /\ NoFetch \in AFetch
  BY DEF BoardInv, BoardType, AFetch
<1> DEFINE o == c.o
           row == c.row
           rows == [board.rows EXCEPT ![o] = row]
           fetch == [board.fetch EXCEPT ![f] = NoFetch]
<1>4. rows \in [Orders -> OrderRow] /\ fetch \in [Fetches -> AFetch]
  BY <1>2, <1>3
<1>5. board' = [board EXCEPT !.fetch = fetch, !.rows = rows]
  BY <1>1, <1>3 DEF BoardInv, BoardType
<1>6. board' \in [rows : [Orders -> OrderRow], last : Nat, fetch : [Fetches -> AFetch], act : AnAct]
      /\ board'.rows = rows /\ board'.fetch = fetch /\ board'.act = board.act
      /\ board'.last = board.last
  <2> HIDE DEF rows, fetch, c
  <2>1. QED
    BY <1>4, <1>5 DEF BoardInv, BoardType
<1>7. BoardType'
  BY <1>1, <1>2, <1>6 DEF ShowRow, BoardInv, BoardType
<1>8. Writing'
  BY <1>1, <1>6 DEF BoardInv, Writing
<1>9. /\ \A f2 \in Fetches \ {f} : fetch[f2] = board.fetch[f2]
      /\ fetch[f] = NoFetch
  BY <1>3
<1>10. PaidOnce => PaidOnce'
  <2>1. /\ board'.rows[o] = row /\ \A o2 \in Orders \ {o} : board'.rows[o2] = board.rows[o2]
    BY <1>2, <1>3, <1>6
  <2>2. board.act.phase = "done" => board.act.o \in Orders
    BY ActType
  <2>3. \A g \in Fetches : board'.fetch[g].phase = "read" => board'.fetch[g] = board.fetch[g]
    BY <1>6, <1>9 DEF NoFetch
  <2> HIDE DEF rows, fetch
  <2>4. QED
    BY <1>1, <1>6, <2>1, <2>2, <2>3 DEF PaidOnce, Unpaid
<1>11. \A f2 \in Fetches :
           \/ board'.fetch[f2] = board.fetch[f2]
           \/ /\ board'.fetch[f2] = NoFetch
              /\ board.fetch[f2].phase = "read" /\ board.fetch[f2].o = o
              /\ board.fetch[f2].row = row
  BY <1>1, <1>6, <1>9
<1>12. board'.rows = [board.rows EXCEPT ![o] = row]
  BY <1>6
<1> HIDE DEF rows, fetch, c, o, row
<1>13. o \in Orders /\ row \in OrderRow /\ Held(o, row) /\ ShowRow(o, row)
  BY <1>1, <1>2 DEF o, row
<1>14. QED
  BY <1>1, <1>6, <1>7, <1>8, <1>10, <1>11, <1>12, <1>13, RowStays

(* The button is idle again and the board has a row, read or answered.      *)
LEMMA AnsweredStays ==
  ASSUME BoardInv, NEW o \in Orders, NEW row \in OrderRow, Held(o, row), ShowRow(o, row),
         board.act.phase # "writing",
         UNCHANGED <<order, log, counter, writers, stream, track, wait>>,
         board' = [board EXCEPT !.act = [phase |-> "idle"], !.rows[o] = row]
  PROVE  BoardInv'
<1> DEFINE rows == [board.rows EXCEPT ![o] = row]
           idle == [phase |-> "idle"]
<1>1. board.rows \in [Orders -> OrderRow] /\ rows \in [Orders -> OrderRow]
      /\ board' = [board EXCEPT !.act = idle, !.rows = rows]
  BY DEF BoardInv, BoardType
<1>2. idle \in AnAct /\ idle.phase = "idle"
  BY DEF AnAct
<1> HIDE DEF rows, idle
<1>3. board' \in [rows : [Orders -> OrderRow], last : Nat, fetch : [Fetches -> AFetch], act : AnAct]
      /\ board'.rows = rows /\ board'.fetch = board.fetch /\ board'.act = idle
      /\ board'.last = board.last
  BY <1>1, <1>2 DEF BoardInv, BoardType
<1>4. BoardType'
  BY <1>3 DEF ShowRow, BoardInv, BoardType
<1>5. Writing'
  BY <1>2, <1>3 DEF BoardInv, Writing
<1>6. board'.rows = [board.rows EXCEPT ![o] = row]
  BY <1>3 DEF rows
<1>7. board'.act.phase = "idle" /\ \A f \in Fetches : board'.fetch[f] = board.fetch[f]
  BY <1>2, <1>3
<1>8. QED
  BY <1>3, <1>4, <1>5, <1>6, <1>7, RowStays

(* The answer of a button; a collected order may have moved on meanwhile.   *)
LEMMA PressDoneStays ==
  ASSUME BoardInv, PressDone
  PROVE  BoardInv'
<1> DEFINE act == board.act
           row == IF act.base.stage = "payment" THEN Collected(act.o, act.row) ELSE act.row
<1>1. /\ act.phase = "done"
      /\ board' = [board EXCEPT !.act = [phase |-> "idle"], !.rows[act.o] = row]
      /\ ShowRow(act.o, row)
      /\ UNCHANGED <<order, log, counter, writers, stream, track, wait>>
  BY DEF PressDone
<1>2. /\ act.o \in Orders /\ act.base \in OrderRow /\ act.row \in OrderRow
      /\ Held(act.o, act.row)
  BY <1>1, ActType DEF BoardInv, Copies
<1>3. board.rows[act.o] \in OrderRow /\ order[act.o] \in OrderRow /\ Held(act.o, board.rows[act.o])
  BY <1>2 DEF BoardInv, BoardType, Copies, LogOK
<1>4. row \in OrderRow /\ Held(act.o, row)
  <2>1. CASE act.base.stage # "payment"
    BY <1>2, <2>1
  <2>2. CASE act.base.stage = "payment"
    <3> DEFINE shown == board.rows[act.o]
    <3>1. row = [ver |-> act.row.ver,
                 stage |-> IF shown.stage = "payment" THEN act.row.stage ELSE shown.stage]
      BY <2>2 DEF Collected
    <3>2. Unpaid(shown)
      BY <1>1, <2>2 DEF BoardInv, PaidOnce
    <3>3. /\ act.row.ver \in Nat /\ act.row.stage \in Stages
          /\ shown.ver \in Nat /\ shown.stage \in Stages /\ order[act.o].ver \in Nat
      BY <1>2, <1>3 DEF OrderRow
    <3>4. CASE shown.stage = "payment"
      BY <1>2, <3>1, <3>3, <3>4 DEF Held, OrderRow
    <3>5. CASE shown.stage # "payment"
      <4>1. act.row.ver <= shown.ver
        BY <3>2, <3>3, <3>5 DEF Unpaid
      <4>2. /\ act.row.ver <= order[act.o].ver /\ shown.ver <= order[act.o].ver
            /\ shown.ver = order[act.o].ver => shown.stage = order[act.o].stage
            /\ order[act.o].stage = "payment" => shown.stage = "payment"
        BY <1>2, <1>3 DEF Held
      <4>3. row.ver = act.row.ver /\ row.stage = shown.stage
        BY <3>1, <3>5
      <4>4. row \in OrderRow
        BY <3>1, <3>3, <3>5 DEF OrderRow
      <4>5. row.ver = order[act.o].ver => shown.ver = order[act.o].ver
        BY <3>3, <4>1, <4>2, <4>3
      <4> HIDE DEF row, shown, act
      <4>6. Held(act.o, row)
        BY <4>2, <4>3, <4>5 DEF Held
      <4>7. QED
        BY <4>4, <4>6
    <3>6. QED
      BY <3>4, <3>5
  <2>3. QED
    BY <2>1, <2>2
<1>5. board.act.phase # "writing"
  BY <1>1
<1> DEFINE o == act.o
<1>6. /\ o \in Orders /\ row \in OrderRow /\ Held(o, row) /\ ShowRow(o, row)
      /\ board' = [board EXCEPT !.act = [phase |-> "idle"], !.rows[o] = row]
  BY <1>1, <1>2, <1>4
<1> HIDE DEF act, row, o
<1>7. QED
  BY <1>1, <1>5, <1>6, AnsweredStays

(* A refused button reads the order again, but for the cash dialog.         *)
LEMMA PressRefusedStays ==
  ASSUME BoardInv, PressRefused
  PROVE  BoardInv'
<1> DEFINE act == board.act
<1>1. /\ act.phase = "conflict"
      /\ UNCHANGED <<order, log, counter, writers, stream, track, wait>>
  BY DEF PressRefused
<1>2. CASE act.base.stage = "payment"
  <2>1. board' = [board EXCEPT !.act = [phase |-> "idle"]] /\ UNCHANGED missed
    BY <1>2 DEF PressRefused
  <2>2. [phase |-> "idle"] \in AnAct
    BY DEF AnAct
  <2>3. /\ BoardType' /\ board'.act.phase = "idle"
        /\ UNCHANGED <<board.rows, board.last, board.fetch>>
    BY <2>1, <2>2 DEF BoardInv, BoardType
  <2>4. Writing'
    BY <1>1, <2>3 DEF BoardInv, Writing
  <2>5. QED
    BY <1>1, <2>1, <2>3, <2>4, ActStays
<1>3. CASE act.base.stage # "payment"
  <2> DEFINE o == act.o
             row == order[o]
  <2>1. /\ board' = [board EXCEPT !.act = [phase |-> "idle"], !.rows[o] = row]
        /\ ShowRow(o, row)
    BY <1>3 DEF PressRefused
  <2>2. o \in Orders
    BY <1>1, ActType
  <2>3. row \in OrderRow /\ Held(o, row)
    BY <2>2 DEF BoardInv, LogOK, Held, OrderRow
  <2>4. board.act.phase # "writing"
    BY <1>1
  <2> HIDE DEF act, o, row
  <2>5. QED
    BY <1>1, <2>1, <2>2, <2>3, <2>4, AnsweredStays
<1>4. QED
  BY <1>2, <1>3

(* A GET fails, and its order is missed.                                    *)
LEMMA FetchFailsStays ==
  ASSUME BoardInv, NEW f \in Fetches, FetchFails(f)
  PROVE  BoardInv'
<1> DEFINE o == board.fetch[f].o
           fetch == [board.fetch EXCEPT ![f] = NoFetch]
<1>1. /\ board.fetch[f].phase \in {"asked", "read"}
      /\ board' = [board EXCEPT !.fetch[f] = NoFetch] /\ missed' = missed \cup {o}
      /\ UNCHANGED <<order, log, counter, writers, stream, track, wait>>
  BY DEF FetchFails
<1>2. o \in Orders
  BY <1>1, FetchType
<1>3. board.fetch \in [Fetches -> AFetch] /\ NoFetch \in AFetch
  BY DEF BoardInv, BoardType, AFetch
<1>4. /\ fetch \in [Fetches -> AFetch] /\ board' = [board EXCEPT !.fetch = fetch]
      /\ \A g \in Fetches : IF g = f THEN fetch[g] = NoFetch ELSE fetch[g] = board.fetch[g]
  BY <1>1, <1>3
<1> HIDE DEF fetch
<1>5. /\ board' \in [rows : [Orders -> OrderRow], last : Nat, fetch : [Fetches -> AFetch], act : AnAct]
      /\ board'.rows = board.rows /\ board'.fetch = fetch /\ board'.act = board.act
      /\ board'.last = board.last
  BY <1>4 DEF BoardInv, BoardType
<1>6. BoardType'
  BY <1>1, <1>2, <1>5 DEF BoardInv, BoardType
<1>7. Top' = Top /\ LogOK' /\ PagesType' /\ StreamType' /\ Writing'
  <2>1. Top' = Top
    BY <1>1 DEF Top
  <2>2. QED
    BY <1>1, <1>5, <2>1 DEF BoardInv, LogOK, PagesType, StreamType, Writing
<1>8. \A g \in Fetches : fetch[g].phase # "idle" => fetch[g] = board.fetch[g]
  BY <1>4 DEF NoFetch
<1>9. Copies' /\ PaidOnce'
  BY <1>1, <1>5, <1>8 DEF BoardInv, Copies, Held, PaidOnce, Unpaid
<1>10. ASSUME NEW h, Heard(h) PROVE Heard(h)'
  <2>1. NoGaps(h)'
    BY <1>1, <1>7, <1>10 DEF Heard, NoGaps, Carried
  <2>2. ASSUME NEW o2 \in Orders \ missed' PROVE Told(o2, h)'
    <3>1. o2 \notin missed /\ o2 # o
      BY <1>1
    <3>2. Told(o2, h)
      BY <1>10, <3>1 DEF Heard
    <3>3. Asked(o2) => Asked(o2)'
      BY <1>4, <1>5, <3>1 DEF Asked
    <3>4. ReadFresh(o2) => ReadFresh(o2)'
      BY <1>1, <1>4, <1>5, <3>1 DEF ReadFresh
    <3>5. QED
      BY <1>1, <1>5, <1>7, <3>2, <3>3, <3>4 DEF Told
  <2>3. QED
    BY <1>5, <1>7, <1>10, <2>1, <2>2 DEF Heard
<1>11. QED
  BY <1>1, <1>6, <1>7, <1>9, <1>10 DEF BoardInv

(* A GET reads its order.                                                   *)
LEMMA FetchReadStays ==
  ASSUME BoardInv, NEW f \in Fetches, FetchRead(f)
  PROVE  BoardInv'
<1> DEFINE o == board.fetch[f].o
           c == [phase |-> "read", o |-> o, row |-> order[o]]
           fetch == [board.fetch EXCEPT ![f] = c]
<1>1. /\ board.fetch[f].phase = "asked"
      /\ board' = [board EXCEPT !.fetch[f] = c]
      /\ UNCHANGED <<order, log, counter, writers, stream, missed, track, wait>>
  BY DEF FetchRead
<1>2. o \in Orders /\ order[o] \in OrderRow
  BY <1>1, FetchType DEF BoardInv, LogOK
<1>3. /\ board.fetch \in [Fetches -> AFetch]
      /\ c \in AFetch /\ c.phase = "read" /\ c.o = o /\ c.row = order[o]
  BY <1>2 DEF BoardInv, BoardType, AFetch
<1> HIDE DEF c
<1>4. /\ fetch \in [Fetches -> AFetch] /\ board' = [board EXCEPT !.fetch = fetch]
      /\ \A g \in Fetches : IF g = f THEN fetch[g] = c ELSE fetch[g] = board.fetch[g]
  BY <1>1, <1>3
<1> HIDE DEF fetch
<1>5. /\ board' \in [rows : [Orders -> OrderRow], last : Nat, fetch : [Fetches -> AFetch], act : AnAct]
      /\ board'.rows = board.rows /\ board'.fetch = fetch /\ board'.act = board.act
      /\ board'.last = board.last
  BY <1>4 DEF BoardInv, BoardType
<1>6. BoardType'
  BY <1>1, <1>5 DEF BoardInv, BoardType
<1>7. Top' = Top /\ LogOK' /\ PagesType' /\ StreamType' /\ Writing'
  <2>1. Top' = Top
    BY <1>1 DEF Top
  <2>2. LogOK'
    BY <1>1, <2>1 DEF BoardInv, LogOK
  <2>3. PagesType'
    BY <1>1, <2>1 DEF BoardInv, PagesType
  <2>4. StreamType'
    BY <1>1, <2>1 DEF BoardInv, StreamType
  <2>5. Writing'
    BY <1>1, <1>5 DEF BoardInv, Writing
  <2>6. QED
    BY <2>1, <2>2, <2>3, <2>4, <2>5
<1>8. Held(o, order[o])
  BY <1>2 DEF Held, OrderRow
<1>9. Copies'
  <2>1. \A o2 \in Orders : Held(o2, board.rows[o2])'
    BY <1>1, <1>5 DEF BoardInv, Copies, Held
  <2>2. ASSUME NEW g \in Fetches, fetch[g].phase = "read"
        PROVE  Held(fetch[g].o, fetch[g].row)
    BY <1>3, <1>4, <1>8, <2>2 DEF BoardInv, Copies
  <2>3. \A g \in Fetches : board'.fetch[g].phase = "read" =>
                             Held(board'.fetch[g].o, board'.fetch[g].row)
    BY <1>5, <2>2
  <2>4. /\ board'.act.phase # "idle" => Held(board.act.o, board.act.base)
        /\ board'.act.phase = "done" => Held(board.act.o, board.act.row)
    BY <1>5 DEF BoardInv, Copies
  <2>5. QED
    BY <1>1, <1>5, <2>1, <2>3, <2>4 DEF Copies, Held
<1>10. PaidOnce'
  <2>1. ASSUME board.act.phase = "done", board.act.o = o PROVE Unpaid(order[o])
    <3>1. board.act.row.ver <= order[o].ver /\ board.act.row \in OrderRow
      BY <2>1, ActType DEF BoardInv, Copies, Held
    <3>2. QED
      BY <1>2, <3>1 DEF Unpaid, OrderRow
  <2>2. QED
    BY <1>1, <1>3, <1>4, <1>5, <2>1 DEF BoardInv, PaidOnce, Unpaid
<1>11. ASSUME NEW h, Heard(h) PROVE Heard(h)'
  <2>1. NoGaps(h)'
    BY <1>1, <1>7, <1>11 DEF Heard, NoGaps, Carried
  <2>2. ASSUME NEW o2 \in Orders \ missed' PROVE Told(o2, h)'
    <3>1. Told(o2, h)
      BY <1>1, <1>11, <2>2 DEF Heard
    <3>2. Asked(o2) => Asked(o2)' \/ ReadFresh(o2)'
      BY <1>1, <1>3, <1>4, <1>5 DEF Asked, ReadFresh
    <3>3. ReadFresh(o2) => ReadFresh(o2)'
      BY <1>1, <1>4, <1>5 DEF ReadFresh
    <3>4. QED
      BY <1>1, <1>5, <1>7, <3>1, <3>2, <3>3 DEF Told
  <2>3. QED
    BY <1>5, <1>7, <1>11, <2>1, <2>2 DEF Heard
<1>12. QED
  BY <1>1, <1>6, <1>7, <1>9, <1>10, <1>11 DEF BoardInv

-----------------------------------------------------------------------------
(* The stream. *)

(* The board asks for the order an event is about: the first event past the *)
(* ones it has heard of is the very next one.                               *)
LEMMA HandleStays ==
  ASSUME BoardInv, NEW f \in Fetches, HandleOrderEvent(f)
  PROVE  BoardInv'
<1> DEFINE n == Head(stream.pipe)
           c == [phase |-> "asked", o |-> log[n]]
           fetch == [board.fetch EXCEPT ![f] = c]
           pipe == stream.pipe
           rest == Tail(stream.pipe)
<1>1. /\ pipe # <<>> /\ board.fetch[f] = NoFetch
      /\ stream' = [stream EXCEPT !.pipe = rest]
      /\ board' = [board EXCEPT !.last = n, !.fetch[f] = c]
      /\ UNCHANGED <<order, log, counter, writers, missed, track, wait>>
  BY DEF HandleOrderEvent
<1>2. /\ Top \in Nat /\ counter \in Nat /\ Top <= counter
      /\ \A k \in 1..Top : log[k] \in Orders
      /\ pipe \in Seq(Nat) /\ \A i \in DOMAIN pipe : pipe[i] \in 1..Top
  BY TopIs DEF BoardInv, LogOK, StreamType
<1>3. /\ rest \in Seq(Nat) /\ Len(pipe) \in Nat \ {0}
      /\ n = pipe[1] /\ n \in 1..Top /\ n \in Nat /\ 1 \in DOMAIN pipe
      /\ DOMAIN pipe = 1..Len(pipe) /\ DOMAIN rest = 1..(Len(pipe) - 1)
      /\ \A i \in DOMAIN rest : rest[i] = pipe[i + 1] /\ i + 1 \in DOMAIN pipe
  BY <1>1, <1>2
<1>4. /\ board.fetch \in [Fetches -> AFetch]
      /\ c \in AFetch /\ c.phase = "asked" /\ c.o = log[n]
  BY <1>2, <1>3 DEF BoardInv, BoardType, AFetch
<1> HIDE DEF c, rest, n, pipe
<1>5. /\ fetch \in [Fetches -> AFetch] /\ board' = [board EXCEPT !.last = n, !.fetch = fetch]
      /\ \A g \in Fetches : IF g = f THEN fetch[g] = c ELSE fetch[g] = board.fetch[g]
  BY <1>1, <1>4
<1> HIDE DEF fetch
<1>6. /\ board' \in [rows : [Orders -> OrderRow], last : Nat, fetch : [Fetches -> AFetch], act : AnAct]
      /\ board'.rows = board.rows /\ board'.fetch = fetch /\ board'.act = board.act
      /\ board'.last = n
  BY <1>3, <1>5 DEF BoardInv, BoardType
<1>7. BoardType'
  BY <1>1, <1>6 DEF BoardInv, BoardType
<1>8. Top' = Top /\ LogOK' /\ PagesType' /\ Writing'
  <2>1. Top' = Top
    BY <1>1 DEF Top
  <2>2. QED
    BY <1>1, <1>6, <2>1 DEF BoardInv, LogOK, PagesType, Writing
<1>9. /\ stream' = [up |-> stream.up, over |-> stream.over, cursor |-> stream.cursor,
                    polls |-> stream.polls, pipe |-> rest]
      /\ stream'.pipe = rest /\ stream'.cursor = stream.cursor /\ stream'.polls = stream.polls
      /\ stream'.up = stream.up /\ stream'.over = stream.over
  BY <1>1 DEF BoardInv, StreamType
<1>10. StreamType'
  BY <1>2, <1>3, <1>8, <1>9 DEF BoardInv, StreamType
<1>11. \A g \in Fetches : board'.fetch[g].phase = "read" =>
                            board'.fetch[g] = board.fetch[g]
  BY <1>4, <1>5, <1>6
<1>12. Copies' /\ PaidOnce'
  BY <1>1, <1>6, <1>11 DEF BoardInv, Copies, Held, PaidOnce, Unpaid
<1>13. ASSUME NEW h \in 0..counter, Heard(h)
       PROVE  \E k \in 0..counter : Heard(k)'
  <2>12. PICK k \in Nat : k = IF n > h THEN n ELSE h
    BY <1>2, <1>3
  <2>1. h \in Nat /\ h <= Top /\ k \in 0..counter /\ h <= k /\ n <= k /\ k <= Top
    BY <1>2, <1>3, <1>13, <2>12 DEF Heard
  <2>11. /\ \A i \in DOMAIN pipe : \A m \in 1..Top :
              h < m /\ m < pipe[i] => \E j \in 1..(i - 1) : pipe[j] = m
         /\ \A m : Carried(m) <=> \E j \in DOMAIN pipe : pipe[j] = m
    BY <1>13 DEF Heard, NoGaps, Carried, pipe
  <2>2. ASSUME NEW m \in 1..Top, h < m, m <= k PROVE m = n
    <3>1. m <= n
      BY <2>1, <2>2, <2>12, <1>2, <1>3
    <3>4. h < m /\ m < pipe[1] => \E j \in 1..(1 - 1) : pipe[j] = m
      BY <1>3, <2>11
    <3>5. ~\E j \in 1..(1 - 1) : pipe[j] = m
      OBVIOUS
    <3>2. ~(m < n)
      BY <1>3, <2>2, <3>4, <3>5
    <3>3. QED
      BY <1>3, <3>1, <3>2
  <2>3. ASSUME NEW m \in 1..Top, k < m, Carried(m) PROVE Carried(m)'
    <3>1. PICK j \in DOMAIN pipe : pipe[j] = m
      BY <2>3, <2>11
    <3>2. j # 1
      BY <1>3, <2>1, <2>3, <3>1
    <3>3. j - 1 \in DOMAIN rest /\ rest[j - 1] = m
      BY <1>3, <3>1, <3>2
    <3>4. QED
      BY <1>9, <3>3 DEF Carried
  <2>4. ASSUME NEW i \in DOMAIN rest, NEW m \in 1..Top, k < m, m < rest[i]
        PROVE  \E j \in 1..(i - 1) : rest[j] = m
    <3>1. i + 1 \in DOMAIN pipe /\ m < pipe[i + 1] /\ h < m
      BY <1>2, <1>3, <2>1, <2>4
    <3>2. PICK j \in 1..((i + 1) - 1) : pipe[j] = m
      BY <2>11, <3>1
    <3>8. i \in Nat
      BY <1>3, <2>4
    <3>9. m # n
      BY <1>3, <2>12, <2>1, <2>4
    <3>6. i \in Nat /\ m # n
      BY <3>8, <3>9
    <3>3. j \in 1..i /\ j # 1
      BY <1>3, <3>2, <3>6
    <3>7. j - 1 \in 1..(i - 1) /\ j - 1 \in DOMAIN rest /\ (j - 1) + 1 = j
      BY <1>3, <2>4, <3>3, <3>6
    <3>4. rest[j - 1] = m
      BY <1>3, <3>2, <3>7
    <3>5. QED
      BY <3>4, <3>7
  <2>5. stream.cursor \in Nat
    BY DEF BoardInv, StreamType
  <2>6. \A m \in 1..Top : k < m => h < m
    BY <2>1, <1>2
  <2>7. NoGaps(k)'
    <3>1. \A i \in DOMAIN stream'.pipe : \A m \in 1..Top' :
            k < m /\ m < stream'.pipe[i] => \E j \in 1..(i - 1) : stream'.pipe[j] = m
      BY <1>8, <1>9, <2>4
    <3>2. \A m \in 1..Top' : k < m /\ m <= stream'.cursor => Carried(m)'
      BY <1>8, <1>9, <1>13, <2>3, <2>6 DEF Heard, NoGaps
    <3>3. \A p \in Polls : stream'.polls[p] # NoPoll =>
            \A m \in 1..Top' : k < m /\ (\A e \in stream'.polls[p].got : m < e) => Carried(m)'
      BY <1>8, <1>9, <1>13, <2>3, <2>6 DEF Heard, NoGaps
    <3>4. QED
      BY <3>1, <3>2, <3>3 DEF NoGaps, Carried
  <2>8. ASSUME NEW o \in Orders \ missed' PROVE Told(o, k)'
    <3>1. Told(o, h)
      BY <1>1, <1>13, <2>8 DEF Heard
    <3>2. CASE \E m \in 1..Top : m > h /\ log[m] = o
      <4>1. PICK m \in 1..Top : m > h /\ log[m] = o
        BY <3>2
      <4>2. CASE m > k
        BY <1>1, <1>8, <4>1, <4>2 DEF Told
      <4>3. CASE ~(m > k)
        <5>1. log[n] = o
          BY <2>1, <2>2, <4>1, <4>3
        <5>2. Asked(o)'
          BY <1>4, <1>5, <1>6, <5>1 DEF Asked
        <5>3. QED
          BY <5>2 DEF Told
      <4>4. QED
        BY <4>2, <4>3
    <3>3. Asked(o) => Asked(o)'
      BY <1>1, <1>5, <1>6 DEF Asked, NoFetch
    <3>4. ReadFresh(o) => ReadFresh(o)'
      BY <1>1, <1>5, <1>6 DEF ReadFresh, NoFetch
    <3>5. QED
      BY <1>1, <1>6, <1>8, <3>1, <3>2, <3>3, <3>4 DEF Told
  <2>9. Heard(k)'
    BY <1>6, <1>8, <2>1, <2>7, <2>8 DEF Heard
  <2>10. QED
    BY <2>1, <2>9
<1>14. QED
  BY <1>1, <1>7, <1>8, <1>10, <1>12, <1>13 DEF BoardInv

(* A step of the stream alone.                                              *)
LEMMA StreamStays ==
  ASSUME BoardInv,
         UNCHANGED <<order, log, counter, writers, board, missed, track, wait>>,
         StreamType', \A h \in 0..counter : Heard(h) => NoGaps(h)'
  PROVE  BoardInv'
<1>1. Top' = Top
  BY DEF Top
<1>2. LogOK' /\ BoardType' /\ PagesType' /\ Copies' /\ PaidOnce' /\ Writing'
  BY <1>1 DEF BoardInv, LogOK, BoardType, PagesType, Copies, Held, PaidOnce, Unpaid, Writing
<1>3. ASSUME NEW h \in 0..counter, Heard(h) PROVE Heard(h)'
  <2>1. NoGaps(h)'
    BY <1>3
  <2>2. \A o \in Orders : Told(o, h) => Told(o, h)'
    BY <1>1 DEF Told, Asked, ReadFresh
  <2>3. QED
    BY <1>1, <1>3, <2>1, <2>2 DEF Heard
<1>4. QED
  BY <1>2, <1>3 DEF BoardInv

(* A stream just opened, at any number the board has heard of.              *)
LEMMA OpenedStays ==
  ASSUME BoardInv, NEW up \in BOOLEAN, NEW over \in BOOLEAN, NEW c \in {0, board.last},
         UNCHANGED <<order, log, counter, writers, board, missed, track, wait>>,
         stream' = [up |-> up, over |-> over, cursor |-> c, polls |-> [p \in Polls |-> NoPoll],
                    pipe |-> <<>>]
  PROVE  BoardInv'
<1>1. Top \in Nat /\ Top' = Top
  BY TopIs DEF BoardInv, Top
<1>2. PICK h \in 0..counter : Heard(h)
  BY DEF BoardInv
<1>3. counter \in Nat /\ board.last \in Nat
  BY DEF BoardInv, LogOK, BoardType
<1>4. c \in Nat /\ c <= board.last /\ c \in 0..Top
  BY <1>1, <1>2, <1>3 DEF Heard
<1>5. /\ stream'.up = up /\ stream'.over = over /\ stream'.cursor = c /\ stream'.pipe = <<>>
      /\ stream'.polls = [p \in Polls |-> NoPoll]
      /\ stream' = [up |-> stream'.up, over |-> stream'.over, cursor |-> stream'.cursor,
                    polls |-> stream'.polls, pipe |-> stream'.pipe]
  OBVIOUS
<1>6. StreamType'
  <2>1. stream'.polls = [p \in Polls |-> stream'.polls[p]]
    BY <1>5
  <2>2. \A p \in Polls : stream'.polls[p] = NoPoll
    BY <1>5
  <2>3. stream'.pipe \in Seq(Nat) /\ DOMAIN stream'.pipe = {}
    BY <1>5
  <2>4. QED
    BY <1>1, <1>4, <1>5, <2>1, <2>2, <2>3 DEF StreamType
<1>7. ASSUME NEW k \in 0..counter, Heard(k) PROVE NoGaps(k)'
  <2>1. board.last <= k
    BY <1>7 DEF Heard
  <2>2. \A m \in 1..Top' : ~(k < m /\ m <= stream'.cursor)
    BY <1>1, <1>3, <1>4, <1>5, <2>1
  <2>3. DOMAIN stream'.pipe = {} /\ \A p \in Polls : stream'.polls[p] = NoPoll
    BY <1>5
  <2>4. QED
    BY <2>2, <2>3 DEF NoGaps, Carried
<1>8. QED
  BY <1>6, <1>7, StreamStays

(* The stream starts again from the last number the board was given.        *)
LEMMA ConnectStays ==
  ASSUME BoardInv, Connect
  PROVE  BoardInv'
<1>1. PICK h \in 0..counter : Heard(h)
  BY DEF BoardInv
<1>2. Top \in Nat /\ counter \in Nat /\ Top <= counter /\ board.last \in Nat
  BY TopIs DEF BoardInv, BoardType
<1>3. ~(board.last > counter)
  BY <1>1, <1>2 DEF Heard
<1> DEFINE c == IF board.last > counter THEN counter ELSE board.last
<1>4. /\ stream' = [Closed EXCEPT !.up = TRUE, !.cursor = c]
      /\ UNCHANGED <<order, log, counter, writers, board, missed, track, wait>>
  BY DEF Connect
<1>5. stream' = [up |-> TRUE, over |-> FALSE, cursor |-> c, polls |-> [p \in Polls |-> NoPoll],
                 pipe |-> <<>>]
  BY <1>4 DEF Closed
<1>6. c = board.last
  BY <1>3
<1> HIDE DEF c
<1>7. QED
  BY <1>4, <1>5, <1>6, OpenedStays

(* The stream breaks.                                                       *)
LEMMA BreakStays ==
  ASSUME BoardInv, Break
  PROVE  BoardInv'
<1>1. /\ stream' = [up |-> FALSE, over |-> FALSE, cursor |-> 0, polls |-> [p \in Polls |-> NoPoll],
                    pipe |-> <<>>]
      /\ UNCHANGED <<order, log, counter, writers, board, missed, track, wait>>
  BY DEF Break, Closed
<1>2. QED
  BY <1>1, OpenedStays

(* The request for the stream is answered with an error.                    *)
LEMMA RefuseStays ==
  ASSUME BoardInv, Refuse
  PROVE  BoardInv'
<1>1. /\ stream' = [up |-> FALSE, over |-> TRUE, cursor |-> 0, polls |-> [p \in Polls |-> NoPoll],
                    pipe |-> <<>>]
      /\ UNCHANGED <<order, log, counter, writers, board, missed, track, wait>>
  BY DEF Refuse, Closed
<1>2. QED
  BY <1>1, OpenedStays

(* A poll reads on from the cursor.                                         *)
LEMMA ReadLogStays ==
  ASSUME BoardInv, NEW p \in Polls, ReadLog(p)
  PROVE  BoardInv'
<1> DEFINE got == After100(stream.cursor)
           read == [phase |-> "read", got |-> got]
           polls == [stream.polls EXCEPT ![p] = read]
<1>1. /\ got # {} /\ stream' = [stream EXCEPT !.polls[p] = read]
      /\ UNCHANGED <<order, log, counter, writers, board, missed, track, wait>>
  BY DEF ReadLog
<1>2. /\ Top \in Nat /\ Top' = Top /\ stream.cursor \in 0..Top
      /\ stream.polls = [q \in Polls |-> stream.polls[q]]
      /\ stream.pipe \in Seq(Nat) /\ \A i \in DOMAIN stream.pipe : stream.pipe[i] \in 1..Top
      /\ stream.up \in BOOLEAN /\ stream.over \in BOOLEAN
  BY <1>1, TopIs DEF BoardInv, StreamType, Top
<1>3. PICK b \in 1..Top : stream.cursor + 1 <= b /\ got = (stream.cursor + 1)..b
  BY <1>1, <1>2, PollReads DEF BoardInv
<1> HIDE DEF got
<1>4. PICK a \in 1..Top : a = stream.cursor + 1 /\ a <= b /\ got = a..b
  BY <1>2, <1>3
<1>5. /\ stream' = [up |-> stream.up, over |-> stream.over, cursor |-> stream.cursor,
                    polls |-> polls, pipe |-> stream.pipe]
      /\ stream'.polls = polls /\ stream'.cursor = stream.cursor /\ stream'.pipe = stream.pipe
      /\ stream'.up = stream.up /\ stream'.over = stream.over
  BY <1>1 DEF BoardInv, StreamType
<1>6. polls = [q \in Polls |-> IF q = p THEN read ELSE stream.polls[q]]
  BY <1>2
<1>7. read.got = got /\ read = [phase |-> "read", got |-> a..b]
  BY <1>4
<1> HIDE DEF read, polls
<1>8. StreamType'
  <2>1. ASSUME NEW q \in Polls, polls[q] # NoPoll
        PROVE  \E x, y \in 1..Top' : x <= y /\ polls[q] = [phase |-> "read", got |-> x..y]
    <3>1. CASE q = p
      BY <1>2, <1>4, <1>6, <1>7, <3>1
    <3>2. CASE q # p
      BY <1>2, <1>6, <2>1, <3>2 DEF BoardInv, StreamType
    <3>3. QED
      BY <3>1, <3>2
  <2>2. stream'.polls = [q \in Polls |-> stream'.polls[q]]
    BY <1>5, <1>6
  <2>3. QED
    BY <1>2, <1>5, <2>1, <2>2 DEF StreamType
<1>9. ASSUME NEW h \in 0..counter, Heard(h) PROVE NoGaps(h)'
  <2>1. NoGaps(h)
    BY <1>9 DEF Heard
  <2>2. ASSUME NEW q \in Polls, polls[q] # NoPoll, NEW m \in 1..Top, h < m,
               \A n \in polls[q].got : m < n
        PROVE  Carried(m)
    <3>1. CASE q = p
      <4>1. a \in a..b /\ polls[q].got = a..b
        BY <1>4, <1>6, <1>7, <3>1
      <4>2. m <= stream.cursor
        BY <1>2, <1>4, <2>2, <4>1
      <4>3. QED
        BY <2>1, <2>2, <4>2 DEF NoGaps
    <3>2. CASE q # p
      BY <1>6, <2>1, <2>2, <3>2 DEF NoGaps
    <3>3. QED
      BY <3>1, <3>2
  <2>3. \A m : Carried(m)' <=> Carried(m)
    BY <1>5 DEF Carried
  <2>4. \A q \in Polls : stream'.polls[q] # NoPoll =>
           \A m \in 1..Top' : h < m /\ (\A n \in stream'.polls[q].got : m < n) => Carried(m)'
    BY <1>2, <1>5, <2>2, <2>3
  <2>5. \A m \in 1..Top' : h < m /\ m <= stream'.cursor => Carried(m)'
    BY <1>2, <1>5, <2>1, <2>3 DEF NoGaps
  <2>6. \A i \in DOMAIN stream'.pipe : \A m \in 1..Top' :
          h < m /\ m < stream'.pipe[i] => \E j \in 1..(i - 1) : stream'.pipe[j] = m
    BY <1>2, <1>5, <2>1 DEF NoGaps
  <2>7. QED
    BY <2>4, <2>5, <2>6 DEF NoGaps
<1>10. QED
  BY <1>1, <1>8, <1>9, StreamStays

(* The parts of two sequences put together.                                 *)
LEMMA Joined ==
  ASSUME NEW s \in Seq(Nat), NEW t \in Seq(Nat)
  PROVE  /\ s \o t \in Seq(Nat) /\ DOMAIN (s \o t) = 1..(Len(s) + Len(t))
         /\ \A i \in 1..Len(s) : (s \o t)[i] = s[i]
         /\ \A k \in 1..Len(t) : (s \o t)[Len(s) + k] = t[k]
OBVIOUS

(* What a poll read goes out after what went out before it: numbers under   *)
(* the ones it read are in the pipe already.                                *)
LEMMA EventsStay ==
  ASSUME BoardInv, NEW p \in Polls, SendEvents(p)
  PROVE  BoardInv'
<1> DEFINE got == stream.polls[p].got
           pipe == stream.pipe
           polls == [stream.polls EXCEPT ![p] = NoPoll]
<1>1. /\ stream.polls[p] # NoPoll
      /\ stream' = [stream EXCEPT !.polls[p] = NoPoll, !.cursor = CursorAfter(got),
                                  !.pipe = @ \o InOrder(got)]
      /\ UNCHANGED <<order, log, counter, writers, board, missed, track, wait>>
  BY DEF SendEvents
<1>2. /\ Top \in Nat /\ Top' = Top
      /\ stream.polls = [q \in Polls |-> stream.polls[q]]
      /\ pipe \in Seq(Nat) /\ Len(pipe) \in Nat /\ DOMAIN pipe = 1..Len(pipe)
      /\ \A i \in DOMAIN pipe : pipe[i] \in 1..Top
      /\ stream.up \in BOOLEAN /\ stream.over \in BOOLEAN
  BY <1>1, TopIs DEF BoardInv, StreamType, Top
<1>0. stream.polls[p] # NoPoll
  BY DEF SendEvents
<1>3. PICK a \in 1..Top, b \in 1..Top : a <= b /\ got = a..b
  <2>1. \E a, b \in 1..Top : a <= b /\ stream.polls[p] = [phase |-> "read", got |-> a..b]
    BY <1>0 DEF BoardInv, StreamType
  <2>2. QED
    BY <2>1
<1> DEFINE sent == [k \in 1..(b - a + 1) |-> a + k - 1]
           longer == pipe \o sent
<1>4. /\ a \in Nat /\ b \in Nat
      /\ InOrder(got) = sent /\ CursorAfter(got) = b
  <2>1. a \in Nat /\ b \in Nat
    BY <1>2
  <2>2. InOrder(a..b) = sent /\ CursorAfter(a..b) = b
    BY <1>3, <2>1, SentInOrder
  <2>3. QED
    BY <1>3, <2>1, <2>2
<1>5. sent \in Seq(Nat) /\ Len(sent) = b - a + 1 /\ b - a + 1 \in Nat
  <2>1. b - a + 1 \in Nat /\ \A k \in 1..(b - a + 1) : a + k - 1 \in Nat
    BY <1>3, <1>4
  <2>2. sent \in [1..(b - a + 1) -> Nat]
    BY <2>1
  <2>3. QED
    BY <2>1, <2>2
<1>6. \A k \in 1..(b - a + 1) : sent[k] = a + k - 1 /\ sent[k] \in 1..Top
  BY <1>2, <1>3, <1>4
<1> HIDE DEF sent
<1>7. /\ longer \in Seq(Nat) /\ DOMAIN longer = 1..(Len(pipe) + (b - a + 1))
      /\ \A i \in 1..Len(pipe) : longer[i] = pipe[i]
      /\ \A k \in 1..(b - a + 1) : longer[Len(pipe) + k] = sent[k]
  <2> HIDE DEF pipe
  <2>1. pipe \in Seq(Nat) /\ sent \in Seq(Nat) /\ Len(sent) = b - a + 1
    BY <1>2, <1>5
  <2>2. /\ longer \in Seq(Nat) /\ DOMAIN longer = 1..(Len(pipe) + Len(sent))
        /\ \A i \in 1..Len(pipe) : longer[i] = pipe[i]
        /\ \A k \in 1..Len(sent) : longer[Len(pipe) + k] = sent[k]
    BY <2>1, Joined
  <2> HIDE DEF longer
  <2>3. QED
    BY <2>1, <2>2
<1>8. /\ stream' = [up |-> stream.up, over |-> stream.over, cursor |-> b, polls |-> polls,
                    pipe |-> longer]
      /\ stream'.polls = polls /\ stream'.cursor = b /\ stream'.pipe = longer
      /\ stream'.up = stream.up /\ stream'.over = stream.over
  BY <1>1, <1>4 DEF BoardInv, StreamType
<1>9. polls = [q \in Polls |-> IF q = p THEN NoPoll ELSE stream.polls[q]]
  BY <1>2
<1> HIDE DEF got, polls, longer, pipe
<1>10. ASSUME NEW i \in DOMAIN longer
       PROVE  \/ i \in 1..Len(pipe) /\ longer[i] = pipe[i]
              \/ /\ i - Len(pipe) \in 1..(b - a + 1) /\ longer[i] = a + (i - Len(pipe)) - 1
                 /\ longer[i] \in 1..Top
  <2>1. i \in 1..Len(pipe) \/ i - Len(pipe) \in 1..(b - a + 1)
    <3>1. Len(pipe) \in Nat /\ b - a + 1 \in Nat /\ i \in 1..(Len(pipe) + (b - a + 1))
      BY <1>2, <1>5, <1>7
    <3>2. QED
      BY <3>1
  <2>2. ASSUME i - Len(pipe) \in 1..(b - a + 1) PROVE longer[i] = sent[i - Len(pipe)]
    <3>1. Len(pipe) + (i - Len(pipe)) = i
      BY <1>2, <1>7
    <3>2. QED
      BY <1>7, <2>2, <3>1
  <2>3. QED
    BY <1>6, <1>7, <2>1, <2>2
<1>11. StreamType'
  <2>1. \A i \in DOMAIN longer : longer[i] \in 1..Top
    BY <1>2, <1>10
  <2>2. \A q \in Polls : polls[q] # NoPoll => polls[q] = stream.polls[q]
    BY <1>9
  <2>3. polls = [q \in Polls |-> polls[q]]
    BY <1>9
  <2>4. b \in 0..Top
    BY <1>2, <1>3
  <2>5. \A q \in Polls : polls[q] # NoPoll =>
          \E x, y \in 1..Top : x <= y /\ polls[q] = [phase |-> "read", got |-> x..y]
    <3>1. \A q \in Polls : stream.polls[q] # NoPoll =>
            \E x, y \in 1..Top : x <= y /\ stream.polls[q] = [phase |-> "read", got |-> x..y]
      BY DEF BoardInv, StreamType
    <3>2. \A q \in Polls : polls[q] # NoPoll => stream.polls[q] # NoPoll
      BY <2>2
    <3>3. QED
      BY <2>2, <3>1, <3>2, Zenon
  <2>6. stream' = [up |-> stream'.up, over |-> stream'.over, cursor |-> stream'.cursor,
                   polls |-> stream'.polls, pipe |-> stream'.pipe]
    BY <1>8
  <2>7. stream'.pipe \in Seq(Nat) /\ \A i \in DOMAIN stream'.pipe : stream'.pipe[i] \in 1..Top'
    BY <1>2, <1>7, <1>8, <2>1
  <2>8. stream'.up \in BOOLEAN /\ stream'.over \in BOOLEAN /\ stream'.cursor \in 0..Top'
    BY <1>2, <1>8, <2>4
  <2>9. stream'.polls = [q \in Polls |-> stream'.polls[q]]
    BY <1>8, <2>3
  <2>10. QED
    BY <1>2, <1>8, <2>5, <2>6, <2>7, <2>8, <2>9 DEF StreamType
<1>12. ASSUME NEW m, Carried(m)
       PROVE  \E j \in 1..Len(pipe) : longer[j] = m /\ j \in DOMAIN longer
  <2>1. PICK j \in 1..Len(pipe) : pipe[j] = m
    BY <1>2, <1>12 DEF Carried, pipe
  <2>2. Len(pipe) \in Nat /\ b - a + 1 \in Nat
    BY <1>2, <1>5
  <2>4. j \in DOMAIN longer /\ longer[j] = m
    BY <1>7, <2>1, <2>2
  <2>3. QED
    BY <2>1, <2>4
<1>13. ASSUME NEW m \in 1..Top, a <= m, m <= b
       PROVE  /\ Len(pipe) + (m - a + 1) \in DOMAIN longer
              /\ longer[Len(pipe) + (m - a + 1)] = m
  <2>1. m - a + 1 \in 1..(b - a + 1) /\ a + (m - a + 1) - 1 = m
    BY <1>4, <1>13
  <2>2. Len(pipe) + (m - a + 1) \in DOMAIN longer
    <3>1. Len(pipe) \in Nat /\ b - a + 1 \in Nat
      BY <1>2, <1>5
    <3>2. \A l, r \in Nat : \A k \in 1..r : l + k \in 1..(l + r)
      OBVIOUS
    <3>3. Len(pipe) + (m - a + 1) \in 1..(Len(pipe) + (b - a + 1))
      BY <2>1, <3>1, <3>2
    <3>4. QED
      BY <1>7, <3>3
  <2>3. longer[Len(pipe) + (m - a + 1)] = m
    BY <1>6, <1>7, <2>1
  <2>4. QED
    BY <2>2, <2>3
<1>14. ASSUME NEW h \in 0..counter, Heard(h) PROVE NoGaps(h)'
  <2>1. NoGaps(h)
    BY <1>14 DEF Heard
  <2>2. ASSUME NEW m \in 1..Top, h < m, m < a PROVE Carried(m)
    <3>1. stream.polls[p].got = a..b
      BY <1>3 DEF got
    <3>2. \A n \in stream.polls[p].got : m < n
      BY <1>2, <1>4, <2>2, <3>1
    <3>3. QED
      BY <1>1, <2>1, <2>2, <3>2 DEF NoGaps
  <2>3. ASSUME NEW i \in DOMAIN longer, NEW m \in 1..Top, h < m, m < longer[i]
        PROVE  \E j \in 1..(i - 1) : longer[j] = m
    <3>1. CASE i \in 1..Len(pipe) /\ longer[i] = pipe[i]
      <4>1. i \in DOMAIN pipe /\ m < pipe[i]
        BY <1>2, <2>3, <3>1
      <4>2. PICK j \in 1..(i - 1) : pipe[j] = m
        BY <2>1, <2>3, <4>1 DEF NoGaps, pipe
      <4>3. j \in 1..Len(pipe)
        BY <1>2, <3>1, <4>2
      <4>4. longer[j] = m
        BY <1>7, <4>2, <4>3
      <4>5. QED
        BY <4>2, <4>4
    <3>2. CASE /\ i - Len(pipe) \in 1..(b - a + 1) /\ longer[i] = a + (i - Len(pipe)) - 1
               /\ longer[i] \in 1..Top
      <4>0. i \in Nat /\ m \in Nat /\ Len(pipe) + 1 <= i
        BY <1>2, <1>4, <1>7, <3>2, SMTT(30)
      <4>1. CASE m < a
        <5>1. PICK j \in 1..Len(pipe) : longer[j] = m
          BY <1>12, <2>2, <2>3, <4>1
        <5>2. j \in 1..(i - 1)
          BY <1>2, <4>0, <5>1
        <5>3. QED
          BY <5>1, <5>2
      <4>2. CASE a <= m
        <5> DEFINE j == Len(pipe) + (m - a + 1)
        <5>4. /\ Len(pipe) \in Nat /\ m < a + (i - Len(pipe)) - 1
              /\ i - Len(pipe) <= b - a + 1
          BY <1>2, <2>3, <3>2
        <5>1. m <= b /\ j \in 1..(i - 1)
          BY <1>4, <4>0, <4>2, <5>4
        <5>2. longer[j] = m
          BY <1>13, <4>2, <5>1
        <5> HIDE DEF j
        <5>3. QED
          BY <5>1, <5>2
      <4>3. QED
        BY <1>4, <4>0, <4>1, <4>2
    <3>3. QED
      BY <1>10, <3>1, <3>2
  <2>4. ASSUME NEW m \in 1..Top, h < m, m <= b \/ Carried(m)
        PROVE  \E j \in DOMAIN longer : longer[j] = m
    <3>1. CASE Carried(m)
      BY <1>12, <3>1
    <3>2. CASE m <= b /\ a <= m
      BY <1>13, <3>2
    <3>3. CASE m < a
      BY <1>12, <2>2, <2>4, <3>3
    <3>4. QED
      BY <1>2, <1>4, <2>4, <3>1, <3>2, <3>3
  <2>5. \A m : Carried(m)' <=> \E j \in DOMAIN longer : longer[j] = m
    BY <1>8 DEF Carried
  <2>6. \A q \in Polls : polls[q] # NoPoll => polls[q] = stream.polls[q]
    BY <1>9
  <2>7. \A m \in 1..Top' : h < m /\ m <= stream'.cursor => Carried(m)'
    BY <1>2, <1>8, <2>4, <2>5
  <2>8. \A q \in Polls : stream'.polls[q] # NoPoll =>
           \A m \in 1..Top' : h < m /\ (\A n \in stream'.polls[q].got : m < n) => Carried(m)'
    BY <1>2, <1>8, <2>1, <2>4, <2>5, <2>6 DEF NoGaps
  <2>9. \A i \in DOMAIN stream'.pipe : \A m \in 1..Top' :
           h < m /\ m < stream'.pipe[i] => \E j \in 1..(i - 1) : stream'.pipe[j] = m
    BY <1>2, <1>8, <2>3
  <2>10. QED
    BY <2>7, <2>8, <2>9 DEF NoGaps
<1>15. QED
  BY <1>1, <1>11, <1>14, StreamStays

-----------------------------------------------------------------------------
(* The whole. *)

(* The first page is as fresh as the orders.                                *)
LEMMA InitBoard ==
  ASSUME BoardInit
  PROVE  BoardInv
<1>1. PICK s \in {"payment", "delivery"} :
        order = [o \in Orders |-> [ver |-> 1, stage |-> IF o = Tracked THEN s ELSE "delivery"]]
  BY DEF BoardInit
<1>2. /\ log = <<>> /\ counter = 0 /\ writers = {} /\ stream = Closed /\ missed = {}
      /\ board = [rows |-> order, last |-> 0, fetch |-> [f \in Fetches |-> NoFetch],
                  act |-> [phase |-> "idle"]]
      /\ track = [phase |-> "due", row |-> None, shown |-> order[Tracked].stage,
                  cancel |-> "idle"]
      /\ wait = [running |-> TRUE, polls |-> [p \in Polls |-> NoPoll], failures |-> 0,
                 attempts |-> 0, shown |-> "payment", approved |-> TRUE, gaveUp |-> FALSE,
                 crossed |-> FALSE]
  BY DEF BoardInit
<1>3. order \in [Orders -> OrderRow]
  <2>1. \A o \in Orders : [ver |-> 1, stage |-> IF o = Tracked THEN s ELSE "delivery"] \in OrderRow
    BY DEF OrderRow, Stages
  <2>2. QED
    BY <1>1, <2>1
<1>4. Top = 0
  BY <1>2 DEF Top
<1>5. LogOK
  <2>1. DOMAIN log = {} /\ 1..Top = {}
    BY <1>2, <1>4
  <2>2. QED
    BY <1>2, <1>3, <2>1 DEF LogOK
<1>6. BoardType
  <2>1. NoFetch \in AFetch /\ [phase |-> "idle"] \in AnAct
    BY DEF AFetch, AnAct
  <2>2. QED
    BY <1>2, <1>3, <2>1 DEF BoardType
<1>7. PagesType
  <2>1. None \in OrderRow /\ order[Tracked].stage \in Stages /\ "payment" \in Stages
    BY <1>3, BoardAssumption DEF None, OrderRow, Stages
  <2>2. track \in [phase : {"due", "asked", "read", "stopped", "html", "left"}, row : OrderRow,
                   shown : Stages, cancel : {"idle", "sent", "writing", "refused", "done"}]
    BY <1>2, <2>1
  <2> DEFINE APoll == {NoPoll} \cup [phase : {"asked"}] \cup [phase : {"read"}, stage : Stages]
  <2>3. NoPoll \in APoll
    OBVIOUS
  <2> HIDE DEF APoll
  <2>4. wait \in [running : BOOLEAN, polls : [Polls -> APoll], failures : Nat, attempts : Nat,
                  shown : Stages, approved : BOOLEAN, gaveUp : BOOLEAN, crossed : BOOLEAN]
    BY <1>2, <2>1, <2>3
  <2>5. QED
    BY <2>2, <2>4 DEF PagesType, APoll
<1>8. /\ stream = [up |-> FALSE, over |-> FALSE, cursor |-> 0, polls |-> [p \in Polls |-> NoPoll],
                   pipe |-> <<>>]
      /\ stream.up = FALSE /\ stream.over = FALSE /\ stream.cursor = 0
      /\ stream.pipe = <<>> /\ DOMAIN stream.pipe = {}
      /\ stream.polls = [p \in Polls |-> NoPoll]
  BY <1>2 DEF Closed
<1>9. StreamType
  <2>1. stream.pipe \in Seq(Nat) /\ 0 \in 0..Top
    BY <1>4, <1>8
  <2>2. QED
    BY <1>8, <2>1 DEF StreamType
<1>10. Copies /\ PaidOnce /\ Writing
  <2>1. /\ board.rows = order /\ board.act.phase = "idle"
        /\ \A f \in Fetches : board.fetch[f].phase = "idle"
    BY <1>2 DEF NoFetch
  <2>2. \A o \in Orders : order[o].ver \in Nat
    BY <1>3 DEF OrderRow
  <2>3. QED
    BY <1>2, <2>1, <2>2 DEF Copies, PaidOnce, Writing, Held
<1>11. Heard(0)
  <2>1. 1..Top = {} /\ board.last = 0 /\ board.rows = order
    BY <1>2, <1>4
  <2>2. NoGaps(0)
    BY <1>8, <2>1 DEF NoGaps
  <2>3. \A o \in Orders : Told(o, 0)
    BY <2>1 DEF Told
  <2>4. QED
    BY <1>4, <2>1, <2>2, <2>3 DEF Heard
<1>12. 0 \in 0..counter
  BY <1>2
<1>13. QED
  BY <1>5, <1>6, <1>7, <1>9, <1>10, <1>11, <1>12 DEF BoardInv

(* Every step of the board keeps the invariant.                             *)
LEMMA NextBoard ==
  ASSUME BoardInv, [BoardNext]_boardVars
  PROVE  BoardInv'
<1>1. ASSUME NEW o \in Orders, Change(o) PROVE BoardInv'
  BY <1>1, ChangeStays
<1>2. ASSUME NEW w \in writers, CommitChange(w) PROVE BoardInv'
  BY <1>2, PublicationStays
<1>3. ASSUME NEW o \in Orders, Press(o) PROVE BoardInv'
  BY <1>3, PressStays
<1>4. ASSUME TrackCancel PROVE BoardInv'
  BY <1>4, TrackStays
<1>5. ASSUME StreamSteps PROVE BoardInv'
  BY <1>5, ConnectStays, ReadLogStays, EventsStay DEF StreamSteps
<1>6. ASSUME BoardSteps PROVE BoardInv'
  BY <1>6, HandleStays, FetchReadStays, FetchDoneStays, ServePressStays, CommitPressStays,
     PressDoneStays, PressRefusedStays DEF BoardSteps
<1>7. ASSUME PageSteps PROVE BoardInv'
  BY <1>7, TrackStays, ServeCancelStays, CommitCancelStays, WaitStays DEF PageSteps
<1>8. ASSUME Faults PROVE BoardInv'
  BY <1>8, BreakStays, RefuseStays, PressFailsStays, LoseApprovalStays, TrackStays,
     FetchFailsStays, WaitStays DEF Faults
<1>9. ASSUME UNCHANGED boardVars PROVE BoardInv'
  <2>1. Elsewhere /\ UNCHANGED <<track, wait>>
    BY <1>9 DEF boardVars, Elsewhere
  <2>2. PagesType'
    BY <2>1 DEF BoardInv, PagesType
  <2>3. QED
    BY <2>1, <2>2, ElsewhereStays
<1>10. QED
  BY <1>1, <1>2, <1>3, <1>4, <1>5, <1>6, <1>7, <1>8, <1>9 DEF BoardNext

(* The inductive invariant of the board: the log has no holes, the pipe     *)
(* skips no event that the board has not heard of, and an order that was    *)
(* not missed is fresh, asked for or still announced.                       *)
THEOREM BoardInductive ==
  BoardSpec => []BoardInv
<1>1. BoardInit => BoardInv
  BY InitBoard
<1>2. BoardInv /\ [BoardNext]_boardVars => BoardInv'
  BY NextBoard
<1>3. QED
  BY <1>1, <1>2, PTL DEF BoardSpec

(* Heard of means asked for: what is announced after the mark is announced  *)
(* after the last event the board handled.                                  *)
LEMMA LagsForAReason ==
  ASSUME BoardInv
  PROVE  BoardAgrees
<1>1. PICK h \in 0..counter : Heard(h)
  BY DEF BoardInv
<1>2. /\ Top \in Nat /\ counter \in Nat /\ Top <= counter /\ DOMAIN log = 1..Top
      /\ board.last \in Nat /\ board.last <= h
  BY <1>1, TopIs DEF BoardInv, LogOK, BoardType, Heard
<1>3. BoardTypeOK
  <2>1. \A w \in writers : w.o \in Orders /\ w.stage \in Stages /\ w.seq \in 1..counter
    BY <1>2 DEF BoardInv, LogOK, Writer
  <2>2. DOMAIN log \subseteq 1..counter /\ board.last \in 0..counter /\ stream.cursor \in 0..counter
    BY <1>1, <1>2 DEF BoardInv, StreamType
  <2>3. QED
    BY <2>1, <2>2 DEF BoardTypeOK, BoardInv, LogOK, BoardType, PagesType
<1>4. ASSUME NEW o \in Orders, board.rows[o].ver # order[o].ver, o \notin missed
      PROVE  OnItsWay(o) \/ Fetching(o)
  <2>1. Told(o, h)
    BY <1>1, <1>4 DEF Heard
  <2>2. CASE \E n \in 1..Top : n > h /\ log[n] = o
    BY <1>2, <2>2 DEF OnItsWay
  <2>3. CASE Asked(o) \/ ReadFresh(o)
    BY <2>3 DEF Asked, ReadFresh, Fetching, NoFetch
  <2>4. QED
    BY <1>4, <2>1, <2>2, <2>3 DEF Told
<1>5. QED
  BY <1>3, <1>4 DEF BoardAgrees, BoardLagsForAReason

(* The board is behind an order only while its event is to arrive or its    *)
(* GET is under way, or a GET failed or was overtaken (the handler of       *)
(* AdminOrdersLive, the cursor of the event stream, the counter row).       *)
THEOREM BoardSafety ==
  BoardSpec => []BoardAgrees
<1>1. BoardInv => BoardAgrees
  BY LagsForAReason
<1>2. QED
  BY <1>1, BoardInductive, PTL

(* A button of the board takes effect only on the stage it was pressed on   *)
(* (If-Match of AdminOrdersLive, the paid check of collect-cash).           *)
THEOREM ButtonsLook ==
  BoardSpec => NoBlindAdvance
<1>1. BoardInv =>
        \A o \in Orders :
          (\E w \in writers : w.o = o /\ w.by = "board") /\ order'[o] # order[o]
             => board.act.base.stage = order[o].stage
  BY DEF BoardInv, Writing
<1>2. QED
  BY <1>1, BoardInductive, PTL DEF NoBlindAdvance

=============================================================================
