------------------------------- MODULE Catalog -------------------------------
(***************************************************************************)
(* The menu a tenant sells from, and the browsers that edit it: categories,*)
(* items, combos, add-on groups and coupons, each a row with a version that*)
(* an edit names in If-Match.  An edit is one HTTP request or, when a      *)
(* category is deleted, a queue of them; a request reads and checks in one *)
(* step and writes in another, because the transactions run at READ        *)
(* COMMITTED; a written item is copied to the search index in a            *)
(* transaction of its own.  Sales take stock and coupons meanwhile.        *)
(***************************************************************************)
EXTENDS Integers, FiniteSets, SequencesExt

CONSTANTS Editors,    \* browser tabs with the back office open
          Slots,      \* requests that may be under way at once
          Cats, Items, Combos, Groups, Coupons,   \* rows
          MaxClicks,  \* clicks of the editors
          MaxEvents   \* redemptions and faults; the stock bounds the sales

\* Rows of different tables are different rows.
ASSUME CatalogAssumption ==
    /\ Cats # {} /\ IsFiniteSet(Items) /\ IsFiniteSet(Combos)
    /\ Cats \cap (Items \cup Combos \cup Groups) = {} /\ Groups \cap (Items \cup Combos) = {}
    /\ Coupons \cap (Cats \cup Items \cup Combos \cup Groups) = {}
    /\ "none" \notin Cats /\ "gone" \notin Editors
    /\ MaxClicks \in Nat /\ MaxEvents \in Nat

Rows == Cats \cup Items \cup Combos \cup Groups \cup Coupons
Sold == Items \cup Combos
Vals == {0, 1}
MaxStock == 1
Gone == "gone"
NoCall == [phase |-> "free"]

VARIABLES db,       \* the tenant's rows
          view,     \* what each editor has on the screen
          calls,    \* edits under way
          search,   \* catalog_search_entries: the price shown, if any
          shelf,    \* items the tenant counts, and the units really there
          late,     \* what entered a category after its children were counted
          adrift,   \* items saved from a form older than a sale, sold in a combo,
                    \* or no longer counted because of a status button
          troubled, \* items whose last copy to the index failed or came late
          clicks, events

vars == <<db, view, calls, search, shelf, late, adrift, troubled, clicks, events>>

NoRow == [st |-> "none", ver |-> 0, val |-> 0, cat |-> "none", track |-> FALSE, stock |-> 0]

----------------------------------------------------------------------------
(* The server *)

\* Drizzle's set({...values, version: version + 1}).
Written(row, change) ==
    [f \in DOMAIN row |->
        IF f = "ver" THEN row.ver + 1
        ELSE IF f \in DOMAIN change THEN change[f] ELSE row[f]]

\* Slip: the update names the row and not its version.
SlipVersionHolds(req) == db[req.row].st # "archived"

\* findById and findByCode see the coupons that are not deleted.
Found(p) == db[p].st # "archived"

\* DiscountRepository.update and softDelete: a coupon is deleted whatever its
\* version.
CouponHolds(req) == Found(req.row) /\ (req.how # "delete" => db[req.row].ver = req.ver)

\* where(eq(version, version))
VersionHolds(req) ==
    IF req.row \in Coupons THEN CouponHolds(req) ELSE db[req.row].ver = req.ver

\* Slip: drafts are not counted.
SlipChildren(c) == {r \in Sold : db[r].cat = c /\ db[r].st = "active"}

\* countCategoryChildren
Children(c) == {r \in Sold : db[r].cat = c /\ db[r].st \notin {"none", "archived"}}

\* assertPublishableItem and assertPublishableCombo, on the row as it will be.
Publishable(r, row) ==
    row.st = "active" =>
        /\ db[row.cat].st = "active"
        /\ r \in Combos => \A i \in Items : db[i].st = "active"

CheckCategory(req) ==
    /\ req.how # "create" => db[req.row].st # "none"
    /\ req.how = "delete" => Children(req.row) = {}

CheckSold(req) ==
    LET row == Written(db[req.row], req.change)
    IN  /\ db[row.cat].st # "none"
        /\ Publishable(req.row, row)

CheckGroup(req) == req.how = "create" \/ db[req.row].st # "none"

CheckCoupon(req) ==
    \/ req.how = "create"
    \/ /\ Found(req.row)
       /\ req.how = "patch" => db[req.row].ver = req.ver

Allowed(req) ==
    CASE req.row \in Cats -> CheckCategory(req)
      [] req.row \in Sold -> CheckSold(req)
      [] req.row \in Groups -> CheckGroup(req)
      [] req.row \in Coupons -> CheckCoupon(req)

\* The price the public catalogue shows for an item, if it shows it.
MenuEntry(row) == IF row.st = "active" THEN {row.val} ELSE {}

\* syncItem, handed the row the update returned.
Indexed(row) == IF db[row.cat].st = "active" THEN MenuEntry(row) ELSE {}

\* Slip: an update is copied on the same condition as a new item.
SlipNeedsSync(req, row) == req.row \in Items /\ row.st = "active"

\* An update is always copied; a new item only when it is already on sale.
NeedsSync(req, row) ==
    req.row \in Items /\ (req.how = "create" => row.st = "active")

Req(k) == Head(calls[k].todo)

Step(k, phase) == calls' = [calls EXCEPT ![k].phase = phase]

\* A rule that does not hold is answered as a version that does not: with a 409.
Check(k) ==
    /\ calls[k].phase = "sent"
    /\ Step(k, IF Allowed(Req(k)) THEN "checked" ELSE "conflict")
    /\ UNCHANGED <<db, view, search, shelf, late, adrift, troubled, clicks, events>>

\* Category c is gone, or its deletion has counted the children.
Closing(c) ==
    \/ db[c].st = "archived"
    \/ \E k \in Slots : calls[k].phase = "checked" /\ Req(k).row = c
                       /\ Req(k).how = "delete"

\* The item form names the category, a status button does not.
Form(req) == "cat" \in DOMAIN req.change

\* What the editor says is on the shelf: more or less than the form showed, or, when
\* counting begins, the number typed.
Stated(req, row) ==
    [counted |-> row.track,
     n |-> IF row.track /\ req.base.track
           THEN shelf[req.row].n + row.stock - req.base.stock ELSE row.stock]

\* A form puts back the stock it was opened with; a status button ends the counting.
Drifts(req, row) ==
    IF Form(req) THEN row.track /\ req.base.track /\ req.base.stock # db[req.row].stock
    ELSE db[req.row].track

Saved(req, row) ==
    /\ shelf' = IF Form(req) THEN [shelf EXCEPT ![req.row] = Stated(req, row)] ELSE shelf
    /\ adrift' = IF Drifts(req, row) THEN adrift \cup {req.row}
                 ELSE IF Form(req) /\ ~(row.track /\ req.base.track) THEN adrift \ {req.row}
                 ELSE adrift

Commit(k) ==
    LET req == Req(k)
        row == Written(db[req.row], req.change)
    IN  /\ calls[k].phase = "checked"
        /\ IF VersionHolds(req)
           THEN /\ db' = [db EXCEPT ![req.row] = row]
                /\ calls' = [calls EXCEPT ![k].got = row,
                       ![k].phase = IF NeedsSync(req, row) THEN "written" ELSE "done"]
                /\ late' = IF row.cat # db[req.row].cat /\ Closing(row.cat)
                           THEN late \cup {req.row} ELSE late
                /\ IF req.row \in Items THEN Saved(req, row) ELSE UNCHANGED <<shelf, adrift>>
           ELSE /\ Step(k, "conflict")
                /\ UNCHANGED <<db, late, shelf, adrift>>
        /\ UNCHANGED <<view, search, troubled, clicks, events>>

\* syncItem in its own transaction; it fails silently, and two may cross.
Sync(k, ok) ==
    LET row == calls[k].got
        i == Req(k).row
    IN  /\ calls[k].phase = "written"
        /\ \/ ok /\ events' = events
           \/ ~ok /\ events < MaxEvents /\ events' = events + 1
        /\ search' = IF ok THEN [search EXCEPT ![i] = Indexed(row)] ELSE search
        /\ troubled' = IF ok /\ row.ver = db[i].ver THEN troubled \ {i}
                       ELSE troubled \cup {i}
        /\ Step(k, "done")
        /\ UNCHANGED <<db, view, shelf, late, adrift, clicks>>

\* Slip: the deduction stops at zero instead of refusing the order.
SlipTaken(i) ==
    /\ db' = [db EXCEPT ![i].stock = IF db[i].track /\ @ > 0 THEN @ - 1 ELSE @]
    /\ events < MaxEvents /\ events' = events + 1

\* createFromCartSnapshot takes a unit of the stock that is kept: the version does not
\* move.  What is not tracked is sold without limit.
Taken(i) ==
    \/ /\ db[i].track /\ db[i].stock >= 1
       /\ db' = [db EXCEPT ![i].stock = @ - 1]
       /\ UNCHANGED events
    \/ /\ ~db[i].track
       /\ events < MaxEvents /\ events' = events + 1
       /\ UNCHANGED db

\* A unit leaves the shelf.
Fewer(on) == IF on.counted THEN [on EXCEPT !.n = @ - 1] ELSE on

\* A cart is sold as it was filled: the item may have left the menu since.
Sell(i) ==
    /\ db[i].st \in {"active", "unavailable", "archived"}
    /\ Taken(i)
    /\ shelf' = [shelf EXCEPT ![i] = Fewer(@)]
    /\ UNCHANGED <<view, calls, search, late, adrift, troubled, clicks>>

\* loadSelection, for a sale over the counter: the row as it is now, and a combo
\* only while everything in it is on sale.
ComboStatus(b) ==
    IF \A i \in Items : db[i].st = "active" THEN db[b].st ELSE "unavailable"
OnSale(r) == "active" = IF r \in Combos THEN ComboStatus(r) ELSE db[r].st

SellDirect(i) ==
    /\ OnSale(i)
    /\ Taken(i)
    /\ shelf' = [shelf EXCEPT ![i] = Fewer(@)]
    /\ UNCHANGED <<view, calls, search, late, adrift, troubled, clicks>>

\* The line of a combo has no item id, so the order takes nothing off the
\* record, although a unit of everything in it leaves the shelf.
SellCombo(b) ==
    /\ events < MaxEvents
    /\ OnSale(b)
    /\ shelf' = [i \in Items |-> Fewer(shelf[i])]
    /\ adrift' = Items
    /\ events' = events + 1
    /\ UNCHANGED <<db, view, calls, search, late, troubled, clicks>>

\* recordRedemption counts the use and moves the coupon's version; the redemption of
\* an order that is cancelled later is marked in its own row.
Redeem(c) ==
    /\ events < MaxEvents
    /\ db[c].st # "none"
    /\ db' = [db EXCEPT ![c].ver = @ + 1]
    /\ events' = events + 1
    /\ UNCHANGED <<view, calls, search, shelf, late, adrift, troubled, clicks>>

\* The request, or the answer to one that was served, is lost on the way.
Lose(k) ==
    /\ events < MaxEvents
    /\ calls[k].phase \in {"sent", "done"}
    /\ Step(k, "refused")
    /\ events' = events + 1
    /\ UNCHANGED <<db, view, search, shelf, late, adrift, troubled, clicks>>

----------------------------------------------------------------------------
(* The editors' browsers *)

Request(e, r, how, change) ==
    [row |-> r, how |-> how, change |-> change, ver |-> view[e][r].ver,
     base |-> view[e][r]]

Busy(e, rows) ==
    \E k \in Slots : /\ calls[k] # NoCall /\ calls[k].by = e
                     /\ Req(k).row \in rows

\* A click sends the first request of a queue.
Send(e, todo) ==
    /\ clicks < MaxClicks
    /\ clicks' = clicks + 1
    /\ \E k \in Slots :
         /\ calls[k] = NoCall
         /\ calls' = [calls EXCEPT ![k] =
                [by |-> e, todo |-> todo, phase |-> "sent", got |-> NoRow]]
    /\ UNCHANGED <<db, search, shelf, late, adrift, troubled, events>>

Shown(e, r) == view[e][r].st \notin {"none", "archived"}

Unused(r) == /\ db[r].st = "none"
             /\ \A k \in Slots : calls[k] # NoCall => Req(k).row # r

\* The defaults of the item's schema survive .partial(), so that a PATCH of the status
\* also ends the counting of the stock.
StatusOnly(st) == [st |-> st, track |-> FALSE, stock |-> 0]

createCategory(e, c) ==
    /\ Unused(c)
    /\ Send(e, <<Request(e, c, "create", [st |-> "draft"])>>)
    /\ UNCHANGED view

publishCategory(e, c) ==
    /\ view[e][c].st = "draft"
    /\ Send(e, <<Request(e, c, "patch", [st |-> "active"])>>)
    /\ UNCHANGED view

\* Deleting a category first archives, one request after the other, what the
\* editor sees in it.
archiveCategory(e, c) ==
    LET Queue(rows, how, change) ==
            LET q == SetToSeq({r \in rows : Shown(e, r) /\ view[e][r].cat = c})
            IN  [n \in DOMAIN q |-> Request(e, q[n], how, change)]
    IN  /\ Shown(e, c)
        /\ Send(e, Queue(Items, "sweep", StatusOnly("archived"))
                   \o Queue(Combos, "delete", [st |-> "archived"])
                   \o <<Request(e, c, "delete", [st |-> "archived"])>>)
        /\ UNCHANGED view

itemAction(e, i) ==
    /\ Shown(e, i)
    /\ \E st \in (IF view[e][i].st = "active" THEN {"unavailable"} ELSE {"active"})
                 \cup {"archived"} :
         Send(e, <<Request(e, i, "patch", StatusOnly(st))>>)
    /\ UNCHANGED view

createItem(e, i) ==
    /\ Unused(i)
    /\ \E c \in Cats, track \in BOOLEAN : Shown(e, c) /\
         Send(e, <<Request(e, i, "create",
                     [st |-> "draft", val |-> 0, cat |-> c, track |-> track,
                      stock |-> IF track THEN MaxStock ELSE 0])>>)
    /\ UNCHANGED view

\* Stock is retyped when the screen says it has run out, and sent while it is kept.
Restock(n, track) == IF ~track THEN {0} ELSE IF n = 0 THEN {0, MaxStock} ELSE {n}

\* The form holds the whole row, the stock it was opened with included.
saveItem(e, i) ==
    /\ Shown(e, i)
    /\ ~Busy(e, {i})
    /\ \E c \in Cats, track \in BOOLEAN, n \in 0..MaxStock :
         /\ Shown(e, c) /\ n \in Restock(view[e][i].stock, track)
         /\ Send(e, <<Request(e, i, "patch",
                [st |-> view[e][i].st, val |-> 1 - view[e][i].val,
                 cat |-> c, track |-> track, stock |-> n])>>)
    /\ UNCHANGED view

createGroup(e, g) ==
    /\ Unused(g)
    /\ ~Busy(e, Groups)
    /\ Send(e, <<Request(e, g, "create", [st |-> "draft"])>>)
    /\ UNCHANGED view

publishGroup(e, g) ==
    /\ view[e][g].st = "draft"
    /\ ~Busy(e, Groups)
    /\ Send(e, <<Request(e, g, "patch", [st |-> "active"])>>)
    /\ UNCHANGED view

\* removeOption of the last option deletes the group.
archiveGroup(e, g) ==
    /\ Shown(e, g)
    /\ ~Busy(e, Groups)
    /\ Send(e, <<Request(e, g, "delete", [st |-> "archived"])>>)
    /\ UNCHANGED view

\* saveOption and removeOption replace the whole list of options.
saveOption(e, g) ==
    /\ Shown(e, g)
    /\ ~Busy(e, Groups)
    /\ Send(e, <<Request(e, g, "patch", [val |-> 1 - view[e][g].val])>>)
    /\ UNCHANGED view

createCombo(e, b) ==
    /\ Unused(b)
    /\ ~Busy(e, Combos)
    /\ \A i \in Items : Shown(e, i)
    /\ \E c \in Cats : Shown(e, c) /\
         Send(e, <<Request(e, b, "create", [st |-> "draft", cat |-> c])>>)
    /\ UNCHANGED view

saveCombo(e, b) ==
    /\ Shown(e, b)
    /\ ~Busy(e, Combos)
    /\ \E c \in Cats : Shown(e, c) /\
         Send(e, <<Request(e, b, "patch", [val |-> 1 - view[e][b].val, cat |-> c])>>)
    /\ UNCHANGED view

updateComboStatus(e, b) ==
    /\ Shown(e, b)
    /\ ~Busy(e, Combos)
    /\ Send(e, <<Request(e, b, "patch",
          [st |-> IF view[e][b].st = "active" THEN "unavailable" ELSE "active"])>>)
    /\ UNCHANGED view

archiveCombo(e, b) ==
    /\ Shown(e, b)
    /\ ~Busy(e, Combos)
    /\ Send(e, <<Request(e, b, "delete", [st |-> "archived"])>>)
    /\ UNCHANGED view

\* DiscountRepository.create: on unless the input says otherwise; the panel does
\* not say.
NewDiscount == [st |-> "active"]

handleCreateDiscount(e, p) ==
    /\ Unused(p)
    /\ Send(e, <<Request(e, p, "create", NewDiscount)>>)
    /\ UNCHANGED view

\* The panel shows the new state at once and keeps the old version.
handleToggleActive(e, p) ==
    LET next == IF view[e][p].st = "active" THEN "unavailable" ELSE "active"
    IN  /\ Shown(e, p)
        /\ Send(e, <<Request(e, p, "patch", [st |-> next])>>)
        /\ view' = [view EXCEPT ![e][p].st = next]

handleDelete(e, p) ==
    /\ Shown(e, p)
    /\ Send(e, <<Request(e, p, "delete", [st |-> "archived"])>>)
    /\ UNCHANGED view

Reload(e) ==
    /\ clicks < MaxClicks
    /\ clicks' = clicks + 1
    /\ view' = [view EXCEPT ![e] = db]
    /\ calls' = [k \in Slots |->
           IF calls[k] # NoCall /\ calls[k].by = e
           THEN [calls[k] EXCEPT !.by = Gone] ELSE calls[k]]
    /\ UNCHANGED <<db, search, shelf, late, adrift, troubled, events>>

----------------------------------------------------------------------------
(* Answers *)

\* What the screen shows of its row once a request has succeeded.  Lists are
\* mapped, so a row that has left the screen stays away, except that a saved
\* form puts its item back and the group and combo panels write the whole
\* list they had when the button was pressed.
Merged(e, req, got) ==
    IF \/ req.how = "delete" \/ (~Form(req) /\ got.st = "archived")
       \/ /\ req.row \in Cats \cup Items \cup Coupons
          /\ req.how = "patch" /\ ~Form(req)
          /\ view[e][req.row].st = "none"
    THEN NoRow ELSE got

Accepted(e, req, got) ==
    [r \in Rows |->
        IF r = req.row THEN Merged(e, req, got)
        ELSE IF req.row \in Cats /\ req.how = "delete" /\ r \in Sold
                /\ view[e][r].cat = req.row
             THEN NoRow ELSE view[e][r]]

\* After a 409 a status button reads items and categories again, and the
\* coupon panel puts back the coupon it had when the button was pressed.
Rejected(e, req, phase) ==
    [r \in Rows |->
        CASE /\ phase = "conflict" /\ req.row \in Items /\ req.how = "patch"
             /\ ~Form(req) /\ r \in Items \cup Cats -> db[r]
          [] /\ r = req.row /\ r \in Coupons /\ req.how = "patch"
             /\ view[e][r].st # "none" -> req.base
          [] OTHER -> view[e][r]]

\* The next request of a queue is sent only if the last one succeeded.
Receive(k) ==
    LET c == calls[k]
    IN  /\ c.phase \in {"done", "conflict", "refused"}
        /\ IF c.phase = "done" /\ Len(c.todo) > 1 /\ c.by # Gone
           THEN /\ calls' = [calls EXCEPT ![k].todo = Tail(@), ![k].phase = "sent"]
                /\ UNCHANGED view
           ELSE /\ calls' = [calls EXCEPT ![k] = NoCall]
                /\ view' = IF c.by = Gone THEN view
                           ELSE [view EXCEPT ![c.by] =
                                    IF c.phase = "done"
                                    THEN Accepted(c.by, Req(k), c.got)
                                    ELSE Rejected(c.by, Req(k), c.phase)]
        /\ UNCHANGED <<db, search, shelf, late, adrift, troubled, clicks, events>>

----------------------------------------------------------------------------
\* A tenant that has just signed up, or one that sells from its first category.
Stocked ==
    LET home == CHOOSE c \in Cats : TRUE
    IN  [r \in Rows |->
            IF r \in Combos \cup Groups THEN NoRow
            ELSE [st |-> "active", ver |-> 1, val |-> 0,
                  cat |-> IF r \in Items THEN home ELSE "none", track |-> r \in Items,
                  stock |-> IF r \in Items THEN MaxStock ELSE 0]]

Init ==
    /\ db \in {[r \in Rows |-> NoRow], Stocked}
    /\ view = [e \in Editors |-> db]
    /\ calls = [k \in Slots |-> NoCall]
    /\ search = [i \in Items |-> MenuEntry(db[i])]
    /\ shelf = [i \in Items |-> [counted |-> db[i].track, n |-> db[i].stock]]
    /\ late = {} /\ adrift = {} /\ troubled = {}
    /\ clicks = 0 /\ events = 0

CategoryClick(e) == \E c \in Cats :
    createCategory(e, c) \/ publishCategory(e, c) \/ archiveCategory(e, c)
ItemClick(e) == \E i \in Items :
    itemAction(e, i) \/ createItem(e, i) \/ saveItem(e, i)
GroupClick(e) == \E g \in Groups :
    createGroup(e, g) \/ publishGroup(e, g) \/ archiveGroup(e, g) \/ saveOption(e, g)
ComboClick(e) == \E b \in Combos :
    createCombo(e, b) \/ saveCombo(e, b) \/ updateComboStatus(e, b) \/ archiveCombo(e, b)
CouponClick(e) == \E p \in Coupons :
    handleCreateDiscount(e, p) \/ handleToggleActive(e, p) \/ handleDelete(e, p)

Next ==
    \/ \E e \in Editors : \/ CategoryClick(e) \/ ItemClick(e) \/ GroupClick(e)
                          \/ ComboClick(e) \/ CouponClick(e) \/ Reload(e)
    \/ \E k \in Slots : \/ Check(k) \/ Commit(k) \/ Sync(k, TRUE) \/ Sync(k, FALSE)
                        \/ Lose(k) \/ Receive(k)
    \/ \E i \in Items : SellDirect(i) \/ Sell(i)
    \/ \E b \in Combos : SellCombo(b)
    \/ \E p \in Coupons : Redeem(p)

Spec == Init /\ [][Next]_vars

----------------------------------------------------------------------------
Row == [st : {"none", "draft", "active", "unavailable", "archived"},
        ver : Nat, val : Vals, cat : Cats \cup {"none"}, track : BOOLEAN,
        stock : 0..MaxStock]

\* Rows, screens and calls have the shapes the tables and the pages give them;
\* in particular no order drives a stock below zero.
TypeOK ==
    /\ db \in [Rows -> Row]
    /\ view \in [Editors -> [Rows -> Row]]
    /\ \A k \in Slots : calls[k] # NoCall =>
         /\ calls[k].by \in Editors \cup {Gone}
         /\ calls[k].phase \in {"sent", "checked", "written", "done", "conflict", "refused"}
         /\ calls[k].todo # <<>>
    /\ search \in [Items -> SUBSET Vals]
    /\ late \subseteq Sold /\ adrift \cup troubled \subseteq Items

Content(row) == [st |-> row.st, val |-> row.val, cat |-> row.cat, track |-> row.track]

\* Nobody's edit is overwritten unseen: the content of a row changes only by a
\* request whose editor had that very content on the screen (If-Match of
\* catalog.service and discount.service).  Deleting a coupon is the exception.
NoLostEdit ==
    [][\A r \in Rows : Content(db'[r]) # Content(db[r]) =>
          \E k \in Slots :
             /\ calls[k].phase = "checked" /\ calls'[k].phase # "checked"
             /\ Req(k).row = r
             /\ \/ Req(k).how = "create"
                \/ r \in Coupons /\ Req(k).how = "delete"
                \/ Content(Req(k).base) = Content(db[r])]_vars

\* What is on sale is in a category that is on sale, however publishing an item
\* or a combo and deleting its category cross (assertPublishableItem against
\* assertArchivableCategory).  Only what is created in or moved into the category
\* between the count of its children and its deletion escapes.
OnlyLiveCategoriesSell ==
    \A r \in Sold \ late : db[r].st = "active" => db[db[r].cat].st = "active"

\* The search index shows an item as the menu does, unless its copy is still on
\* the way, or the last copy failed or was overtaken by an older one
\* (catalog.service's syncItem after the commit, its errors swallowed).
SearchFollowsMenu ==
    \A i \in Items :
       \/ search[i] = MenuEntry(db[i])
       \/ \E k \in Slots : calls[k].phase = "written" /\ Req(k).row = i
       \/ i \in troubled
       \/ db[i].st = "active" /\ db[db[i].cat].st # "active"

\* The record of an item that the tenant counts is what is on its shelf, unless an
\* editor saved a form that was opened before a sale and so put the sold units back
\* (order.repository's guarded deduction leaves the version alone), or a combo was
\* sold, whose contents are not deducted, or a status button ended the counting.
RecordFollowsShelf ==
    \A i \in Items \ adrift :
        shelf[i].counted => db[i].track /\ db[i].stock = shelf[i].n

\* No stock is driven below zero, and no unit is sold twice without a cause.
StockAgrees == TypeOK /\ RecordFollowsShelf
==============================================================================
