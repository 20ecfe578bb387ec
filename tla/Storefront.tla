----------------------------- MODULE Storefront -----------------------------
(***************************************************************************)
(* One customer's browser and the cart service: the basket context, the    *)
(* ticket panel, the coupon field, the pay page with its effects and its   *)
(* calls in flight, the status page's way back, and the server that        *)
(* validates carts, revalidates coupons and takes cash orders and payment  *)
(* sessions.  Every call runs in three steps: the browser sends it with    *)
(* the values its closure captured, the server serves it, and the browser  *)
(* applies the answer to whatever the page has become by then.             *)
(***************************************************************************)
EXTENDS CartLines, FiniteSets, TLC

CONSTANTS Prices,      \* unit prices the owner may set
          Savings,     \* what the owner may let the coupon take off
          Slots,       \* calls the browser may have in flight
          MaxCarts,    \* carts the server validates before it stops ordering
          MaxClicks,   \* clicks of the customer
          MaxUnits,    \* units in the basket
          MaxEvents    \* faults, expiries and edits by the owner

ASSUME StorefrontAssumption ==
    /\ Prices \subseteq Nat \ {0} /\ Prices # {}
    /\ Slots \subseteq Nat
    /\ Savings \subseteq Nat
    /\ MaxCarts \in Nat /\ MaxClicks \in Nat /\ MaxUnits \in Nat /\ MaxEvents \in Nat

VARIABLES ctx,      \* the basket context
          page,     \* where the browser is
          pay,      \* the pay page's own state
          due,      \* effects and renders React has yet to run
          calls,    \* requests in flight and their answers
          backup,   \* komanda.cart.backup in local storage
          carts,    \* the server's carts
          promo,    \* the coupon, as the owner last saved it
          price,    \* the catalogue
          orders,   \* orders and payment sessions the server has accepted
          clicks, events

storeVars == <<ctx, page, pay, due, calls, backup, carts, promo, price, orders,
               clicks, events>>

NoCart == [id |-> 0]
NoCall == [kind |-> "free"]
NoCoupon == "none"
Lost == [id |-> 0]

----------------------------------------------------------------------------
(* The server *)

LineTotal(l) == l.unit * l.qty
CartSubtotal(lines) == FoldLeft(LAMBDA sum, l : sum + LineTotal(l), 0, lines)

\* calculateDiscountAmounts: the tender is not looked at here.
DiscountOf(lines) ==
    IF promo.state = "active"
    THEN IF promo.value < CartSubtotal(lines) THEN promo.value ELSE CartSubtotal(lines)
    ELSE 0

WithCoupon(cart) ==
    [cart EXCEPT !.coupon = promo.tender, !.discount = DiscountOf(cart.lines),
                 !.version = @ + 1]

WithoutCoupon(cart) ==
    [cart EXCEPT !.coupon = NoCoupon, !.discount = 0, !.version = @ + 1]

CartTotal(cart) == CartSubtotal(cart.lines) - cart.discount

\* What the browser is told of cart k.
toOfficialCart(k, cart) ==
    [id |-> k, version |-> cart.version, lines |-> cart.lines,
     coupon |-> cart.coupon, discount |-> cart.discount]

Live(k) == k \in DOMAIN carts /\ carts[k].status # "expired"

Sellable(sent) ==
    /\ sent # <<>>
    /\ \A i \in DOMAIN sent : sent[i].confirmed = price[sent[i].prod]

ValidatedCart(sent, coupon) ==
    LET lines == [i \in DOMAIN sent |->
                     [prod |-> sent[i].prod, qty |-> sent[i].qty,
                      addon |-> sent[i].addon,
                      unit |-> price[sent[i].prod]
                               + (IF sent[i].addon THEN AddonPrice ELSE 0)]]
        taken == coupon # NoCoupon /\ promo.state = "active"
    IN  [status |-> "validated", version |-> 1, lines |-> lines,
         coupon |-> IF taken THEN promo.tender ELSE NoCoupon,
         discount |-> IF taken THEN DiscountOf(lines) ELSE 0]

Reply(s, answer) ==
    calls' = [calls EXCEPT ![s].state = "answered", ![s].answer = answer]

\* CartService.create; a store that stops taking orders refuses too.
ServeCreate(s) ==
    /\ calls[s].kind \in {"checkout", "create", "couponSync"}
    /\ LET sent == cartLinesToSnapshots(calls[s].items)
           cart == ValidatedCart(sent, calls[s].coupon)
       IN  IF Sellable(sent) /\ Len(carts) < MaxCarts
           THEN /\ carts' = Append(carts, cart)
                /\ Reply(s, toOfficialCart(Len(carts) + 1, cart))
           ELSE UNCHANGED carts /\ Reply(s, Lost)
    /\ UNCHANGED orders

\* CartService.get: an applied coupon is checked again on every read.
Revalidated(cart) ==
    IF cart.coupon = NoCoupon THEN cart
    ELSE IF promo.state # "active" THEN WithoutCoupon(cart)
    ELSE IF DiscountOf(cart.lines) # cart.discount THEN WithCoupon(cart)
    ELSE cart

ServeGet(s) ==
    /\ calls[s].kind = "get"
    /\ LET k == calls[s].cart
       IN  IF Live(k)
           THEN /\ carts' = [carts EXCEPT ![k] = Revalidated(@)]
                /\ Reply(s, toOfficialCart(k, Revalidated(carts[k])))
           ELSE UNCHANGED carts /\ Reply(s, Lost)
    /\ UNCHANGED orders

ServeCoupon(s) ==
    /\ calls[s].kind = "coupon"
    /\ LET k == calls[s].cart
       IN  IF Live(k) /\ promo.state = "active"
           THEN /\ carts' = [carts EXCEPT ![k] = WithCoupon(@)]
                /\ Reply(s, toOfficialCart(k, WithCoupon(carts[k])))
           ELSE UNCHANGED carts /\ Reply(s, Lost)
    /\ UNCHANGED orders

ServeUncoupon(s) ==
    /\ calls[s].kind = "uncoupon"
    /\ LET k == calls[s].cart
       IN  IF Live(k)
           THEN /\ carts' = [carts EXCEPT ![k] = WithoutCoupon(@)]
                /\ Reply(s, toOfficialCart(k, WithoutCoupon(carts[k])))
           ELSE UNCHANGED carts /\ Reply(s, Lost)
    /\ UNCHANGED orders

\* The coupon of the cart, at the moment the order is taken with that tender; a
\* coupon deleted since is no longer found, and no longer checked.
CouponHolds(cart, method) ==
    \/ cart.coupon = NoCoupon
    \/ promo.state = "deleted"
    \/ promo.state = "active" /\ (promo.tender = "cash" => method = "cash")

\* A bug the order services could have: the version the customer saw is ignored.
SlipVersionHolds(cart, call) == TRUE

VersionHolds(cart, call) == call.version = cart.version

\* CreateCashOrderService.create and PaymentSessionService's claim.
Orderable(call) ==
    /\ Live(call.cart)
    /\ LET cart == carts[call.cart]
       IN  /\ cart.status = "validated"
           /\ VersionHolds(cart, call)
           /\ CouponHolds(cart, call.method)
           /\ call.method = "mercadopago" =>
                 /\ CartTotal(cart) > 0
                 /\ \A i \in DOMAIN cart.lines :
                       cart.lines[i].unit = price[cart.lines[i].prod]
                             + (IF cart.lines[i].addon THEN AddonPrice ELSE 0)
                 /\ \A o \in orders : o.cart # call.cart

ServeSubmit(s) ==
    /\ calls[s].kind = "submit"
    /\ LET call == calls[s]
       IN  IF Orderable(call)
           THEN /\ orders' = orders \cup
                       {[cart |-> call.cart, method |-> call.method,
                         visit |-> call.visit, shown |-> call.shown,
                         suppressed |-> call.suppressed,
                         charged |-> CartTotal(carts[call.cart])]}
                /\ carts' = IF call.method = "cash"
                            THEN [carts EXCEPT ![call.cart].status = "converted"]
                            ELSE carts
                /\ Reply(s, toOfficialCart(call.cart, carts[call.cart]))
           ELSE UNCHANGED <<orders, carts>> /\ Reply(s, Lost)

ServeCall(s) ==
    /\ calls[s] # NoCall /\ calls[s].state = "sent"
    /\ \/ ServeCreate(s) \/ ServeGet(s) \/ ServeCoupon(s)
       \/ ServeUncoupon(s) \/ ServeSubmit(s)
    /\ UNCHANGED <<ctx, page, pay, due, backup, promo, price, clicks, events>>

----------------------------------------------------------------------------
(* What the world does to a customer at the checkout *)

Happens == events < MaxEvents /\ events' = events + 1

\* A request or its answer is lost: fetch rejects, or answers with an error.
Fail(s) ==
    /\ Happens
    /\ calls[s] # NoCall
    /\ ~(calls[s].state = "answered" /\ calls[s].answer = Lost)
    /\ Reply(s, Lost)
    /\ UNCHANGED <<ctx, page, pay, due, backup, carts, promo, price, orders, clicks>>

\* Half an hour passes: the cart can no longer be read or ordered.
ExpireCart(k) ==
    /\ Happens
    /\ carts[k].status = "validated"
    /\ carts' = [carts EXCEPT ![k].status = "expired"]
    /\ UNCHANGED <<ctx, page, pay, due, calls, backup, promo, price, orders, clicks>>

\* The owner switches or deletes the coupon or changes its tender or its value, or
\* reprices a product.
EditPromo ==
    /\ Happens
    /\ promo.state # "deleted"
    /\ \/ \E st \in {"active", "off", "deleted"} \ {promo.state} :
              promo' = [promo EXCEPT !.state = st]
       \/ promo' = [promo EXCEPT !.tender = IF @ = "any" THEN "cash" ELSE "any"]
       \/ \E value \in Savings \ {promo.value} : promo' = [promo EXCEPT !.value = value]
    /\ UNCHANGED <<ctx, page, pay, due, calls, backup, carts, price, orders, clicks>>

Reprice(p, v) ==
    /\ Happens
    /\ price[p] # v
    /\ price' = [price EXCEPT ![p] = v]
    /\ UNCHANGED <<ctx, page, pay, due, calls, backup, carts, promo, orders, clicks>>

----------------------------------------------------------------------------
(* The browser *)

Free == {s \in Slots : calls[s] = NoCall}

\* What a call carries: the values its closure captured when it was started.
Call(kind, c, k) ==
    [kind |-> kind, state |-> "sent", answer |-> Lost, live |-> TRUE,
     visit |-> pay.visit, from |-> page, cart |-> k, items |-> c.items,
     coupon |-> c.coupon, discount |-> c.discount, version |-> 0,
     method |-> "none", shown |-> 0, suppressed |-> FALSE]

Started(call) == [calls EXCEPT ![CHOOSE s \in Free : \A t \in Free : s <= t] = call]

FreshPay(v, leaving) ==
    [visit |-> v, official |-> NoCart, loading |-> FALSE, isSubmitting |-> FALSE,
     submittingRef |-> FALSE, leaving |-> leaving, failed |-> FALSE, busy |-> FALSE]

Cleared(c) ==
    [c EXCEPT !.items = <<>>, !.cartId = 0, !.coupon = NoCoupon, !.discount = 0,
              !.sync = "idle"]

applyOfficialCart(o) ==
    [items |-> officialCartToLines(o.id, o.lines), cartId |-> o.id,
     coupon |-> o.coupon, discount |-> o.discount, sync |-> "ready"]

\* An edit of the ticket forgets the validated cart and keeps the coupon.
Edited(ls) == [ctx EXCEPT !.items = ls, !.cartId = 0, !.sync = "idle"]

\* The effects a new basket owes the pay page.
Touched == IF page = "pay" THEN {"match", "resolve"} ELSE {}

Click == due = {} /\ clicks < MaxClicks /\ clicks' = clicks + 1

StorefrontInit ==
    /\ ctx = [items |-> <<>>, cartId |-> 0, coupon |-> NoCoupon, discount |-> 0,
              sync |-> "idle"]
    /\ page = "menu" /\ pay = FreshPay(0, "no") /\ due = {}
    /\ calls = [s \in Slots |-> NoCall]
    /\ backup = NoCart /\ carts = <<>> /\ orders = {}
    /\ promo \in [state : {"active"}, tender : {"any", "cash"}, value : Savings]
    /\ price = [p \in Products |-> CHOOSE v \in Prices : \A w \in Prices : v <= w]
    /\ clicks = 0 /\ events = 0

EditTicket ==
    /\ Click /\ page = "menu"
    /\ \/ \E p \in Products, addon \in BOOLEAN :
             ctx' = Edited(addItem(ctx.items, p, addon, price[p]))
       \/ \E i \in DOMAIN ctx.items :
             LET l == ctx.items[i]
             IN  \/ ctx' = Edited(addItem(ctx.items, l.prod, l.addon,
                                          getCartLineBaseUnitPrice(l)))
                 \/ ctx' = Edited(decrementItem(ctx.items, l.id))
                 \/ ctx' = Edited(removeItem(ctx.items, l.id))
                 \/ l.addon /\ ctx' = Edited(removeAddonFromLine(ctx.items, l.id))
    /\ itemCount(ctx'.items) <= MaxUnits
    /\ UNCHANGED <<page, pay, due, calls, backup, carts, promo, price, orders, events>>

\* CartPanel.handleCheckout: validate, then go to the pay page.
Checkout ==
    /\ Click /\ page = "menu" /\ Free # {}
    /\ ctx.items # <<>> /\ ctx.sync # "syncing"
    /\ ctx' = [ctx EXCEPT !.sync = "syncing"]
    /\ calls' = Started(Call("checkout", ctx, 0))
    /\ UNCHANGED <<page, pay, due, backup, carts, promo, price, orders, events>>

\* The coupon field of the ticket has one call at a time.
PanelBusy ==
    \E s \in Slots : /\ calls[s] # NoCall /\ calls[s].from = "menu"
                     /\ calls[s].live
                     /\ calls[s].kind \in {"couponSync", "coupon", "uncoupon"}

PanelCoupon ==
    /\ Click /\ page = "menu" /\ Free # {} /\ ~PanelBusy
    /\ ctx.items # <<>> /\ ctx.sync # "syncing" /\ ctx.coupon = NoCoupon
    /\ IF ctx.cartId = 0
       THEN /\ ctx' = [ctx EXCEPT !.sync = "syncing"]
            /\ calls' = Started(Call("couponSync", ctx, 0))
       ELSE /\ UNCHANGED ctx
            /\ calls' = Started(Call("coupon", ctx, ctx.cartId))
    /\ UNCHANGED <<page, pay, due, backup, carts, promo, price, orders, events>>

PanelUncoupon ==
    /\ Click /\ page = "menu" /\ Free # {} /\ ~PanelBusy
    /\ ctx.items # <<>> /\ ctx.sync # "syncing" /\ ctx.coupon # NoCoupon
    /\ IF ctx.cartId = 0
       THEN /\ ctx' = [ctx EXCEPT !.coupon = NoCoupon, !.discount = 0]
            /\ UNCHANGED calls
       ELSE /\ UNCHANGED ctx
            /\ calls' = Started(Call("uncoupon", ctx, ctx.cartId))
    /\ UNCHANGED <<page, pay, due, backup, carts, promo, price, orders, events>>

\* The ticket holds the lines of the validated cart, in its order.
doesGlobalCartMatchOfficialCart(c, o) ==
    /\ c.cartId = o.id
    /\ Len(c.items) = Len(o.lines)
    /\ \A i \in DOMAIN c.items :
          /\ c.items[i].prod = o.lines[i].prod
          /\ c.items[i].qty = o.lines[i].qty
          /\ c.items[i].addon = o.lines[i].addon
          /\ c.items[i].price = o.lines[i].unit

\* resolveOfficialCart up to its first answer, with basket c in its closure and
\* basket applied in the context.  With every slot taken the calls are rejected
\* at once, as fetch may do.
Resolve(c, applied) ==
    LET starting == [pay EXCEPT !.loading = TRUE, !.failed = FALSE, !.busy = FALSE]
    IN  IF Free = {} /\ (c.cartId # 0 \/ c.items # <<>>)
        THEN /\ ctx' = [applied EXCEPT !.sync = "error"]
             /\ pay' = [pay EXCEPT !.official = NoCart, !.loading = FALSE,
                                   !.failed = TRUE]
             /\ UNCHANGED calls
        ELSE IF c.cartId # 0
        THEN /\ ctx' = applied
             /\ pay' = starting
             /\ calls' = Started(Call("get", c, c.cartId))
        ELSE IF c.items = <<>>
        THEN /\ ctx' = [applied EXCEPT !.cartId = 0, !.coupon = NoCoupon,
                                       !.discount = 0, !.sync = "idle"]
             /\ pay' = [pay EXCEPT !.official = NoCart, !.loading = FALSE,
                                   !.failed = TRUE]
             /\ UNCHANGED calls
        ELSE /\ ctx' = [applied EXCEPT !.sync = "syncing"]
             /\ pay' = starting
             /\ calls' = Started(Call("create", c, 0))

\* The two effects of the pay page, run in their order on one render.
PageEffects ==
    LET o == pay.official
        mismatch == "match" \in due /\ o # NoCart
                    /\ ~doesGlobalCartMatchOfficialCart(ctx, o)
        applied == IF mismatch THEN applyOfficialCart(o) ELSE ctx
    IN  /\ page = "pay" /\ due # {}
        /\ IF "resolve" \notin due
           THEN ctx' = applied /\ UNCHANGED <<pay, calls>>
           ELSE IF ctx.items = <<>> /\ ~pay.isSubmitting
           THEN /\ ctx' = applied
                /\ pay' = [pay EXCEPT !.official = NoCart, !.failed = TRUE]
                /\ UNCHANGED calls
           ELSE Resolve(ctx, applied)
        /\ due' = IF mismatch THEN {"match", "resolve"} ELSE {}
        /\ UNCHANGED <<page, backup, carts, promo, price, orders, clicks, events>>

RetryValidation ==
    /\ Click /\ page = "pay" /\ Free # {}
    /\ pay.failed /\ pay.official = NoCart /\ ~pay.loading /\ ctx.items # <<>>
    /\ Resolve(ctx, ctx)
    /\ UNCHANGED <<page, due, backup, carts, promo, price, orders, events>>

\* The coupon field of the pay page; it is new after every reload of the summary.
PayCoupon ==
    /\ Click /\ page = "pay" /\ Free # {}
    /\ pay.official # NoCart /\ ~pay.loading /\ ~pay.isSubmitting /\ ~pay.busy
    /\ LET kind == IF pay.official.coupon = NoCoupon THEN "coupon" ELSE "uncoupon"
       IN  calls' = Started(Call(kind, ctx, pay.official.id))
    /\ pay' = [pay EXCEPT !.busy = TRUE]
    /\ UNCHANGED <<ctx, page, due, backup, carts, promo, price, orders, events>>

\* computeDisplayTotals: a coupon for cash is not shown to who pays online.
Suppressed(o, method) == method = "mercadopago" /\ o.coupon = "cash"

DisplayTotal(o, method) ==
    CartSubtotal(o.lines) - (IF Suppressed(o, method) THEN 0 ELSE o.discount)

\* A bug handleSubmit could have: it trusts the disabled button alone.
SlipReentry == FALSE

Reentry == pay.submittingRef

\* handleSubmit; a second tap may come before React renders the first.
Submit(method) ==
    /\ clicks < MaxClicks /\ clicks' = clicks + 1
    /\ page = "pay" /\ Free # {} /\ due \subseteq {"render"}
    /\ pay.official # NoCart /\ ~pay.loading
    /\ "render" \in due \/ ~pay.isSubmitting
    /\ ~Reentry
    /\ LET o == pay.official
       IN  calls' = Started([Call("submit", ctx, o.id) EXCEPT
                               !.version = o.version, !.method = method,
                               !.shown = DisplayTotal(o, method),
                               !.suppressed = Suppressed(o, method)])
    /\ pay' = [pay EXCEPT !.submittingRef = TRUE, !.isSubmitting = TRUE]
    /\ due' = {"render"}
    /\ UNCHANGED <<ctx, page, backup, carts, promo, price, orders, events>>

----------------------------------------------------------------------------
(* Answers *)

Answered(s) == calls[s] # NoCall /\ calls[s].state = "answered"

Good(s) == calls[s].answer # Lost

\* The page instance that made the call is still the one on the screen.
OnPage(s) == page = "pay" /\ calls[s].visit = pay.visit

Freed(s) == [calls EXCEPT ![s] = NoCall]

\* Nobody waits for the answer any more.
Discard(s) ==
    /\ Answered(s) /\ ~calls[s].live
    /\ calls' = Freed(s)
    /\ UNCHANGED <<ctx, page, pay, due, backup, carts, promo, price, orders,
                   clicks, events>>

Receiving(s) ==
    /\ due = {} /\ Answered(s) /\ calls[s].live
    /\ UNCHANGED <<carts, promo, price, orders, clicks, events>>

\* syncCart called by the checkout button, and the way to the pay page.
CheckoutDone(s) ==
    /\ Receiving(s) /\ calls[s].kind = "checkout"
    /\ calls' = Freed(s)
    /\ IF Good(s)
       THEN /\ ctx' = applyOfficialCart(calls[s].answer)
            /\ page' = "pay"
            /\ pay' = IF page = "pay" THEN pay ELSE FreshPay(pay.visit + 1, pay.leaving)
            /\ due' = {"match", "resolve"}
       ELSE /\ ctx' = [ctx EXCEPT !.sync = "error"]
            /\ UNCHANGED <<page, pay, due>>
    /\ UNCHANGED backup

\* loadOfficialCart; when it fails the closure's basket is validated anew.
LoadDone(s) ==
    /\ Receiving(s) /\ calls[s].kind = "get"
    /\ IF Good(s)
       THEN /\ calls' = Freed(s)
            /\ IF OnPage(s)
               THEN /\ pay' = [pay EXCEPT !.official = calls[s].answer,
                                         !.loading = FALSE]
                    /\ due' = {"match"}
               ELSE UNCHANGED <<pay, due>>
            /\ UNCHANGED ctx
       ELSE /\ calls' = [calls EXCEPT ![s].kind = "create", ![s].state = "sent",
                                      ![s].answer = Lost]
            /\ ctx' = [ctx EXCEPT !.sync = "syncing"]
            /\ UNCHANGED <<pay, due>>
    /\ UNCHANGED <<page, backup>>

\* A bug of the resolve loop: a failure returns before the page stops loading.
SlipSyncDone(s) ==
    /\ Receiving(s) /\ calls[s].kind = "create"
    /\ calls' = Freed(s)
    /\ ctx' = IF Good(s) THEN applyOfficialCart(calls[s].answer)
              ELSE [ctx EXCEPT !.sync = "error"]
    /\ pay' = IF OnPage(s) /\ Good(s)
              THEN [pay EXCEPT !.official = calls[s].answer, !.loading = FALSE]
              ELSE pay
    /\ due' = IF Good(s) THEN Touched ELSE due
    /\ UNCHANGED <<page, backup>>

\* The rest of resolveOfficialCart: its finally block always runs.
SyncDone(s) ==
    /\ Receiving(s) /\ calls[s].kind = "create"
    /\ calls' = Freed(s)
    /\ ctx' = IF Good(s) THEN applyOfficialCart(calls[s].answer)
              ELSE [ctx EXCEPT !.sync = "error"]
    /\ pay' = IF OnPage(s)
              THEN [pay EXCEPT !.official = calls[s].answer, !.loading = FALSE,
                               !.failed = ~Good(s)]
              ELSE pay
    /\ due' = IF Good(s) THEN Touched ELSE due
    /\ UNCHANGED <<page, backup>>

\* applyDiscount of the context: validate the basket first, then the coupon.
CouponSyncDone(s) ==
    /\ Receiving(s) /\ calls[s].kind = "couponSync"
    /\ IF Good(s)
       THEN /\ ctx' = applyOfficialCart(calls[s].answer)
            /\ calls' = [calls EXCEPT ![s].kind = "coupon", ![s].state = "sent",
                                      ![s].cart = calls[s].answer.id,
                                      ![s].answer = Lost]
            /\ due' = Touched
       ELSE /\ ctx' = [ctx EXCEPT !.sync = "error"]
            /\ calls' = Freed(s)
            /\ UNCHANGED due
    /\ UNCHANGED <<page, pay, backup>>

CouponDone(s) ==
    /\ Receiving(s) /\ calls[s].kind \in {"coupon", "uncoupon"}
    /\ calls' = Freed(s)
    /\ IF Good(s)
       THEN /\ ctx' = applyOfficialCart(calls[s].answer)
            /\ due' = Touched
            /\ pay' = IF OnPage(s) /\ calls[s].from = "pay"
                      THEN [pay EXCEPT !.official = calls[s].answer, !.busy = FALSE]
                      ELSE pay
       ELSE /\ ctx' = IF calls[s].kind = "uncoupon" /\ calls[s].from = "menu"
                      THEN [ctx EXCEPT !.coupon = NoCoupon, !.discount = 0]
                      ELSE ctx
            /\ due' = IF ctx' # ctx /\ page = "pay" THEN {"resolve"} ELSE due
            /\ pay' = IF OnPage(s) THEN [pay EXCEPT !.busy = FALSE] ELSE pay
    /\ UNCHANGED <<page, backup>>

\* A cash order empties the basket and keeps a copy of it; either way the page
\* stays as it is until the browser has left it.
SubmitDone(s) ==
    /\ Receiving(s) /\ calls[s].kind = "submit"
    /\ calls' = Freed(s)
    /\ IF Good(s)
       THEN /\ pay' = [pay EXCEPT !.leaving = IF calls[s].method = "cash"
                                             THEN "status" ELSE "redirected"]
            /\ IF calls[s].method = "cash"
               THEN /\ backup' = [items |-> calls[s].items, coupon |-> calls[s].coupon,
                                  discount |-> calls[s].discount]
                    /\ ctx' = Cleared(ctx)
                    /\ due' = Touched
               ELSE UNCHANGED <<backup, ctx, due>>
       ELSE /\ pay' = IF OnPage(s)
                      THEN [pay EXCEPT !.submittingRef = FALSE, !.isSubmitting = FALSE]
                      ELSE pay
            /\ UNCHANGED <<ctx, due, backup>>
    /\ UNCHANGED page

----------------------------------------------------------------------------
(* Pages *)

Orphaned == [s \in Slots |-> IF calls[s] = NoCall THEN NoCall
                             ELSE [calls[s] EXCEPT !.live = FALSE]]

\* The browser arrives where the order sent it; the provider of the basket goes
\* with the page, its state stays in local storage.
Navigate ==
    /\ pay.leaving # "no"
    /\ page' = pay.leaving
    /\ pay' = FreshPay(pay.visit, "no")
    /\ due' = {} /\ calls' = Orphaned
    /\ ctx' = [ctx EXCEPT !.sync = "idle"]
    /\ UNCHANGED <<backup, carts, promo, price, orders, clicks, events>>

KeepShopping ==
    /\ Click /\ page = "pay"
    /\ page' = "menu"
    /\ UNCHANGED <<ctx, pay, due, calls, backup, carts, promo, price, orders, events>>

\* The page is loaded again: the basket comes back from local storage.
Reload ==
    /\ Click /\ page \in {"menu", "pay"} /\ Free # {}
    /\ ctx' = [ctx EXCEPT !.sync = "idle"]
    /\ pay' = FreshPay(pay.visit + 1, "no")
    /\ calls' = Orphaned
    /\ due' = Touched
    /\ UNCHANGED <<page, backup, carts, promo, price, orders, events>>

\* Back from Mercado Pago or from the order's page: the success page empties the
\* basket, the failure page does not, a cancelled order brings its basket back.
Return ==
    /\ Click /\ page \in {"redirected", "status"}
    /\ page' = "menu"
    /\ \/ ctx' = ctx /\ UNCHANGED backup
       \/ page = "redirected" /\ ctx' = Cleared(ctx) /\ UNCHANGED backup
       \/ /\ page = "status" /\ backup # NoCart
          /\ ctx' = [Cleared(ctx) EXCEPT !.items = backup.items,
                    !.coupon = backup.coupon, !.discount = backup.discount]
          /\ backup' = NoCart
    /\ UNCHANGED <<pay, due, calls, carts, promo, price, orders, events>>

Receive(s) ==
    \/ CheckoutDone(s) \/ LoadDone(s) \/ SyncDone(s) \/ CouponSyncDone(s)
    \/ CouponDone(s) \/ SubmitDone(s) \/ Discard(s)

Customer ==
    \/ EditTicket \/ Checkout \/ PanelCoupon \/ PanelUncoupon \/ RetryValidation
    \/ PayCoupon \/ KeepShopping \/ Reload \/ Return
    \/ \E method \in {"cash", "mercadopago"} : Submit(method)

StorefrontNext ==
    \/ Customer \/ PageEffects \/ Navigate
    \/ \E s \in Slots : ServeCall(s) \/ Receive(s) \/ Fail(s)
    \/ \E k \in DOMAIN carts : ExpireCart(k)
    \/ EditPromo
    \/ \E p \in Products, v \in Prices : Reprice(p, v)

\* The server answers, React runs its effects, the browser follows a redirect.
Fairness ==
    /\ WF_storeVars(PageEffects) /\ WF_storeVars(Navigate)
    /\ \A s \in Slots : WF_storeVars(ServeCall(s)) /\ WF_storeVars(Receive(s))

StorefrontSpec == StorefrontInit /\ [][StorefrontNext]_storeVars /\ Fairness

----------------------------------------------------------------------------
(* Properties *)

\* The shapes of the browser's and the server's state.
StorefrontTypeOK ==
    /\ page \in {"menu", "pay", "status", "redirected"}
    /\ ctx.sync \in {"idle", "syncing", "ready", "error"}
    /\ ctx.cartId \in 0..Len(carts)
    /\ \A i \in DOMAIN ctx.items : ctx.items[i].qty \in 1..(2 * MaxUnits)
    /\ due \subseteq {"match", "resolve", "render"}
    /\ pay.official # NoCart => pay.official.id \in DOMAIN carts
    /\ Len(carts) <= MaxCarts
    /\ \A k \in DOMAIN carts : carts[k].discount <= CartSubtotal(carts[k].lines)

\* What the server charges (createFromCartSnapshot, the payment preference) is
\* the total the pay page showed when the customer confirmed, whatever coupons,
\* prices and other calls did meanwhile; the one difference left is in the
\* customer's favour: a coupon for cash, hidden from who pays online, that the
\* owner opened to every tender in between.
PaysWhatWasShown ==
    \A o \in orders : \/ o.charged = o.shown
                      \/ o.suppressed /\ o.charged < o.shown

\* One visit of the pay page waits for at most one order or payment session,
\* however often the button is tapped (the comment on submittingRef).
OneSubmitPerVisit ==
    \A s, t \in Slots :
        /\ calls[s].kind = "submit" /\ calls[t].kind = "submit"
        /\ calls[s].visit = calls[t].visit
        => s = t

\* Validating the basket the customer is looking at changes neither how many
\* units it holds nor what it costs: what the ticket added up to is the subtotal
\* of the server's cart, although the ticket charges add-ons once per line and
\* the server once per unit (the split in cartLinesToSnapshots).
TicketSurvivesValidation ==
    [][\A s \in Slots :
          /\ Receive(s)
          /\ calls[s].kind \in {"checkout", "create", "couponSync"}
          /\ calls[s].live /\ Good(s) /\ calls[s].items = ctx.items
          => /\ itemCount(ctx'.items) = itemCount(ctx.items)
             /\ CartSubtotal(calls[s].answer.lines) = subtotal(ctx.items)]_storeVars

\* The page never stays busy: loading, syncing and submitting end, with an
\* answer or without (the finally block, the catch blocks, the redirect).
CheckoutNeverStuck ==
    /\ (page = "pay" /\ pay.loading) ~> ~(page = "pay" /\ pay.loading)
    /\ (ctx.sync = "syncing") ~> (ctx.sync # "syncing")
    /\ (page = "pay" /\ pay.isSubmitting) ~> ~(page = "pay" /\ pay.isSubmitting)

\* The carts on the server and in the browser are sound, and a visit waits for one
\* submission only.
VisitsAgree == StorefrontTypeOK /\ OneSubmitPerVisit
=============================================================================
