------------------------------ MODULE CartLines ------------------------------
(***************************************************************************)
(* The lines of the storefront's basket (cart.context.tsx): how the menu   *)
(* and the ticket edit them, how they are sent to the server and how the   *)
(* server's validated cart becomes lines again.  A line is a product, a    *)
(* quantity and at most one paid add-on; price is the unit price the       *)
(* browser holds, add-on included.  The add-on is charged once per line    *)
(* in the browser and once per unit by the server.                         *)
(***************************************************************************)
EXTENDS Naturals, Sequences, SequencesExt

CONSTANTS Products,     \* catalogue items, small naturals
          AddonPrice    \* price of the paid add-on

ASSUME CartLinesAssumption == Products \subseteq Nat /\ AddonPrice \in Nat \ {0}

\* A line's identity before the server has named it: product and add-ons.
cartLineId(p, addon) == <<0, 2 * p + (IF addon THEN 1 ELSE 0)>>

getCartLineOptionsDelta(l) == IF l.addon THEN AddonPrice ELSE 0

getCartLineBaseUnitPrice(l) ==
    IF l.addon /\ l.price > AddonPrice THEN l.price - AddonPrice ELSE l.price

getCartLineSubtotal(l) ==
    getCartLineBaseUnitPrice(l) * l.qty + getCartLineOptionsDelta(l)

subtotal(ls) == FoldLeft(LAMBDA sum, l : sum + getCartLineSubtotal(l), 0, ls)

itemCount(ls) == FoldLeft(LAMBDA sum, l : sum + l.qty, 0, ls)

NewLine(p, addon, base) ==
    [id |-> cartLineId(p, addon), prod |-> p, qty |-> 1, addon |-> addon,
     price |-> base + (IF addon THEN AddonPrice ELSE 0)]

\* Every line with the signature of the added item grows by one unit.
addItem(ls, p, addon, base) ==
    LET id == cartLineId(p, addon)
    IN  IF \E i \in DOMAIN ls : ls[i].id = id
        THEN [i \in DOMAIN ls |->
                 IF ls[i].id = id
                 THEN [NewLine(p, addon, base) EXCEPT !.qty = ls[i].qty + 1]
                 ELSE ls[i]]
        ELSE Append(ls, NewLine(p, addon, base))

First(S) == IF S = {} THEN 0 ELSE CHOOSE i \in S : \A j \in S : i <= j

\* The line with that id, else the first line of the product so named.
TargetIndex(ls, key) ==
    LET exact == {i \in DOMAIN ls : ls[i].id = key}
    IN  First(IF exact # {} THEN exact
              ELSE {i \in DOMAIN ls : cartLineId(ls[i].prod, FALSE) = key})

\* Another line of the same product without add-ons.
Sibling(ls, t) ==
    First({i \in DOMAIN ls \ {t} : ls[i].prod = ls[t].prod /\ ~ls[i].addon})

\* The add-on of line t moves to the plain line s, and t goes.
TransferAddon(ls, t, s) ==
    RemoveAt([ls EXCEPT ![s].addon = TRUE,
                        ![s].price = ls[t].price,
                        ![s].id = cartLineId(ls[t].prod, TRUE)], t)

decrementItem(ls, key) ==
    LET t == TargetIndex(ls, key)
    IN  IF t = 0 THEN ls
        ELSE IF ls[t].qty = 1 /\ ls[t].addon /\ Sibling(ls, t) # 0
             THEN TransferAddon(ls, t, Sibling(ls, t))
        ELSE IF ls[t].qty = 1 THEN RemoveAt(ls, t)
        ELSE [ls EXCEPT ![t].qty = @ - 1]

removeItem(ls, key) ==
    LET t == TargetIndex(ls, key)
    IN  IF t = 0 THEN ls
        ELSE IF ls[t].addon /\ Sibling(ls, t) # 0
             THEN TransferAddon(ls, t, Sibling(ls, t))
        ELSE RemoveAt(ls, t)

removeAddonFromLine(ls, key) ==
    [i \in DOMAIN ls |->
        IF ls[i].id = key /\ ls[i].addon
        THEN [ls[i] EXCEPT !.addon = FALSE,
                           !.price = getCartLineBaseUnitPrice(ls[i]),
                           !.id = cartLineId(ls[i].prod, FALSE)]
        ELSE ls[i]]

\* A bug a port of Snapshot could have: the line is sent as it is.
SlipSnapshot(l) ==
    <<[prod |-> l.prod, qty |-> l.qty, addon |-> l.addon,
       confirmed |-> getCartLineBaseUnitPrice(l)]>>

\* The request of one line: a line with an add-on and several units is sent as
\* one unit with the add-on and the rest without.
Snapshot(l) ==
    LET sent(qty, addon) ==
            [prod |-> l.prod, qty |-> qty, addon |-> addon,
             confirmed |-> getCartLineBaseUnitPrice(l)]
    IN  IF l.addon /\ l.qty > 1
        THEN <<sent(1, TRUE), sent(l.qty - 1, FALSE)>>
        ELSE <<sent(l.qty, l.addon)>>

cartLinesToSnapshots(ls) ==
    FoldLeft(LAMBDA sent, l : sent \o Snapshot(l), <<>>, ls)

\* The lines of validated cart k, with the ids and the unit prices the server
\* gave them.
officialCartToLines(k, lines) ==
    [i \in DOMAIN lines |->
        [id |-> <<k, i>>, prod |-> lines[i].prod, qty |-> lines[i].qty,
         addon |-> lines[i].addon, price |-> lines[i].unit]]

=============================================================================
