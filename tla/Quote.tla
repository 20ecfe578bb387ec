------------------------------- MODULE Quote -------------------------------
(***************************************************************************)
(* What Mercado Pago is asked to charge for a cart.  The provider takes    *)
(* lines with a unit price and no discount, so a discounted cart has its   *)
(* discount spread over the lines, in cents, and a line of several units   *)
(* is split into units that differ by a cent.                              *)
(*                                                                         *)
(* A line is a unit price in cents and a quantity.  The share of a line is *)
(* the rounding of a quotient of doubles: a share that ends in half a cent *)
(* may go either way, and up names the lines where it goes up.             *)
(***************************************************************************)
EXTENDS Integers, Sequences, FiniteSetsExt, Functions

SumOf(s) == FoldFunction(+, 0, s)

lineTotal(line) == line.unit * line.qty
Subtotal(lines) == SumOf([i \in DOMAIN lines |-> lineTotal(lines[i])])

\* Math.round of a / b
Round(a, b, up) ==
    a \div b + (IF 2 * (a % b) > b \/ (2 * (a % b) = b /\ up) THEN 1 ELSE 0)

Clamp(x, line) == Min({lineTotal(line), Max({0, x})})

\* Slip: the last line is rounded like the others.
SlipShare(lines, discount, up, i, allocated) ==
    Round(lineTotal(lines[i]) * discount, Max({1, Subtotal(lines)}), i \in up)

\* A line's part of the discount: rounded, except that the last line takes what
\* the others have left.
Share(lines, discount, up, i, allocated) ==
    IF i = Len(lines) THEN discount - allocated
    ELSE Round(lineTotal(lines[i]) * discount, Max({1, Subtotal(lines)}), i \in up)

\* lineTotalCents - lineDiscountCents of each line.
discountedLineTotals(lines, discount, up) ==
    LET allocated[i \in 0 .. Len(lines)] ==
            IF i = 0 THEN 0
            ELSE allocated[i - 1]
                   + Clamp(Share(lines, discount, up, i, allocated[i - 1]), lines[i])
    IN  [i \in DOMAIN lines |-> lineTotal(lines[i]) - (allocated[i] - allocated[i - 1])]

\* The unit prices of a line whose units cost cents together.
Units(cents, qty) ==
    [q \in 1 .. qty |-> cents \div qty + (IF q <= cents % qty THEN 1 ELSE 0)]

\* The sum of buildMercadoPagoPreferenceItems.
Asked(lines, discount, up) ==
    IF discount = 0 THEN Subtotal(lines)
    ELSE LET totals == discountedLineTotals(lines, discount, up)
         IN  SumOf([i \in DOMAIN lines |-> SumOf(Units(totals[i], lines[i].qty))])

\* The last line's own share of the discount, and what it would be left with, both
\* cover the half cents that rounding may lose on each of the others.
LastHasRoom(lines, discount) ==
    LET last == lineTotal(lines[Len(lines)])
        rest == Subtotal(lines) - discount
    IN  \A part \in {last * discount, last * rest} :
            2 * part >= (Len(lines) - 1) * Subtotal(lines)

\* How far the provider's charge is from the total the cart was priced at.
Gap(lines, discount, up) ==
    LET d == Asked(lines, discount, up) - (Subtotal(lines) - discount)
    IN  IF d < 0 THEN -d ELSE d
=============================================================================
