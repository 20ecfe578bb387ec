----------------------------- MODULE TillLedger -----------------------------
(***************************************************************************)
(* What the counter promises about the cash of each order, as one atomic   *)
(* ledger: money is owed, then held in the drawer or waived, and what is   *)
(* held can be given back once.  No step collects an order that was        *)
(* waived, waives one that was collected, or pays one out twice.           *)
(***************************************************************************)
EXTENDS Integers

CONSTANT Order

VARIABLES
  money,    \* what became of the order's price
  drawer    \* cash in the drawer for the order, in units of its price

Money == {"absent", "owed", "held", "returned", "waived"}

\* Every order has one state of its money and a count of its cash.
TypeOK ==
  /\ money \in [Order -> Money]
  /\ drawer \in [Order -> Int]

Init ==
  /\ money = [o \in Order |-> "absent"]
  /\ drawer = [o \in Order |-> 0]

Move(o, from, to, delta) ==
  /\ money[o] = from
  /\ money' = [money EXCEPT ![o] = to]
  /\ drawer' = [drawer EXCEPT ![o] = @ + delta]

Owe(o)     == Move(o, "absent", "owed", 0)
Sell(o)    == Move(o, "absent", "held", 1)
Collect(o) == Move(o, "owed", "held", 1)
Waive(o)   == Move(o, "owed", "waived", 0)
Return(o)  == Move(o, "held", "returned", -1)

Next == \E o \in Order : Owe(o) \/ Sell(o) \/ Collect(o) \/ Waive(o) \/ Return(o)

Spec == Init /\ [][Next]_<<money, drawer>>
=============================================================================
