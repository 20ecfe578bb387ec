------------------------------- MODULE MCTill -------------------------------
(* Till for TLC: a day has eight points and two weekdays open in different ways. *)
EXTENDS Till, TLC

Unset == [set |-> FALSE, ranges |-> [d \in 0 .. 6 |-> {}]]
Split == [set |-> TRUE, ranges |-> [d \in 0 .. 6 |-> IF d = 0 THEN {<<2, 4>>, <<6, 7>>} ELSE {<<0, 3>>}]]
Shut == [set |-> TRUE, ranges |-> [d \in 0 .. 6 |-> {}]]
Calendar == {Unset, Split, Shut}
Interchangeable == Permutations(Orders) \union Permutations(Shifts) \union Permutations(Workers)
=============================================================================
