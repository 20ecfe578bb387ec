------------------------------ MODULE MCOrders ------------------------------
(* Orders for TLC: the constants are sets of model values, given in the cfg. *)
EXTENDS Orders
=============================================================================
