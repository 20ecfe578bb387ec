---------------------------- MODULE MCPrintQueue ----------------------------
(* PrintQueue for TLC: the constants are sets of model values, given in the cfg. *)
EXTENDS PrintQueue
=============================================================================
