----------------------------- MODULE MCBusiness -----------------------------
(* Business with two people and two requests at a time, for TLC. *)
EXTENDS Business, TLC

SlotSymmetry == Permutations(Slots)

============================================================================
