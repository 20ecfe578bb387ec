----------------------------- MODULE MCCheckout -----------------------------
(* Small instances of Checkout for TLC. *)
EXTENDS Checkout, TLC

Interchangeable == Permutations(Worker) \cup Permutations(Attempt) \cup Permutations(Payment)
=============================================================================
