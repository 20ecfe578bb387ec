-------------------------- MODULE MCPaymentSession --------------------------
(* PaymentSession for TLC: requests, keys, carts and bodies are interchangeable. *)
EXTENDS PaymentSession, TLC

SmallLines == [unit : {0, 1, 3}, qty : {1, 2}]
Interchangeable == Permutations(Worker) \union Permutations(Key)
                   \union Permutations(Cart) \union Permutations(Body)
=============================================================================
