----------------------------- MODULE MCPaymentLinks -----------------------------
(* PaymentLinks on small instances. *)
EXTENDS PaymentLinks, TLC

(* The handlers of actions are interchangeable. *)
RequestSymmetry == Permutations(Request)
================================================================================
