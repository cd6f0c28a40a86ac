-------------------------- MODULE MCPaymentLedger --------------------------
(* PaymentLedger with its creators, and its deliveries, interchangeable. *)
EXTENDS PaymentLedger, TLC

Symmetry == Permutations(Creator) \cup Permutations(Delivery)
=============================================================================
