------------------------ MODULE MCBotpressDelivery ------------------------
(* BotpressDelivery with its senders and reconcilers as model values. *)
EXTENDS BotpressDelivery, TLC

Symmetry == Permutations(Sender) \cup Permutations(Reconciler)
=============================================================================
