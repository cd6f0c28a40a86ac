------------------------- MODULE MCDirectDelivery -------------------------
(* DirectDelivery with WhatsApp preferred to Telegram. *)
EXTENDS DirectDelivery, TLC

MCPreference == <<"whatsapp", "telegram">>
Symmetry == Permutations(Sender) \cup Permutations(Reconciler)
=============================================================================
