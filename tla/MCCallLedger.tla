---------------------------- MODULE MCCallLedger ----------------------------
(* CallLedger with every turn from one contact. *)
EXTENDS CallLedger

MCContactOf == [t \in Turn |-> CHOOSE k \in Contact : TRUE]
=============================================================================
