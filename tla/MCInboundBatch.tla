--------------------------- MODULE MCInboundBatch ---------------------------
(* Small instances of InboundBatch.  Messages and runs are interchangeable. *)
EXTENDS InboundBatch, TLC

Symmetry == Permutations(Message) \cup Permutations(Workflow)
=============================================================================
