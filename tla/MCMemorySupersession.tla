------------------------ MODULE MCMemorySupersession ------------------------
(* MemorySupersession with two memories of one slot and one of another. *)
EXTENDS MemorySupersession, TLC

CONSTANTS goal, course, timeline

MCMemory == {goal, course, timeline}
MCSlot == goal :> 1 @@ course :> 1 @@ timeline :> 2
=============================================================================
