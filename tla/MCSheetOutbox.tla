--------------------------- MODULE MCSheetOutbox ---------------------------
(* SheetOutbox with a contact's first message, a turn of agent A, and the   *)
(* call it led to, whose agent B corrects itself.                           *)
EXTENDS SheetOutbox, TLC

CONSTANTS inbound, turn, call, correction, name, plan

MCSource == {inbound, turn, call, correction}
MCField == {name, plan}
MCGives == inbound :> {name} @@ turn :> {plan}
           @@ call :> {name, plan} @@ correction :> {name}
MCOrderOf == inbound :> 0 @@ turn :> 2 @@ call :> 3 @@ correction :> 3
MCKeyOf == inbound :> None @@ turn :> "turn"
           @@ call :> "call" @@ correction :> "call"
MCWorkerOf == [f \in Flush |-> f]
=============================================================================
