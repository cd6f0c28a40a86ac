---------------------------- MODULE TurnDelivery ----------------------------
(***************************************************************************)
(* The turn as a whole: InboundBatch decides which runs may answer a batch *)
(* and BotpressDelivery how the answer leaves.  They meet in the commit,   *)
(* which records the decision and leases the parts of the reply in one     *)
(* transaction, and in the runs, which deliver once their commit answered. *)
(* The reply to one batch of the conversation, Turn, is followed.          *)
(***************************************************************************)
EXTENDS BotpressDelivery

CONSTANTS
    Message, Payload, Silent, Window, HardDeadline, Lease,
    MaxClaimTries, MaxClaimAttempts, CanFail,    \* of InboundBatch
    Turn

VARIABLES seq, member, batch, decision, wf

\* The runs that compete for a batch are the senders of its reply.
Batches == INSTANCE InboundBatch WITH Workflow <- Sender

ASSUME TurnAssumption == Turn \in Message /\ Batches!ConstantsAssumption

batches == <<seq, member, batch, decision, wf>>
tvars == <<batches, vars>>

TurnInit == Batches!Init /\ Init

\* One clock for both.
TurnTick ==
    LET ages == \E p \in Part : Ages(row[p]) IN
    /\ Batches!Running \/ ages
    /\ IF Batches!Running THEN Batches!Tick ELSE UNCHANGED batches
    /\ IF ages THEN Tick ELSE UNCHANGED vars

-----------------------------------------------------------------------------
(* The commit, for the batches and for the reply at once. *)

AnswersTurn(w) == wf[w].batch = Turn

\* A mistake: the parts of a superseded decision are leased all the same.
CommitAlways(w, p) ==
    /\ Batches!CommitNew(w, p)
    /\ IF AnswersTurn(w) THEN Commit(w) ELSE UNCHANGED vars

TurnCommit(w, p) ==
    /\ Batches!CommitNew(w, p)
    /\ IF AnswersTurn(w) /\ decision'[Turn].kind = "reply" THEN Commit(w)
       ELSE UNCHANGED vars

\* The same decision once more: the parts with the status they have by now.
TurnReplay(w, p) ==
    /\ Batches!CommitAgain(w, p)
    /\ IF /\ AnswersTurn(w) /\ decision[Turn].kind = "reply"
          /\ wf'[w].pc = "closing"
       THEN Replay(w)
       ELSE UNCHANGED vars

\* A mistake: the run of a message that was answered takes up the delivery.
ResumeExisting(w) ==
    \/ /\ wf[w].pc = "ingested" /\ AnswersTurn(w)
       /\ decision[wf[w].msg].kind = "reply"
       /\ wf' = [wf EXCEPT ![w].pc = "sending"]
       /\ UNCHANGED <<seq, member, batch, decision>>
       /\ Replay(w)
    \/ Batches!ReadExisting(w) /\ UNCHANGED vars

\* The run of a message that was answered stops, even when the delivery of the
\* answer is unresolved.
ReadExisting(w) == Batches!ReadExisting(w) /\ UNCHANGED vars

\* The other steps of a run on its way to the commit and back.
Prepares(w) ==
    /\ \/ \E m \in Message : Batches!Ingest(w, m)
       \/ Batches!ClaimWins(w) \/ Batches!ClaimTooEarly(w) \/ Batches!ClaimLoses(w)
       \/ Batches!Close(w) \/ Batches!CloseFails(w) \/ Batches!Crash(w)
    /\ UNCHANGED vars

\* A run delivers after the commit answered it.  When the answer is lost the HTTP
\* client commits once more, and the run gets the parts as they are by then.
Deliver(w) ==
    /\ wf[w].pc = "sending" /\ AnswersTurn(w)
    /\ RunStep(w) \/ AnswerLost(w) \/ Replay(w)
    /\ UNCHANGED batches

\* The backend handles reports, the cron reconciles deliveries and claims.
Backend ==
    \/ Handle /\ UNCHANGED batches
    \/ (\E c \in Reconciler : Reconcile(c)) /\ UNCHANGED batches
    \/ (\E b \in Message : Batches!ExpireClaim(b)) /\ UNCHANGED vars

TurnNext ==
    \/ TurnTick
    \/ \E w \in Sender :
          \/ \E p \in Payload : TurnCommit(w, p) \/ TurnReplay(w, p)
          \/ ReadExisting(w) \/ Prepares(w) \/ Deliver(w)
    \/ Backend

TurnSpec == TurnInit /\ [][TurnNext]_tvars

-----------------------------------------------------------------------------
(* What must hold. *)

\* Decision and reply agree at every moment, whichever of the runs that held the
\* batch committed or delivers: a decision that was silent or gave way to a newer
\* message leaves nothing to be sent, replayed or reconciled, and a reply that was
\* decided is never without its parts.
OnlyRepliesAreSent ==
    \A p \in Part :
        /\ row[p].state # "absent" <=> decision[Turn].kind = "reply"
        /\ sent[p] # {} => decision[Turn].kind = "reply"

\* A copy of a part costs a claim of the batch: redelivered messages, repeated
\* commits and the reconcilers add none.
CopiesPerClaim ==
    \A p \in Part : copies[p] <= batch[Turn].attempts

=============================================================================
