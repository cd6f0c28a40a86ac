-------------------------- MODULE ConversationState --------------------------
(* The row of conversation_sales_context_states_v1 of one conversation and the
   writers of the agent loop: commitAgentTurnV3, which writes what a decision
   settles at once and leaves on the delivery what only a seen reply may
   change, and the delivery report, which writes the rest when the channel has
   accepted the reply.  These name the version they were computed on.  A voice
   call of the conversation writes too, and names none: the tool that sends a
   payment link records the selection when the message has gone.

   Several runs may work on one turn; a turn has one decision.  The fields of a
   patch are represented by which turn set them last, the reply's text and the
   preparations it renders are left out, and so is everything the delivery
   goes through besides its reports (BotpressDelivery has it).

   Source: src/src/features/conversation/application/commit-agent-turn-v3.ts,
   src/agent-core/src/domain/state-patch.ts,
   src/src/features/conversation/domain/technical-fallback.ts,
   src/src/features/conversation/domain/integrity-check-v3.ts, the report of
   a submission in src/src/lib/services/decision.service.ts and
   src/src/features/calls/adapters/postgres-retell-orchestration-store.ts.     *)
EXTENDS Integers, FiniteSets, FiniteSetsExt

CONSTANTS
    Turn,       \* inbound turns of the conversation
    Call,       \* its voice calls in which a payment link is asked for
    MaxDrafts,  \* bound: decisions the loop reaches for one turn
    None

ASSUME ConversationAssumption ==
    /\ IsFiniteSet(Turn)
    /\ MaxDrafts \in Nat \ {0}
    /\ None \notin Turn \cup Call
    /\ Turn \cap Call = {}

VARIABLES
    row,       \* the conversation's state
    history,   \* conversation_sales_context_state_events_v1
    drafts,    \* Turn -> what the runs of the loop want to commit
    decision,  \* Turn -> agent_decisions
    delivery,  \* Turn -> outbound_deliveries with its deferred columns
    sent,      \* Turn -> Botpress created the reply
    refused,   \* Turn -> a true report of the reply was turned away
    linked     \* the calls whose payment link the channel took

vars == <<row, history, drafts, decision, delivery, sent, refused, linked>>

-----------------------------------------------------------------------------

\* FIELD_DESTINATIONS: what a decision settles by itself, and what depends on
\* the customer being shown the reply.
Immediate == {"plan"}
Deferred == {"awaiting", "offer"}
Field == Immediate \cup Deferred

Patch == [base : Nat, fields : SUBSET Field]
NoPatch == [base |-> 0, fields |-> {}]

Fallback == [kind |-> "fallback", base |-> 0, fields |-> {}]
Reply(base, fields) == [kind |-> "reply", base |-> base, fields |-> fields]
NoDecision == [kind |-> "none", base |-> 0, fields |-> {}]
Draft == [kind : {"reply", "fallback"}, base : Nat, fields : SUBSET Field]

Writer == Turn \cup Call

Row == [version : Nat \ {0}, by : [Field -> Writer \cup {None}], offers : 0..2,
        fallbacks : 0..2, review : Turn \cup {None}]

\* The event of a call's link has no turn in the code; here it has the call.
Event == [version : Nat, turn : Writer, write : {"reply", "fallback", "accepted", "link"},
          row : Row]

Delivery == [state : {"none", "leased", "failed_retryable", "submitted"},
             patch : Patch, applied : BOOLEAN]

NoDelivery == [state |-> "none", patch |-> NoPatch, applied |-> FALSE]

TypeOK ==
    /\ row \in Row
    /\ history \subseteq Event
    /\ drafts \in [Turn -> SUBSET Draft]
    /\ decision \in [Turn -> Draft \cup {NoDecision}]
    /\ delivery \in [Turn -> Delivery]
    /\ sent \in [Turn -> BOOLEAN]
    /\ refused \in [Turn -> BOOLEAN]
    /\ linked \in SUBSET Call

Init ==
    /\ row = [version |-> 1, by |-> [f \in Field |-> None], offers |-> 0,
              fallbacks |-> 0, review |-> None]
    /\ history = {}
    /\ drafts = [t \in Turn |-> {}]
    /\ decision = [t \in Turn |-> NoDecision]
    /\ delivery = [t \in Turn |-> NoDelivery]
    /\ sent = [t \in Turn |-> FALSE]
    /\ refused = [t \in Turn |-> FALSE]
    /\ linked = {}

-----------------------------------------------------------------------------
(* applyStatePatch and recordTechnicalFallbackV1. *)

\* The UPDATE: each field of the patch is the turn's now.
Patched(r, t, fields, fallbacks) ==
    [r EXCEPT !.version = @ + 1,
              !.by = [f \in Field |-> IF f \in fields THEN t ELSE @[f]],
              !.offers = IF "offer" \in fields /\ @ < 2 THEN @ + 1 ELSE @,
              !.fallbacks = fallbacks]

\* What if a reply that sets nothing did not end the row of fallbacks?
AppliesIfEffective(r, fields) == fields # {}

\* A decision's patch with no effective field writes nothing, unless there are
\* fallbacks to forget.
Applies(r, fields) == fields # {} \/ r.fallbacks > 0

\* The technical turn touches the count, saturated at two, and asks for a
\* review once per conversation.
FellBack(r, t) ==
    [r EXCEPT !.version = @ + 1,
              !.fallbacks = IF @ = 0 THEN 1 ELSE 2,
              !.review = IF r.fallbacks > 0 /\ @ = None THEN t ELSE @]

\* What if the index of 20260827020001, one event for a turn, were still there?
RecordedOncePerTurn(t, write, r) ==
    IF \E e \in history : e.version = r.version \/ e.turn = t THEN history
    ELSE history \cup {[version |-> r.version, turn |-> t, write |-> write, row |-> r]}

\* INSERT ... ON CONFLICT DO NOTHING of the state just written: one event for a
\* version.
Recorded(t, write, r) ==
    IF \E e \in history : e.version = r.version THEN history
    ELSE history \cup {[version |-> r.version, turn |-> t, write |-> write, row |-> r]}

-----------------------------------------------------------------------------
(* The agent loop. *)

\* What if an offer were counted when it is written, not when it is accepted?
AtOnceWithOffers(fields) == fields \cap (Immediate \cup {"offer"})

\* splitStatePatchV3: what the commit writes, and what it leaves to the report.
AtOnce(fields) == fields \cap Immediate
OnAcceptance(fields) == fields \cap Deferred

\* The loop reads the state and reaches a decision, or gives up.  A second run
\* of the turn, or a new attempt after a rejection, reaches its own.
Think(t) ==
    /\ decision[t] = NoDecision
    /\ Cardinality(drafts[t]) < MaxDrafts
    /\ \E d \in {Reply(row.version, fs) : fs \in SUBSET Field} \cup {Fallback} :
          drafts' = [drafts EXCEPT ![t] = @ \cup {d}]
    /\ UNCHANGED <<row, history, decision, delivery, sent, refused, linked>>

\* checkAgentTurnIntegrityV3 and applyStatePatch turn away a decision taken on
\* another version of the state.
Current(d) == d.base = row.version

\* What if the deferred patch kept the version the decision was taken on?
StoredAsDecided(d, version) == [base |-> d.base, fields |-> OnAcceptance(d.fields)]

\* storedDeferred: the rest is meant for the state as this commit leaves it.
Stored(d, version) == [base |-> version, fields |-> OnAcceptance(d.fields)]

\* The transaction of an accepted decision.  The turn has none yet: the same
\* payload again is answered with the decision on record and another is a
\* conflict, neither of which changes anything, so drafts are kept no longer.
CommitReply(t) ==
    /\ decision[t] = NoDecision
    /\ \E d \in drafts[t] :
          /\ d.kind = "reply"
          /\ Current(d)
          /\ decision' = [decision EXCEPT ![t] = d]
          /\ LET writes == Applies(row, AtOnce(d.fields))
                 new == IF writes
                        THEN Patched(row, t, AtOnce(d.fields), 0)
                        ELSE row IN
             /\ row' = new
             /\ history' = IF writes THEN Recorded(t, "reply", new) ELSE history
             /\ delivery' = [delivery EXCEPT ![t] =
                    [state |-> "leased", patch |-> Stored(d, new.version), applied |-> FALSE]]
    /\ drafts' = [drafts EXCEPT ![t] = {}]
    /\ UNCHANGED <<sent, refused, linked>>

\* The transaction of a turn the loop gave up on: nothing commercial changes,
\* now or on acceptance.
CommitFallback(t) ==
    /\ decision[t] = NoDecision
    /\ Fallback \in drafts[t]
    /\ decision' = [decision EXCEPT ![t] = Fallback]
    /\ row' = FellBack(row, t)
    /\ history' = Recorded(t, "fallback", row')
    /\ delivery' = [delivery EXCEPT ![t] =
           [state |-> "leased", patch |-> NoPatch, applied |-> FALSE]]
    /\ drafts' = [drafts EXCEPT ![t] = {}]
    /\ UNCHANGED <<sent, refused, linked>>

-----------------------------------------------------------------------------
(* The channel and its reports. *)

\* Botpress creates the message of a committed reply.
Send(t) ==
    /\ delivery[t].state # "none"
    /\ ~ sent[t]
    /\ sent' = [sent EXCEPT ![t] = TRUE]
    /\ UNCHANGED <<row, history, drafts, decision, delivery, refused, linked>>

\* The delivery is still waiting for a submission; a repeated report finds its
\* predecessor on record and changes nothing.
Awaits(t) == delivery[t].state \in {"leased", "failed_retryable"}

\* applyAcceptedOutboundStatePatchV3 has something to write.
Owed(t) == ~ delivery[t].applied /\ delivery[t].patch.fields # {}

\* The report of an accepted reply: the delivery and the deferred patch in one
\* transaction, with the lead that SheetOutbox takes up.
ReportSubmitted(t) ==
    /\ sent[t]
    /\ Awaits(t)
    /\ Owed(t) => Current(delivery[t].patch)
    /\ delivery' = [delivery EXCEPT ![t] =
           [state |-> "submitted", patch |-> @.patch, applied |-> Owed(t)]]
    /\ row' = IF Owed(t) THEN Patched(row, t, delivery[t].patch.fields, row.fallbacks) ELSE row
    /\ history' = IF Owed(t) THEN Recorded(t, "accepted", row') ELSE history
    /\ UNCHANGED <<drafts, decision, sent, refused, linked>>

\* The state has moved on since the commit: STATE_VERSION_CONFLICT takes the
\* whole transaction with it, the record of the submission included.
ReportRefused(t) ==
    /\ sent[t]
    /\ Awaits(t)
    /\ Owed(t)
    /\ ~ Current(delivery[t].patch)
    /\ refused' = [refused EXCEPT ![t] = TRUE]
    /\ UNCHANGED <<row, history, drafts, decision, delivery, sent, linked>>

\* The report of a failed call of Botpress, which may have created the message
\* all the same.
ReportFailed(t) ==
    /\ delivery[t].state = "leased"
    /\ delivery' = [delivery EXCEPT ![t].state = "failed_retryable"]
    /\ UNCHANGED <<row, history, drafts, decision, sent, refused, linked>>

-----------------------------------------------------------------------------
(* The tool enviar_link_pago of a voice call: requestAgentAPaymentLink. *)

\* sendOutbound of the call's one key (DirectDelivery): the channel took it.
SendLink(c) ==
    /\ c \notin linked
    /\ linked' = linked \cup {c}
    /\ UNCHANGED <<row, history, drafts, decision, delivery, sent, refused>>

\* What a sent link settles: the plan, and that a payment is awaited.
Linking == {"plan", "awaiting"}

\* recordPaymentLinkSelection, a statement of its own, whatever the version; a
\* request that comes again is told of the link that was sent and writes again
\* what the state no longer says.  A row that says all of it is left alone.
RecordLink(c) ==
    /\ c \in linked
    /\ \E f \in Linking : row.by[f] # c
    /\ row' = Patched(row, c, Linking, row.fallbacks)
    /\ history' = Recorded(c, "link", row')
    /\ UNCHANGED <<drafts, decision, delivery, sent, refused, linked>>

-----------------------------------------------------------------------------

Next ==
    \/ \E t \in Turn :
          \/ Think(t) \/ CommitReply(t) \/ CommitFallback(t)
          \/ Send(t) \/ ReportSubmitted(t) \/ ReportRefused(t) \/ ReportFailed(t)
    \/ \E c \in Call : SendLink(c) \/ RecordLink(c)

Spec == Init /\ [][Next]_vars

-----------------------------------------------------------------------------
(* What must hold. *)

\* The history has one event for every version after the first, the last of
\* which is the state as it stands: nothing is written behind its back, and the
\* two writes of one turn are both kept.
HistoryIsComplete ==
    /\ {e.version : e \in history} = 2..row.version
    /\ Cardinality(history) = row.version - 1
    /\ \A e \in history : e.version = row.version => e.row = row

\* What the state says was asked of the customer, or offered, was in a reply, or
\* in a payment link, that the channel accepted, and an offer counts once.
Shown == {t \in Turn : delivery[t].state = "submitted"} \cup linked
NothingSaidIsAssumed ==
    /\ \A f \in Deferred : row.by[f] \in Shown \cup {None}
    /\ LET offered == {t \in Turn : delivery[t].state = "submitted"
                                    /\ "offer" \in decision[t].fields}
       IN row.offers = IF Cardinality(offered) > 2 THEN 2 ELSE Cardinality(offered)

\* The fallbacks on record are those since the last reply, whether or not that
\* reply had anything else to write, and a person is asked to look when there
\* were two in a row for the first time.
Since(v) == {e \in history : e.write = "fallback" /\ e.version > v}
Replied == {t \in Turn : decision[t].kind = "reply"}
LastReply == Max({0} \cup {decision[t].base : t \in Replied})
FallbacksInARow ==
    /\ row.fallbacks = IF Cardinality(Since(LastReply)) > 2 THEN 2
                       ELSE Cardinality(Since(LastReply))
    /\ row.fallbacks = 2 => row.review # None

\* A true report is turned away only because another turn, or a call's link,
\* wrote after this turn's commit.
RefusedOnlyIfMoved ==
    \A t \in Turn :
        refused[t] => \E e \in history : /\ e.turn # t
                                         /\ e.version > delivery[t].patch.base
                                         /\ delivery[t].state # "submitted"

=============================================================================
