--------------------------- MODULE DirectDelivery ---------------------------
(***************************************************************************)
(* sendOutboundMessage: the requests that carry one idempotency key, each  *)
(* an execution of the use case, compete for the ledger rows of that key,  *)
(* one per channel, while the reconciler sweeps the same ledger.           *)
(*                                                                         *)
(* Each statement of the use case is a step of its own: what one request   *)
(* reads may have changed by the time it acts.  The policy gate before the *)
(* first statement, which writes nothing, is left out.                     *)
(***************************************************************************)
EXTENDS DeliveryLedger, Sequences, FiniteSetsExt

CONSTANTS
    Preference,     \* the channels configured, in preference order, each once
    Windowed,       \* those with a reply window: WhatsApp
    Conversations,  \* those the pinned conversation can be on
    Retirable,      \* those whose identity is found again by its destination
    Reconciler,
    SendLease,
    CanDie          \* may requests end half way?

ASSUME DirectAssumption ==
    /\ Preference \in Seq(STRING)
    /\ \A i, j \in DOMAIN Preference : Preference[i] = Preference[j] => i = j
    /\ SendLease \in Nat \ {0}
    /\ CanDie \in BOOLEAN

VARIABLES
    row,     \* the deliveries of the key, by channel
    open,    \* the channels whose reply window is believed open
    usable,  \* the channels whose identity is not retired
    req,     \* the requests
    sent,    \* the requests whose message the provider took, by channel
    todo     \* the verdicts a pass of the reconciler has still to apply

vars == <<row, open, usable, req, sent, todo>>

-----------------------------------------------------------------------------

Place == DOMAIN Preference
Channel == {Preference[i] : i \in Place}

Pc == {"idle", "find", "reserve", "lease", "readback", "sending", "correct",
       "settle", "answered", "dead"}
Result == {"none", "accepted", "failed", "permanent", "shut"}
Answer == {"none", "sent", "permanent", "retryable", "busy", "unreachable", "error"}

Request == [pc     : Pc,
            rest   : SUBSET Place,  \* the candidates left, the first the current one
            result : Result,        \* what became of the provider call
            answer : Answer]        \* "busy" is CONCURRENT_SEND_IN_PROGRESS
IdleRequest == [pc |-> "idle", rest |-> {}, result |-> "none", answer |-> "none"]

TypeOK ==
    /\ row \in [Channel -> Delivery]
    /\ open \in SUBSET Windowed
    /\ usable \in SUBSET Channel
    /\ req \in [Sender -> Request]
    /\ sent \in [Channel -> SUBSET Sender]
    /\ todo \in [Reconciler -> SUBSET (Channel \X Verdicts)]
    /\ \A s \in Sender :
          req[s].pc \notin {"idle", "answered", "dead"} => req[s].rest # {}

Init ==
    /\ row = [ch \in Channel |-> NoDelivery]
    /\ open = Windowed
    /\ usable = Channel
    /\ req = [s \in Sender |-> IdleRequest]
    /\ sent = [ch \in Channel |-> {}]
    /\ todo = [c \in Reconciler |-> {}]

Tick ==
    /\ \E ch \in Channel : Ages(row[ch])
    /\ row' = [ch \in Channel |-> Aged(row[ch])]
    /\ UNCHANGED <<open, usable, req, sent, todo>>

\* The contact writes, or the window runs out.
WindowMoves ==
    /\ \E ch \in Windowed : open' = IF ch \in open THEN open \ {ch} ELSE open \cup {ch}
    /\ UNCHANGED <<row, usable, req, sent, todo>>

-----------------------------------------------------------------------------

Current(s) == Preference[Min(req[s].rest)]

To(s, pc) == req' = [req EXCEPT ![s].pc = pc]

Ends(s, pc, answer) ==
    req' = [req EXCEPT ![s] = [IdleRequest EXCEPT !.pc = pc, !.answer = answer]]

Answers(s, answer) == Ends(s, "answered", answer)

\* The next candidate, if there is one left.
MovesOn(s) ==
    LET rest == req[s].rest \ {Min(req[s].rest)} IN
    IF rest = {} THEN Answers(s, "unreachable")
    ELSE req' = [req EXCEPT ![s] = [IdleRequest EXCEPT !.pc = "find", !.rest = rest]]

\* replayResult: what the row alone allows to answer, "none" if it is unsettled.
ReplayAnswer(r) == IF Settled(r) THEN "sent"
                   ELSE IF r.state = "dead_letter" THEN "permanent"
                   ELSE "none"

\* selectChannels
Candidates == {i \in Place : /\ Preference[i] \in usable
                             /\ Preference[i] \in Windowed => Preference[i] \in open}

Start(s) ==
    /\ req[s].pc = "idle"
    /\ IF Candidates = {} THEN Answers(s, "unreachable")
       ELSE req' = [req EXCEPT ![s].pc = "find", ![s].rest = Candidates]
    /\ UNCHANGED <<row, open, usable, sent, todo>>

\* findDeliveryByKey
Find(s) ==
    LET ch == Current(s) IN
    /\ req[s].pc = "find"
    /\ IF ReplayAnswer(row[ch]) # "none" THEN Answers(s, ReplayAnswer(row[ch]))
       ELSE IF row[ch].state # "absent" THEN To(s, "lease")
       ELSE IF ch \in Conversations THEN To(s, "reserve")
       ELSE MovesOn(s)
    /\ UNCHANGED <<row, open, usable, sent, todo>>

\* reserveOutboundDelivery: the loser of the race for the key reads the
\* winner's row.
Reserve(s) ==
    LET ch == Current(s) IN
    /\ req[s].pc = "reserve"
    /\ IF row[ch].state = "absent"
       THEN row' = [row EXCEPT ![ch] = Enqueued] /\ To(s, "lease")
       ELSE To(s, "find") /\ UNCHANGED row
    /\ UNCHANGED <<open, usable, sent, todo>>

\* Mistakes: the row is leased whatever its state; the budget is not checked.
LeasableAlways(r) == r.state \in {"pending", "leased", "failed_retryable"}
NoBudget(r) == FALSE

Leasable(r) == r.state \in {"pending", "failed_retryable"}

\* attempt_count <= max_attempts is a check of the table.
OutOfBudget(r) == r.attempts = MaxAttempts

LeaseTaken(r) == [r EXCEPT !.state = "leased", !.lease = SendLease, !.quiet = Grace,
                           !.attempts = r.attempts + 1]

TakeLease(s) ==
    LET ch == Current(s) IN
    /\ req[s].pc = "lease"
    /\ IF ~Leasable(row[ch]) THEN To(s, "readback") /\ UNCHANGED row
       ELSE IF OutOfBudget(row[ch]) THEN Answers(s, "error") /\ UNCHANGED row
       ELSE row' = [row EXCEPT ![ch] = LeaseTaken(@)] /\ To(s, "sending")
    /\ UNCHANGED <<open, usable, sent, todo>>

\* readSettledDelivery, after the lease was not had.
ReadBack(s) ==
    LET answer == ReplayAnswer(row[Current(s)]) IN
    /\ req[s].pc = "readback"
    /\ Answers(s, IF answer = "none" THEN "busy" ELSE answer)
    /\ UNCHANGED <<row, open, usable, sent, todo>>

-----------------------------------------------------------------------------
(* attemptSend, and decideDeliveryOutcome on what came back. *)

CallEnds(s, result, took) ==
    /\ req[s].pc = "sending"
    /\ sent' = IF took THEN [sent EXCEPT ![Current(s)] = @ \cup {s}] ELSE sent
    /\ req' = [req EXCEPT ![s].result = result,
                          ![s].pc = IF result \in {"permanent", "shut"}
                                    THEN "correct" ELSE "settle"]
    /\ UNCHANGED <<row, open, usable, todo>>

Accepted(s) == CallEnds(s, "accepted", TRUE)
\* transient, config_error, or an ambiguous answer to a call that did nothing
NotTaken(s) == CallEnds(s, "failed", FALSE)
\* an ambiguous answer to a call that did send
TakenUnanswered(s) == CallEnds(s, "failed", TRUE)
Rejected(s) == CallEnds(s, "permanent", FALSE)
WindowShut(s) == req[s].rest # {} /\ Current(s) \in Windowed /\ CallEnds(s, "shut", FALSE)

\* markIdentityUnusable or closeReplyWindow
Correct(s) ==
    LET ch == Current(s) IN
    /\ req[s].pc = "correct"
    /\ usable' = IF req[s].result = "permanent" THEN usable \ ({ch} \cap Retirable)
                 ELSE usable
    /\ open' = IF req[s].result = "shut" THEN open \ {ch} ELSE open
    /\ To(s, "settle")
    /\ UNCHANGED <<row, sent, todo>>

\* A mistake: an ambiguous answer is settled as a submission.
SettlesHopefully(result) == IF result = "permanent" THEN "dead_letter" ELSE "submitted"

SettlesAs(result) == CASE result = "accepted"  -> "submitted"
                       [] result = "failed"    -> "failed_retryable"
                       [] result = "permanent" -> "dead_letter"

AnswerTo(result) == CASE result = "accepted"  -> "sent"
                      [] result = "failed"    -> "retryable"
                      [] result = "permanent" -> "permanent"

\* settleDelivery; a transition the trigger refuses ends the request.
Settle(s) ==
    LET ch == Current(s) IN
    /\ req[s].pc = "settle" /\ req[s].result # "shut"
    /\ IF Moves(row[ch].state, SettlesAs(req[s].result), DeliveryMoves)
       THEN /\ row' = [row EXCEPT ![ch] =
                         [@ EXCEPT !.state = SettlesAs(req[s].result), !.lease = 0,
                                   !.quiet = Grace,
                                   !.provider = IF req[s].result = "accepted" THEN s
                                                ELSE row[ch].provider]]
            /\ Answers(s, AnswerTo(req[s].result))
       ELSE Answers(s, "error") /\ UNCHANGED row
    /\ UNCHANGED <<open, usable, sent, todo>>

\* tryNextChannel: the row is cancelled.
Cancel(s) ==
    LET ch == Current(s) IN
    /\ req[s].pc = "settle" /\ req[s].result = "shut"
    /\ row' = IF row[ch].state = "leased"
              THEN [row EXCEPT ![ch] = [@ EXCEPT !.state = "cancelled", !.quiet = Grace]]
              ELSE row
    /\ MovesOn(s)
    /\ UNCHANGED <<open, usable, sent, todo>>

\* The function is stopped or an unexpected error ends it.
Die(s) ==
    /\ CanDie
    /\ req[s].pc \notin {"idle", "answered", "dead"}
    /\ Ends(s, "dead", "none")
    /\ UNCHANGED <<row, open, usable, sent, todo>>

-----------------------------------------------------------------------------
(* The reconciler.  No report is ever made about these deliveries. *)

Seen == {<<ch, Verdict(row[ch], "none")>> : ch \in {x \in Channel : Stale(row[x])}}

List(c) ==
    /\ todo[c] = {}
    /\ {t \in Seen : t[2] # "wait"} # {}
    /\ todo' = [todo EXCEPT ![c] = {t \in Seen : t[2] # "wait"}]
    /\ UNCHANGED <<row, open, usable, req, sent>>

Apply(c) ==
    \E t \in todo[c] :
        /\ row' = [row EXCEPT ![t[1]] = Reconciled(@, t[2])]
        /\ todo' = [todo EXCEPT ![c] = @ \ {t}]
        /\ UNCHANGED <<open, usable, req, sent>>

-----------------------------------------------------------------------------

Reconcile(c) == List(c) \/ Apply(c)

\* The steps of a request that is not stopped.
Works(s) ==
    \/ Find(s) \/ Reserve(s) \/ TakeLease(s) \/ ReadBack(s)
    \/ Accepted(s) \/ NotTaken(s) \/ TakenUnanswered(s) \/ Rejected(s) \/ WindowShut(s)
    \/ Correct(s) \/ Settle(s) \/ Cancel(s)

Next ==
    \/ Tick \/ WindowMoves
    \/ \E s \in Sender : Start(s) \/ Works(s) \/ Die(s)
    \/ \E c \in Reconciler : Reconcile(c)

Spec == Init /\ [][Next]_vars

-----------------------------------------------------------------------------
(* What must hold. *)

Holding(s, ch) ==
    req[s].pc \in {"sending", "correct", "settle"} /\ Current(s) = ch

\* Requests with the same key never talk to the provider at the same time about
\* the same row: the lease decides, and the reconciler does not undo it.
OneAtATime ==
    \A v, w \in Sender, ch \in Channel : Holding(v, ch) /\ Holding(w, ch) => v = w

\* Whoever is told "sent" is told of a message a provider took, and the row
\* names it.
SentIsTrue ==
    \A s \in Sender :
        req[s].answer = "sent" =>
            \E ch \in Channel : row[ch].state = "submitted" /\ row[ch].provider \in sent[ch]

\* What was submitted stays so and is never sent again on that channel,
\* whatever a request or the reconciler read before.
NeverAfterProof ==
    [][\A ch \in Channel :
          row[ch].provider # None =>
              /\ row'[ch].provider = row[ch].provider
              /\ row'[ch].state = row[ch].state
              /\ sent'[ch] = sent[ch]]_vars

\* A customer sees at most as many copies as the attempts the budget allows.
CopiesWithinBudget ==
    \A ch \in Channel :
        /\ Cardinality(sent[ch]) <= row[ch].attempts
        /\ row[ch].attempts <= MaxAttempts

=============================================================================
