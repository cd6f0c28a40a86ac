---------------------------- MODULE InboundBatch ----------------------------
(***************************************************************************)
(* How the inbound messages of one conversation are grouped in windows,    *)
(* how the workflows that carried them compete for a window, and how the   *)
(* winner's decision and the end of the window are recorded.               *)
(*                                                                         *)
(* A batch has no identity of its own here: it is named after the message  *)
(* that opened it, its representative turn.  A message opens at most one   *)
(* batch, so the name is unique.                                           *)
(*                                                                         *)
(* Instants (due_at, hard_deadline_at, lease_until, the instant a workflow *)
(* wakes) are kept as the time that is left before them; Tick takes one    *)
(* unit off every timer that still runs, and "now() >= due_at" reads       *)
(* "due = 0".  The database and the workflow runtime share the clock.      *)
(***************************************************************************)
EXTENDS Naturals, FiniteSets

CONSTANTS
    Message,           \* the messages the customer sends
    Workflow,          \* the workflow runs the channel may start for them
    Payload,           \* the decisions a run may come up with
    Silent,            \* those of them that say nothing to the customer
    Window,            \* DEFAULT_BATCH_WINDOW_POLICY.windowMs
    HardDeadline,      \* DEFAULT_BATCH_WINDOW_POLICY.hardDeadlineMs
    Lease,             \* p_lease_ms of claim_inbound_batch
    MaxClaimTries,     \* MAX_CLAIM_ATTEMPTS of the workflow
    MaxClaimAttempts,  \* p_max_claim_attempts of expire_inbound_batch_claims
    CanFail,           \* may runs stop half way, and closes fail?
    None

ASSUME ConstantsAssumption ==
    /\ Silent \subseteq Payload
    /\ Window \in Nat \ {0}
    /\ HardDeadline \in Nat
    /\ Window <= HardDeadline
    /\ Lease \in Nat \ {0}
    /\ MaxClaimTries \in Nat \ {0}
    /\ MaxClaimAttempts \in Nat \ {0}
    /\ CanFail \in BOOLEAN
    /\ None \notin Message
    /\ None \notin Workflow

VARIABLES
    seq,       \* messages.conversation_seq, 0 before the message is stored
    member,    \* messages.batch_id
    batch,     \* the rows of inbound_batches
    decision,  \* the rows of agent_decisions, by turn
    wf         \* the workflow runs

vars == <<seq, member, batch, decision, wf>>

-----------------------------------------------------------------------------

BatchState == {"absent", "waiting", "claimed", "completed", "abandoned"}
Terminal == {"completed", "abandoned"}

Row == [state    : BatchState,
        due      : Nat,   \* due_at
        hard     : Nat,   \* hard_deadline_at
        lease    : Nat,   \* lease_until, 0 also when NULL
        token    : Nat,   \* claim_token, 0 for NULL
        owner    : Workflow \cup {None},  \* claimed_by
        attempts : Nat,   \* claim_attempt_count
        count    : Nat]   \* message_count

NoRow == [state |-> "absent", due |-> 0, hard |-> 0, lease |-> 0,
          token |-> 0, owner |-> None, attempts |-> 0, count |-> 0]

NewRow == [NoRow EXCEPT !.state = "waiting", !.due = Window,
                        !.hard = HardDeadline, !.count = 1]

\* A superseded decision is stored as a suppress with the reason
\* SUPERSEDED_BY_NEWER_INBOUND, whatever the run proposed.
Kind == {"none", "reply", "silent", "superseded"}
Decision == [kind : Kind, payload : Payload \cup {None}]
NoDecision == [kind |-> "none", payload |-> None]

Pc == {"idle", "ingested", "sleeping", "deciding", "closing", "sending",
       "stopped", "exhausted"}

Run == [pc    : Pc,
        msg   : Message \cup {None},
        batch : Message \cup {None},
        token : Nat,   \* claim_token of the claim it won
        lease : Nat,   \* lease_until it was told when it won
        wake  : Nat,   \* dueAt
        tries : Nat]   \* attempt

IdleRun == [pc |-> "idle", msg |-> None, batch |-> None,
            token |-> 0, lease |-> 0, wake |-> 0, tries |-> 0]

TypeOK ==
    /\ seq \in [Message -> Nat]
    /\ member \in [Message -> Message \cup {None}]
    /\ batch \in [Message -> Row]
    /\ decision \in [Message -> Decision]
    /\ wf \in [Workflow -> Run]
    /\ \A w \in Workflow :
          wf[w].pc # "idle" => wf[w].msg \in Message /\ wf[w].batch \in Message

Init ==
    /\ seq = [m \in Message |-> 0]
    /\ member = [m \in Message |-> None]
    /\ batch = [m \in Message |-> NoRow]
    /\ decision = [m \in Message |-> NoDecision]
    /\ wf = [w \in Workflow |-> IdleRun]

-----------------------------------------------------------------------------
(* The clock. *)

Less(n) == IF n > 0 THEN n - 1 ELSE 0

Running == \/ \E b \in Message :
                 \/ batch[b].due > 0 \/ batch[b].hard > 0 \/ batch[b].lease > 0
           \/ \E w \in Workflow : wf[w].wake > 0 \/ wf[w].lease > 0

Tick ==
    /\ Running
    /\ batch' = [b \in Message |->
                    [batch[b] EXCEPT !.due = Less(@), !.hard = Less(@),
                                     !.lease = Less(@)]]
    /\ wf' = [w \in Workflow |->
                    [wf[w] EXCEPT !.wake = Less(@), !.lease = Less(@)]]
    /\ UNCHANGED <<seq, member, decision>>

-----------------------------------------------------------------------------
(* Ingestion: persistInbound stores the message and calls                  *)
(* open_or_join_inbound_batch in one serializable transaction.             *)

Waiting == {b \in Message : batch[b].state = "waiting"}
Joinable == {b \in Waiting : batch[b].hard > 0}

Earliest(a, b) == IF a < b THEN a ELSE b

\* A mistake: the window is measured back from the deadline.
ExtendedBackwards(r) == [r EXCEPT !.due = r.hard - Window, !.count = @ + 1]

\* The window slides, never past the hard deadline.
Extended(r) == [r EXCEPT !.due = Earliest(r.hard, Window), !.count = @ + 1]

\* WINDOW_EXPIRED_UNCLAIMED
Expired(r) == [r EXCEPT !.state = "abandoned", !.token = 0, !.owner = None,
                        !.lease = 0]

Admit(m, b) ==
    /\ \E last \in {0} \cup {seq[x] : x \in Message} :
          /\ \A x \in Message : seq[x] <= last
          /\ seq' = [seq EXCEPT ![m] = last + 1]
    /\ member' = [member EXCEPT ![m] = b]

\* The channel delivered m again: the batch that holds it is answered.
Replay(m) ==
    /\ member[m] # None
    /\ UNCHANGED <<seq, member, batch>>

Join(m) ==
    /\ member[m] = None
    /\ \E b \in Joinable :
          /\ batch' = [batch EXCEPT ![b] = Extended(batch[b])]
          /\ Admit(m, b)

\* A mistake: without the lock on the conversation a second window opens.
OpenUnlocked(m) ==
    /\ member[m] = None
    /\ batch' = [batch EXCEPT ![m] = NewRow]
    /\ Admit(m, m)

Open(m) ==
    /\ member[m] = None
    /\ Joinable = {}
    /\ batch' = [b \in Message |-> IF b = m THEN NewRow
                                   ELSE IF b \in Waiting THEN Expired(batch[b])
                                   ELSE batch[b]]
    /\ Admit(m, m)

Ingest(w, m) ==
    /\ wf[w].pc = "idle"
    /\ Replay(m) \/ Join(m) \/ Open(m)
    /\ wf' = [wf EXCEPT ![w] =
                 [@ EXCEPT !.pc = "ingested", !.msg = m, !.batch = member'[m],
                           !.wake = batch'[member'[m]].due]]
    /\ UNCHANGED decision

\* existing_result, read after that transaction: a run whose message already
\* has a decision never sends anything again.
ReadExisting(w) ==
    /\ wf[w].pc = "ingested"
    /\ wf' = [wf EXCEPT ![w].pc =
                 IF decision[wf[w].msg] = NoDecision THEN "sleeping" ELSE "stopped"]
    /\ UNCHANGED <<seq, member, batch, decision>>

-----------------------------------------------------------------------------
(* Claiming: claim_inbound_batch, and what the workflow does with its      *)
(* outcome.                                                                *)

\* A mistake: a claim is stolen before its lease ends.
ClaimableAnyTime(r) == \/ r.state = "waiting" /\ r.due = 0
                       \/ r.state = "claimed"

\* A mistake: a batch that was given up is claimed like an open one.
ClaimableAbandoned(r) == \/ r.state \in {"waiting", "abandoned"} /\ r.due = 0
                         \/ r.state = "claimed" /\ r.lease = 0

Claimable(r) == \/ r.state = "waiting" /\ r.due = 0
                \/ r.state = "claimed" /\ r.lease = 0

\* gen_random_uuid() is a value no earlier claim of the row was given.
Claimed(r, w) == [r EXCEPT !.state = "claimed", !.token = r.attempts + 1,
                           !.owner = w, !.lease = Lease,
                           !.attempts = r.attempts + 1]

ClaimWins(w) ==
    LET b == wf[w].batch IN
    /\ wf[w].pc = "sleeping" /\ wf[w].wake = 0
    /\ Claimable(batch[b])
    /\ batch' = [batch EXCEPT ![b] = Claimed(batch[b], w)]
    /\ wf' = [wf EXCEPT ![w] = [@ EXCEPT !.pc = "deciding", !.lease = Lease,
                                         !.token = batch'[b].token]]
    /\ UNCHANGED <<seq, member, decision>>

\* A mistake: the last attempt is not made.
ClaimTooEarlyOnceLess(w) ==
    LET b == wf[w].batch IN
    /\ wf[w].pc = "sleeping" /\ wf[w].wake = 0
    /\ ~Claimable(batch[b])
    /\ batch[b].state = "waiting"
    /\ wf' = [wf EXCEPT ![w] =
                 [@ EXCEPT !.tries = wf[w].tries + 1, !.wake = batch[b].due,
                           !.pc = IF wf[w].tries + 2 = MaxClaimTries
                                  THEN "exhausted" ELSE "sleeping"]]
    /\ UNCHANGED <<seq, member, batch, decision>>

\* "waiting": the window moved, sleep again, at most MaxClaimTries times.
ClaimTooEarly(w) ==
    LET b == wf[w].batch IN
    /\ wf[w].pc = "sleeping" /\ wf[w].wake = 0
    /\ ~Claimable(batch[b])
    /\ batch[b].state = "waiting"
    /\ wf' = [wf EXCEPT ![w] =
                 [@ EXCEPT !.tries = wf[w].tries + 1, !.wake = batch[b].due,
                           !.pc = IF wf[w].tries + 1 = MaxClaimTries
                                  THEN "exhausted" ELSE "sleeping"]]
    /\ UNCHANGED <<seq, member, batch, decision>>

\* "absorbed", "completed", "abandoned": somebody else's turn.
ClaimLoses(w) ==
    /\ wf[w].pc = "sleeping" /\ wf[w].wake = 0
    /\ ~Claimable(batch[wf[w].batch])
    /\ batch[wf[w].batch].state # "waiting"
    /\ wf' = [wf EXCEPT ![w].pc = "stopped"]
    /\ UNCHANGED <<seq, member, batch, decision>>

-----------------------------------------------------------------------------
(* Deciding: commitAgentDecision, then completeBatch.  The commit checks   *)
(* neither the claim token nor the lease.                                  *)

\* Mistakes: a later message of the batch itself supersedes it; an earlier one
\* of another batch does.
SupersededByOwn(b) == \E m \in Message : seq[m] > seq[b]
SupersededByOlder(b) ==
    \E m \in Message : seq[m] > 0 /\ seq[m] < seq[b] /\ member[m] # b

\* A message of another batch was stored after the representative turn.
Superseded(b) == \E m \in Message : seq[m] > seq[b] /\ member[m] # b

KindOf(b, p) == IF Superseded(b) THEN "superseded"
                ELSE IF p \in Silent THEN "silent" ELSE "reply"

CommitNew(w, p) ==
    LET b == wf[w].batch IN
    /\ wf[w].pc = "deciding"
    /\ decision[b] = NoDecision
    /\ decision' = [decision EXCEPT ![b] = [kind |-> KindOf(b, p), payload |-> p]]
    /\ wf' = [wf EXCEPT ![w].pc = "closing"]
    /\ UNCHANGED <<seq, member, batch>>

\* The turn is decided: the same payload is a replay, another one a conflict.
CommitAgain(w, p) ==
    LET b == wf[w].batch IN
    /\ wf[w].pc = "deciding"
    /\ decision[b] # NoDecision
    /\ wf' = [wf EXCEPT ![w].pc =
                 IF decision[b].payload = p THEN "closing" ELSE "stopped"]
    /\ UNCHANGED <<seq, member, batch, decision>>

\* A mistake: any run may close a claimed batch.
CompletableByAnyone(r, token) == r.state = "claimed"

Completable(r, token) == r.state = "claimed" /\ r.token = token

\* What the run does when the commit's answer reaches it.
AfterCommit(w) == IF decision[wf[w].batch].kind = "reply" THEN "sending" ELSE "stopped"

Close(w) ==
    LET b == wf[w].batch IN
    /\ wf[w].pc = "closing"
    /\ batch' = IF Completable(batch[b], wf[w].token)
                THEN [batch EXCEPT ![b] = [@ EXCEPT !.state = "completed", !.lease = 0]]
                ELSE batch
    /\ wf' = [wf EXCEPT ![w].pc = AfterCommit(w)]
    /\ UNCHANGED <<seq, member, decision>>

\* completeBatch failed; the error is logged and swallowed.
CloseFails(w) ==
    /\ CanFail
    /\ wf[w].pc = "closing"
    /\ wf' = [wf EXCEPT ![w].pc = AfterCommit(w)]
    /\ UNCHANGED <<seq, member, batch, decision>>

-----------------------------------------------------------------------------

\* The run ends where it is: the process died, the answer of the call it is
\* waiting for was lost or was an error (every step has maxAttempts 1), or the
\* backend rejected its decision.
Crash(w) ==
    /\ CanFail
    /\ wf[w].pc \in {"ingested", "sleeping", "deciding", "closing"}
    /\ wf' = [wf EXCEPT ![w].pc = "stopped"]
    /\ UNCHANGED <<seq, member, batch, decision>>

\* expire_inbound_batch_claims, one row of a sweep (the sweep skips locked
\* rows, so it may take any of them).
Exhausted(r) == /\ r.state = "claimed" /\ r.lease = 0
                /\ r.attempts >= MaxClaimAttempts

ExpireClaim(b) ==
    /\ Exhausted(batch[b])
    /\ batch' = [batch EXCEPT ![b].state = "abandoned"]
    /\ UNCHANGED <<seq, member, decision, wf>>

Progress(w) ==
    \/ ReadExisting(w) \/ ClaimWins(w) \/ ClaimTooEarly(w) \/ ClaimLoses(w)
    \/ \E p \in Payload : CommitNew(w, p) \/ CommitAgain(w, p)
    \/ Close(w)

Next ==
    \/ Tick
    \/ \E w \in Workflow : \/ \E m \in Message : Ingest(w, m)
                           \/ Progress(w)
                           \/ CloseFails(w)
                           \/ Crash(w)
    \/ \E b \in Message : ExpireClaim(b)

Spec == Init /\ [][Next]_vars

\* A run that does not fail goes on, time passes, and the reconciler's cron
\* comes round.  Nobody owes us another message or another delivery of one.
FairSpec ==
    /\ Spec
    /\ WF_vars(Tick)
    /\ \A w \in Workflow : WF_vars(Progress(w))
    /\ \A b \in Message : WF_vars(ExpireClaim(b))

-----------------------------------------------------------------------------
(* What must hold. *)

\* A conversation has one open window at a time: the partial unique index
\* inbound_batches_one_waiting_uq would refuse a second one.
OneWaiting ==
    \A a, b \in Message :
        batch[a].state = "waiting" /\ batch[b].state = "waiting" => a = b

\* message_count is the number of messages of the batch however often the
\* channel delivers each of them.
CountsMembers ==
    \A b \in Message :
        batch[b].state # "absent" =>
            batch[b].count = Cardinality({m \in Message : member[m] = b})

\* The messages of a batch are consecutive in the conversation: no message of
\* another batch was stored between two of them, so answering batches in the
\* order they were opened answers the messages in the order they were sent.
BatchesAreIntervals ==
    \A x, y, z \in Message :
        /\ member[x] # None /\ member[x] = member[z]
        /\ seq[x] < seq[y] /\ seq[y] < seq[z]
        => member[y] = member[x]

\* The run that decides reads the messages of the batch after it won the claim:
\* nothing may join a batch once somebody has claimed it.
FrozenOnceClaimed ==
    [][\A m \in Message :
          member'[m] # member[m] =>
              batch[member'[m]].state \in {"absent", "waiting"}]_vars

\* Two runs may be at work on one batch, the second having stolen the claim of
\* the first, but only one of them still has time on the lease it was given.
OneLiveLease ==
    \A v, w \in Workflow :
        /\ wf[v].pc = "deciding" /\ wf[w].pc = "deciding"
        /\ wf[v].batch = wf[w].batch
        /\ wf[v].lease > 0 /\ wf[w].lease > 0
        => v = w

\* A batch is closed as completed by the last run that claimed it, never by one
\* whose claim was stolen, and with the turn decided.
OnlyOwnerCompletes ==
    [][\A b \in Message :
          batch[b].state # "completed" /\ batch'[b].state = "completed" =>
              /\ decision[b] # NoDecision
              /\ batch[b].owner # None
              /\ wf[batch[b].owner].pc = "closing"
              /\ wf'[batch[b].owner].pc # "closing"]_vars

\* A decision is dropped in favour of a newer batch only if there is one, opened
\* by a later message: the last batch of a conversation is never silenced this
\* way.
SupersededByNewer ==
    \A b \in Message :
        decision[b].kind = "superseded" =>
            \E c \in Message : /\ batch[c].state # "absent"
                               /\ seq[c] > seq[b]
                               /\ \A m \in Message : member[m] = b => seq[m] < seq[c]

\* MAX_CLAIM_ATTEMPTS is enough: the window cannot be made to slide so often
\* that a run gives up and leaves its batch waiting.
ClaimTriesSuffice == \A w \in Workflow : wf[w].pc # "exhausted"

\* Without failures every message the customer sent is followed by a decision
\* taken on its merits, its own batch's or that of a later batch, if only a
\* silent one.
EveryMessageAnswered ==
    \A m \in Message :
        seq[m] > 0 ~> \E b \in Message : /\ batch[b].state # "absent"
                                         /\ decision[b].kind \in {"reply", "silent"}
                                         /\ \/ member[m] = b
                                            \/ seq[b] > seq[m]

\* commit-claimed-decision.ts: the batch must end completed, it may not stay
\* claimed with an expired lease after the commit.
DecidedBatchCloses ==
    \A b \in Message :
        batch[b].state = "claimed" /\ decision[b] # NoDecision
            ~> batch[b].state \in Terminal

\* The rows of inbound_batches and agent_decisions seen as what they promise.
Phase(r) == CASE r.state = "absent"    -> "absent"
              [] r.state = "waiting"   -> "open"
              [] r.state = "claimed"   -> "owned"
              [] r.state = "completed" -> "done"
              [] r.state = "abandoned" -> "dropped"

Ownership == INSTANCE TurnOwnership WITH
    Batch     <- Message,
    Verdict   <- Decision,
    Undecided <- NoDecision,
    phase     <- [b \in Message |-> Phase(batch[b])],
    grants    <- [b \in Message |-> batch[b].attempts],
    verdict   <- decision

\* However messages, redeliveries, runs and the reconciler interleave, a batch
\* is owned, decided once and ended as TurnOwnership says.
KeepsOwnership == Ownership!OSpec

-----------------------------------------------------------------------------
(* The inductive invariant behind them. *)

\* Every stored message is in a batch that exists, its opener's.
MembersShape ==
    \A m \in Message :
        /\ member[m] = None <=> seq[m] = 0
        /\ batch[m].state # "absent" <=> member[m] = m
        /\ member[m] # None => /\ batch[member[m]].state # "absent"
                               /\ seq[member[m]] <= seq[m]

\* conversation_seq numbers the stored messages without repetition, and the
\* open window holds the last of them.
SeqShape ==
    \A x, y \in Message :
        /\ seq[x] = seq[y] /\ seq[x] # 0 => x = y
        /\ /\ member[x] # None
           /\ batch[member[x]].state = "waiting"
           /\ seq[x] < seq[y]
           => member[y] = member[x]

\* The table's check constraints, and what the claim columns hold.
RowShape ==
    \A b \in Message :
        /\ batch[b].state \in {"absent", "waiting"} =>
              batch[b].attempts = 0 /\ decision[b] = NoDecision
        /\ batch[b].state = "claimed" =>
              /\ batch[b].attempts > 0
              /\ batch[b].token = batch[b].attempts
        /\ batch[b].state = "completed" => decision[b] # NoDecision
        /\ decision[b] # NoDecision => batch[b].attempts > 0

\* A run past its claim holds the last token of the batch only if the row names
\* it as the owner, and until its lease ends it is the owner.
RunShape ==
    \A w \in Workflow :
        /\ wf[w].pc # "idle" => batch[wf[w].batch].state # "absent"
        /\ wf[w].pc \in {"deciding", "closing"} =>
              /\ 0 < wf[w].token
              /\ wf[w].token <= batch[wf[w].batch].attempts
              /\ wf[w].token = batch[wf[w].batch].attempts =>
                    batch[wf[w].batch].owner = w
        /\ wf[w].pc = "closing" => decision[wf[w].batch] # NoDecision
        /\ wf[w].pc = "deciding" /\ wf[w].lease > 0 =>
              /\ batch[wf[w].batch].state = "claimed"
              /\ batch[wf[w].batch].owner = w
              /\ batch[wf[w].batch].lease = wf[w].lease

IInv ==
    /\ TypeOK
    /\ OneWaiting
    /\ BatchesAreIntervals
    /\ MembersShape
    /\ SeqShape
    /\ RowShape
    /\ RunShape
    /\ SupersededByNewer
=============================================================================
