-------------------------- MODULE BotpressDelivery --------------------------
(***************************************************************************)
(* How the parts of one reply leave through Botpress: the commit leases    *)
(* them all, a workflow run submits and reports them one by one, the       *)
(* backend records the reports, and the reconciler looks after the rows    *)
(* nobody finished.                                                        *)
(*                                                                         *)
(* The senders are workflow runs.  More than one may come to hold the same *)
(* reply: a run whose claim was stolen and the run that stole it get the   *)
(* same rows when they commit the same payload.                            *)
(*                                                                         *)
(* The attempt of a part is 1 from the commit on: nothing in the program   *)
(* leases such a row again, so every report is about the current attempt.  *)
(***************************************************************************)
EXTENDS DeliveryLedger, FiniteSets

CONSTANTS
    Parts,        \* how many parts the reply has
    Reconciler,   \* overlapping passes of the cron
    SendLease,    \* the lease the commit takes on every part
    CanLose       \* may runs die, calls be lost, answers not come back?

ASSUME BotpressAssumption ==
    /\ Parts \in Nat \ {0}
    /\ SendLease \in Nat \ {0}
    /\ CanLose \in BOOLEAN
    /\ MaxAttempts > 1   \* the commit takes one attempt and leaves some

VARIABLES
    row,      \* the deliveries, with their outbox events, by part
    report,   \* the delivery_reports, by part
    latest,   \* report_status of the last of them, by part
    run,      \* the workflow runs
    wire,     \* the report calls the runs made, by run and part
    sent,     \* the senders whose createMessage created the message, by part
    copies,   \* how often that happened, by part
    todo      \* the verdicts a pass of the reconciler has still to apply

vars == <<row, report, latest, run, wire, sent, copies, todo>>

Part == 1 .. Parts

-----------------------------------------------------------------------------

Status == {"pending", "submitted", "failed"}

\* Mistakes: the state is handed out as it is; a part that was reported counts
\* as acknowledged.
StatusOfRaw(state) == state
\* mapDeliveryState
StatusOf(state) ==
    IF state \in {"submitted", "delivered"} THEN "submitted"
    ELSE IF state \in {"failed_retryable", "dead_letter", "cancelled"} THEN "failed"
    ELSE "pending"

Pc == {"idle", "parts", "sent", "unsent", "reporting", "stopped", "done"}
Run == [pc : Pc, part : Part \cup {Parts + 1}, view : [Part -> Status]]
IdleRun == [pc |-> "idle", part |-> 1, view |-> [p \in Part |-> "pending"]]

\* The event key of a report: the status and the message id, if there is one.
Report == [status : {"submitted", "failed"}, id : Sender \cup {None}]

Call == [status : Reported, answer : {"none", "ok", "conflict"}]
NoCall == [status |-> "none", answer |-> "none"]

TypeOK ==
    /\ row \in [Part -> Delivery]
    /\ report \in [Part -> SUBSET Report]
    /\ latest \in [Part -> Reported]
    /\ run \in [Sender -> Run]
    /\ wire \in [Sender -> [Part -> Call]]
    /\ sent \in [Part -> SUBSET Sender]
    /\ copies \in [Part -> Nat]
    /\ todo \in [Reconciler -> SUBSET (Part \X Verdicts)]

Init ==
    /\ row = [p \in Part |-> NoDelivery]
    /\ report = [p \in Part |-> {}]
    /\ latest = [p \in Part |-> "none"]
    /\ run = [s \in Sender |-> IdleRun]
    /\ wire = [s \in Sender |-> [p \in Part |-> NoCall]]
    /\ sent = [p \in Part |-> {}]
    /\ copies = [p \in Part |-> 0]
    /\ todo = [c \in Reconciler |-> {}]

Tick ==
    /\ \E p \in Part : Ages(row[p])
    /\ row' = [p \in Part |-> Aged(row[p])]
    /\ UNCHANGED <<report, latest, run, wire, sent, copies, todo>>

-----------------------------------------------------------------------------
(* The commit. *)

Committed == \A p \in Part : row[p].state # "absent"

\* commitAgentDecision queues and leases every part in one transaction.
Commit(s) ==
    /\ run[s].pc = "idle"
    /\ ~Committed
    /\ row' = [p \in Part |-> [Enqueued EXCEPT !.state = "leased", !.outbox = "leased",
                                               !.lease = SendLease, !.attempts = 1]]
    /\ run' = [run EXCEPT ![s].pc = "parts"]
    /\ UNCHANGED <<report, latest, wire, sent, copies, todo>>

\* The turn is decided with the same payload: the caller gets the parts with
\* the status they have.
Replay(s) ==
    /\ run[s].pc = "idle"
    /\ Committed
    /\ run' = [run EXCEPT ![s].pc = "parts",
                          ![s].view = [p \in Part |-> StatusOf(row[p].state)]]
    /\ UNCHANGED <<row, report, latest, wire, sent, copies, todo>>

\* The answer of the commit is lost before the run used it; the HTTP client
\* calls again.
AnswerLost(s) ==
    /\ CanLose
    /\ run[s].pc = "parts" /\ run[s].part = 1
    /\ run' = [run EXCEPT ![s] = IdleRun]
    /\ UNCHANGED <<row, report, latest, wire, sent, copies, todo>>

-----------------------------------------------------------------------------
(* The loop over the parts, on the statuses the commit answered with. *)

At(s, p, status) == /\ run[s].pc = "parts" /\ run[s].part = p
                    /\ p \in Part /\ run[s].view[p] = status

\* A part that was acknowledged before is never submitted again.
Skip(s, p) ==
    /\ At(s, p, "submitted")
    /\ run' = [run EXCEPT ![s].part = p + 1]
    /\ UNCHANGED <<row, report, latest, wire, sent, copies, todo>>

\* OUTBOUND_RETRY_PENDING: a part that failed is not for this run to retry.
Halt(s, p) ==
    /\ At(s, p, "failed")
    /\ run' = [run EXCEPT ![s].pc = "stopped"]
    /\ UNCHANGED <<row, report, latest, wire, sent, copies, todo>>

\* The customer gets the message.
Created(s, p) ==
    /\ sent' = [sent EXCEPT ![p] = @ \cup {s}]
    /\ copies' = [copies EXCEPT ![p] = @ + 1]

\* createMessage answers with the id of the message it created.
Send(s, p) ==
    /\ At(s, p, "pending")
    /\ Created(s, p)
    /\ run' = [run EXCEPT ![s].pc = "sent"]
    /\ UNCHANGED <<row, report, latest, wire, todo>>

\* No message is created: the manifest or the canary forbids it, or the channel
\* refuses it.
SendRefused(s, p) ==
    /\ At(s, p, "pending")
    /\ run' = [run EXCEPT ![s].pc = "unsent"]
    /\ UNCHANGED <<row, report, latest, wire, sent, copies, todo>>

\* A mistake: the step is tried again when the call fails.
SendRetried(s, p) ==
    /\ CanLose
    /\ At(s, p, "pending")
    /\ Created(s, p)
    /\ UNCHANGED <<row, report, latest, run, wire, todo>>

\* The message is created and the call fails all the same.
SendUnanswered(s, p) ==
    /\ CanLose
    /\ At(s, p, "pending")
    /\ Created(s, p)
    /\ run' = [run EXCEPT ![s].pc = "unsent"]
    /\ UNCHANGED <<row, report, latest, wire, todo>>

\* reportDelivery: the call is on its way.
CallReport(s) ==
    /\ run[s].pc \in {"sent", "unsent"}
    /\ wire' = [wire EXCEPT ![s][run[s].part] =
                   [NoCall EXCEPT !.status = IF run[s].pc = "sent" THEN "submitted"
                                             ELSE "failed"]]
    /\ run' = [run EXCEPT ![s].pc = IF run[s].pc = "sent" THEN "reporting" ELSE "stopped"]
    /\ UNCHANGED <<row, report, latest, sent, copies, todo>>

\* A mistake: the next part does not wait for the report of this one.
ContinueEagerly(s) ==
    /\ run[s].pc = "reporting"
    /\ run' = [run EXCEPT ![s].pc = "parts", ![s].part = run[s].part + 1]
    /\ UNCHANGED <<row, report, latest, wire, sent, copies, todo>>

\* The report was recorded, now or before: the next part.
Continue(s) ==
    /\ run[s].pc = "reporting"
    /\ wire[s][run[s].part].answer = "ok"
    /\ run' = [run EXCEPT ![s].pc = "parts", ![s].part = run[s].part + 1]
    /\ UNCHANGED <<row, report, latest, wire, sent, copies, todo>>

\* The report was refused, or no answer came: the parts left are not sent.
GiveUp(s) ==
    /\ run[s].pc = "reporting"
    /\ CanLose \/ wire[s][run[s].part].answer = "conflict"
    /\ run' = [run EXCEPT ![s].pc = "stopped"]
    /\ UNCHANGED <<row, report, latest, wire, sent, copies, todo>>

\* Every part is acknowledged: dispatchAcknowledgedCall, and the turn is over.
Finish(s) ==
    /\ run[s].pc = "parts" /\ run[s].part = Parts + 1
    /\ run' = [run EXCEPT ![s].pc = "done"]
    /\ UNCHANGED <<row, report, latest, wire, sent, copies, todo>>

Crash(s) ==
    /\ CanLose
    /\ run[s].pc \in {"parts", "sent", "unsent"}
    /\ run' = [run EXCEPT ![s].pc = "stopped"]
    /\ UNCHANGED <<row, report, latest, wire, sent, copies, todo>>

-----------------------------------------------------------------------------
(* recordDeliveryReport.  The client repeats a call it got no answer to, so  *)
(* the backend may handle one again, and long after the run gave up.         *)

EventOf(s, p) == [status |-> wire[s][p].status,
                  id |-> IF wire[s][p].status = "submitted" THEN s ELSE None]

Answered(s, p, answer) == wire' = [wire EXCEPT ![s][p].answer = answer]

Duplicate(s, p) ==
    /\ wire[s][p].status # "none"
    /\ EventOf(s, p) \in report[p]
    /\ Answered(s, p, "ok")
    /\ UNCHANGED <<row, report, latest, run, sent, copies, todo>>

\* A mistake: a late failure overwrites the proof of a submission.
RefusesTerminal(r, e) == r.state \in {"delivered", "dead_letter", "cancelled"}

\* A mistake: the id of a second message replaces the first.
RefusesDowngrade(r, e) ==
    \/ r.state \in {"delivered", "dead_letter", "cancelled"}
    \/ r.state = "submitted" /\ e.status = "failed"

\* A terminal row takes no report, and a submitted one neither a failure nor
\* another message id.
Refuses(r, e) ==
    \/ r.state \in {"delivered", "dead_letter", "cancelled"}
    \/ r.state = "submitted" /\ (e.status = "failed" \/ r.provider # e.id)

Conflict(s, p) ==
    /\ wire[s][p].status # "none"
    /\ EventOf(s, p) \notin report[p]
    /\ Refuses(row[p], EventOf(s, p))
    /\ Answered(s, p, "conflict")
    /\ UNCHANGED <<row, report, latest, run, sent, copies, todo>>

Submitted(r, id) == [r EXCEPT !.state = "submitted", !.provider = id, !.lease = 0,
                              !.outbox = "published", !.quiet = Grace]
Failed(r) == [r EXCEPT !.state = "failed_retryable", !.lease = 0,
                       !.outbox = "failed_retryable", !.quiet = Grace]

Record(s, p) ==
    LET e == EventOf(s, p) IN
    /\ e.status # "none"
    /\ e \notin report[p]
    /\ ~Refuses(row[p], e)
    /\ row' = [row EXCEPT ![p] = IF e.status = "submitted" THEN Submitted(@, e.id)
                                 ELSE Failed(@)]
    /\ report' = [report EXCEPT ![p] = @ \cup {e}]
    /\ latest' = [latest EXCEPT ![p] = e.status]
    /\ Answered(s, p, "ok")
    /\ UNCHANGED <<run, sent, copies, todo>>

-----------------------------------------------------------------------------
(* reconcileOrchestration: one read, then one statement per row. *)

Seen == {<<p, Verdict(row[p], latest[p])>> : p \in {q \in Part : Stale(row[q])}}

List(c) ==
    /\ todo[c] = {}
    /\ {t \in Seen : t[2] # "wait"} # {}
    /\ todo' = [todo EXCEPT ![c] = {t \in Seen : t[2] # "wait"}]
    /\ UNCHANGED <<row, report, latest, run, wire, sent, copies>>

Apply(c) ==
    \E t \in todo[c] :
        /\ row' = [row EXCEPT ![t[1]] = Reconciled(@, t[2])]
        /\ todo' = [todo EXCEPT ![c] = @ \ {t}]
        /\ UNCHANGED <<report, latest, run, wire, sent, copies>>

-----------------------------------------------------------------------------

RunStep(s) ==
    \/ \E p \in Part : \/ Skip(s, p) \/ Halt(s, p) \/ Send(s, p)
                       \/ SendRefused(s, p) \/ SendUnanswered(s, p)
    \/ CallReport(s) \/ Continue(s) \/ GiveUp(s) \/ Finish(s) \/ Crash(s)

Handle == \E s \in Sender, p \in Part : Duplicate(s, p) \/ Conflict(s, p) \/ Record(s, p)

Reconcile(c) == List(c) \/ Apply(c)

Next ==
    \/ Tick
    \/ \E s \in Sender : Commit(s) \/ Replay(s) \/ AnswerLost(s) \/ RunStep(s)
    \/ Handle
    \/ \E c \in Reconciler : Reconcile(c)

Spec == Init /\ [][Next]_vars

\* Time passes and the cron comes round.  The runs and the calls they made owe
\* us nothing.
FairSpec ==
    /\ Spec
    /\ WF_vars(Tick)
    /\ \A c \in Reconciler : WF_vars(Reconcile(c))

-----------------------------------------------------------------------------
(* What must hold. *)

\* A row says submitted only if a sender's message was really created, and it
\* names that message; its outbox event is published then and only then.
SubmittedIsProved ==
    \A p \in Part :
        /\ row[p].state = "submitted" <=> row[p].provider # None
        /\ row[p].outbox = "published" <=> row[p].provider # None
        /\ row[p].provider # None => row[p].provider \in sent[p]

\* Once a part is proved sent nothing takes it back: no late failure, no other
\* run's message id, no verdict of a reconciler that read the row before.
ProofIsFinal ==
    [][\A p \in Part :
          row[p].provider # None =>
              row'[p].provider = row[p].provider /\ row'[p].state = row[p].state]_vars

\* The customer never sees a part of the reply before the parts that come
\* before it are acknowledged.
PartsInOrder ==
    \A p, q \in Part :
        p < q /\ sent[q] # {} => row[p].state = "submitted"

\* The call is dispatched only when the whole acknowledgement was sent and its
\* submission is on record.
CallAfterReply ==
    \A s \in Sender :
        run[s].pc = "done" =>
            \A p \in Part : sent[p] # {} /\ row[p].state = "submitted"

\* A machine never lifts a pause, not even with a verdict it reached before.
PauseSticks ==
    [][\A p \in Part :
          row[p].review = "ambiguous_paused" =>
              row'[p].review = "ambiguous_paused"]_vars

\* No run submits a part twice, whatever is lost, repeated or late: a copy more
\* than one is another run's, and takes a claim that was stolen or an answer to
\* the commit that was used after it had been given up.
OneSend == \A p \in Part : copies[p] = Cardinality(sent[p])

\* A leased part is not forgotten when its run dies: it is settled or a person
\* is told.
NothingForgotten ==
    \A p \in Part :
        row[p].state = "leased" ~> \/ row[p].state # "leased"
                                   \/ row[p].review = "ambiguous_paused"
-----------------------------------------------------------------------------
(* The inductive invariant behind the safety properties. *)

\* What the triggers and the reports leave of the states of the ledger.
RowShape ==
    \A p \in Part :
        /\ row[p].state \in {"absent", "leased", "failed_retryable", "submitted"}
        /\ row[p].state = "absent" => row[p] = NoDelivery
        /\ row[p].state # "absent" => row[p].attempts = 1
        /\ latest[p] = "submitted" => row[p].state = "submitted"

\* The parts are committed together, before a run works on any of them.
CommitShape ==
    \A p, q \in Part :
        row[p].state = "absent" =>
            /\ row[q].state = "absent"
            /\ \A s \in Sender : run[s].pc = "idle" /\ wire[s][p].status = "none"

\* What was listed exists and calls for one of two verdicts: a proved send is
\* not listed, and no row is out of attempts.
TodoShape ==
    \A c \in Reconciler : \A t \in todo[c] :
        /\ row[t[1]].state # "absent"
        /\ t[2] \in {"authorize_resend", "pause_ambiguous"}

\* A report of a submission is true and was heeded.
ReportShape ==
    /\ \A p \in Part : \A e \in report[p] :
          e.status = "submitted" => row[p].state = "submitted"
    /\ \A s \in Sender, p \in Part :
          /\ wire[s][p].status = "submitted" => s \in sent[p]
          /\ wire[s][p].status = "submitted" /\ wire[s][p].answer = "ok"
                => row[p].state = "submitted"

\* A run went past the parts that are acknowledged and past no other.
RunShape ==
    \A s \in Sender :
        /\ run[s].pc \in {"sent", "unsent", "reporting"} => run[s].part \in Part
        /\ run[s].pc = "sent" => s \in sent[run[s].part]
        /\ run[s].pc = "reporting" => wire[s][run[s].part].status = "submitted"
        /\ run[s].pc = "done" => run[s].part = Parts + 1
        /\ \A p \in Part :
              /\ run[s].view[p] = "submitted" => row[p].state = "submitted"
              /\ p < run[s].part => row[p].state = "submitted"
              /\ s \in sent[p] => \/ p < run[s].part
                                  \/ p = run[s].part /\ run[s].pc \notin {"idle", "parts"}

IInv ==
    /\ TypeOK
    /\ SubmittedIsProved
    /\ PartsInOrder
    /\ RowShape
    /\ CommitShape
    /\ TodoShape
    /\ ReportShape
    /\ RunShape
=============================================================================
