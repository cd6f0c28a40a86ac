----------------------- MODULE BotpressDeliveryProofs -----------------------
(***************************************************************************)
(* Proofs about BotpressDelivery for any number of parts, runs and passes  *)
(* of the reconciler, every lease, grace and budget of at least two        *)
(* attempts; and, in the last part, about the turn the reply belongs to,   *)
(* TurnDelivery, for every set of messages, window and budget of claims.   *)
(***************************************************************************)
EXTENDS TurnDelivery, FiniteSetTheorems, TLAPS

-----------------------------------------------------------------------------
(* What the steps do to a row. *)

\* A step that leaves alone what the invariant says of a row.
Same(r, q) == /\ q \in Delivery
              /\ q.state = r.state /\ q.outbox = r.outbox
              /\ q.attempts = r.attempts /\ q.provider = r.provider
              /\ r.review = "ambiguous_paused" => q.review = "ambiguous_paused"
              /\ r = NoDelivery => q = NoDelivery

LEMMA AgedSame == ASSUME NEW r \in Delivery PROVE Same(r, Aged(r))
<1>1. \A n \in Nat : Less1(n) \in Nat
  BY DEF Less1
<1>2. Aged(r) \in Delivery
  BY <1>1 DEF Aged, Delivery
<1>3. Aged(NoDelivery) = NoDelivery
  <2>1. Less1(NoDelivery.lease) = 0 /\ Less1(NoDelivery.quiet) = 0
    BY DEF Less1, NoDelivery
  <2>2. [NoDelivery EXCEPT !.lease = 0, !.quiet = 0] = NoDelivery
    <3>1. [NoDelivery EXCEPT !.lease = 0] = NoDelivery
      BY DEF NoDelivery
    <3>2. [NoDelivery EXCEPT !.quiet = 0] = NoDelivery
      BY DEF NoDelivery
    <3>3. QED
      BY <3>1, <3>2
  <2>3. Aged(NoDelivery)
           = [NoDelivery EXCEPT !.lease = Less1(NoDelivery.lease),
                                !.quiet = Less1(NoDelivery.quiet)]
    BY DEF Aged
  <2>4. QED
    BY <2>1, <2>2, <2>3
<1>4. r = NoDelivery => Aged(r) = NoDelivery
  BY <1>3
<1>5. QED
  BY <1>2, <1>4 DEF Same, Aged, Delivery

\* The reconciler never moves a part: it marks it.
LEMMA ReconciledSame ==
    ASSUME NEW r \in Delivery, r # NoDelivery,
           NEW a \in {"authorize_resend", "pause_ambiguous"}
    PROVE  Same(r, Reconciled(r, a))
<1>1. Grace \in Nat
  BY LedgerAssumption DEF LedgerAssumption
<1>2. ASSUME NEW v \in {"confirmed_sent", "resend_authorized", "ambiguous_paused"}
      PROVE  /\ Reviewed(r, v) \in Delivery
             /\ [r EXCEPT !.review = v, !.quiet = Grace] \in Delivery
  BY <1>1, <1>2 DEF Reviewed, Delivery, Review
<1>3. CASE Held(r, a)
  BY <1>3 DEF Same, Reconciled
<1>4. CASE ~Held(r, a) /\ a = "authorize_resend"
  <2>1. r.review # "ambiguous_paused"
    BY <1>4 DEF Held
  <2>2. \/ Reconciled(r, a) = [r EXCEPT !.review = "confirmed_sent", !.quiet = Grace]
        \/ Reconciled(r, a) = Reviewed(r, "resend_authorized")
    BY <1>4 DEF Reconciled
  <2>3. QED
    BY <1>2, <2>1, <2>2 DEF Same, Reviewed, Delivery
<1>5. CASE ~Held(r, a) /\ a = "pause_ambiguous"
  <2>1. Reconciled(r, a) = Reviewed(r, "ambiguous_paused")
    BY <1>5 DEF Reconciled
  <2>2. QED
    BY <1>2, <2>1 DEF Same, Reviewed, Delivery
<1>6. QED
  BY <1>3, <1>4, <1>5

LEMMA ReportedRow ==
    ASSUME NEW r \in Delivery, NEW s \in Sender
    PROVE  Submitted(r, s) \in Delivery /\ Failed(r) \in Delivery
BY LedgerAssumption
   DEF LedgerAssumption, Submitted, Failed, Delivery, DeliveryState, OutboxState

\* A row that is listed is leased, failed or pending without proof, with attempts
\* left: it is left alone, paused or marked for a resend.
LEMMA VerdictOf ==
    ASSUME NEW r \in Delivery, NEW reported \in Reported,
           r.state \in {"leased", "failed_retryable"}, r.provider = None,
           r.attempts = 1, reported # "submitted"
    PROVE  Verdict(r, reported) \in {"wait", "authorize_resend", "pause_ambiguous"}
BY BotpressAssumption DEF BotpressAssumption, Verdict, OnBudget, Settled
-----------------------------------------------------------------------------
(* The inductive invariant at the start. *)

LEMMA InitIInv == Init => IInv
<1> SUFFICES ASSUME Init PROVE IInv
  OBVIOUS
<1>1. TypeOK
  <2>1. NoDelivery \in Delivery
    BY LedgerAssumption
       DEF LedgerAssumption, NoDelivery, Delivery, DeliveryState, OutboxState, Review
  <2>2. IdleRun \in Run
    BY BotpressAssumption DEF BotpressAssumption, IdleRun, Run, Pc, Status, Part
  <2>3. NoCall \in Call
    BY DEF NoCall, Call, Reported
  <2>4. QED
    BY <2>1, <2>2, <2>3 DEF Init, TypeOK, Reported
<1>2. /\ SubmittedIsProved /\ PartsInOrder /\ RowShape /\ CommitShape
      /\ TodoShape /\ ReportShape
  BY DEF Init, SubmittedIsProved, PartsInOrder, RowShape, CommitShape, TodoShape,
         ReportShape, NoDelivery, NoCall, IdleRun
<1>3. RunShape
  <2>1. \A s \in Sender : /\ run[s].pc = "idle" /\ run[s].part = 1
                          /\ \A p \in Part : run[s].view[p] = "pending"
    BY DEF Init, IdleRun
  <2>2. \A p \in Part : ~(p < 1) /\ sent[p] = {}
    BY DEF Init, Part
  <2>3. QED
    BY <2>1, <2>2 DEF RunShape
<1>4. QED
  BY <1>1, <1>2, <1>3 DEF IInv

-----------------------------------------------------------------------------
(* Steps that leave the runs alone and what the invariant says of the rows: *)
(* time, and the reconciler.                                                *)

LEMMA MarksIInv ==
    ASSUME IInv,
           row' \in [Part -> Delivery], \A p \in Part : Same(row[p], row'[p]),
           todo' \in [Reconciler -> SUBSET (Part \X Verdicts)],
           TodoShape',
           UNCHANGED <<report, latest, run, wire, sent, copies>>
    PROVE  IInv'
<1> USE DEF IInv
<1>1. \A p \in Part : /\ row'[p].state = row[p].state
                      /\ row'[p].outbox = row[p].outbox
                      /\ row'[p].attempts = row[p].attempts
                      /\ row'[p].provider = row[p].provider
                      /\ row[p] = NoDelivery => row'[p] = NoDelivery
  BY DEF Same
<1>2. TypeOK'
  BY DEF TypeOK
<1>3. SubmittedIsProved' /\ PartsInOrder'
  BY <1>1 DEF SubmittedIsProved, PartsInOrder
<1>4. RowShape' /\ CommitShape'
  BY <1>1 DEF RowShape, CommitShape
<1>5. ReportShape'
  BY <1>1 DEF ReportShape
<1>6. RunShape'
  BY <1>1 DEF RunShape
<1>7. QED
  BY <1>2, <1>3, <1>4, <1>5, <1>6

LEMMA TickIInv == ASSUME IInv, Tick PROVE IInv'
<1>1. \A p \in Part : row'[p] = Aged(row[p]) /\ Same(row[p], row'[p])
  BY AgedSame DEF IInv, TypeOK, Tick
<1>2. row' \in [Part -> Delivery]
  BY <1>1 DEF Tick, Same
<1>3. todo' \in [Reconciler -> SUBSET (Part \X Verdicts)]
  BY DEF IInv, TypeOK, Tick
<1>4. TodoShape'
  <2>1. ASSUME NEW c \in Reconciler, NEW t \in todo[c]
        PROVE  row'[t[1]].state # "absent"
    <3>1. t[1] \in Part /\ row[t[1]].state # "absent"
      BY DEF IInv, TypeOK, TodoShape
    <3>2. QED
      BY <1>1, <3>1 DEF Same
  <2>2. QED
    BY <2>1 DEF IInv, TodoShape, Tick
<1>5. QED
  BY <1>1, <1>2, <1>3, <1>4, MarksIInv DEF Tick

LEMMA ListIInv == ASSUME IInv, NEW c \in Reconciler, List(c) PROVE IInv'
<1>1. \A p \in Part : Same(row[p], row'[p])
  BY DEF IInv, TypeOK, List, Same
<1>2. ASSUME NEW t \in Seen, t[2] # "wait"
      PROVE  /\ t \in Part \X Verdicts
             /\ row[t[1]].state # "absent"
             /\ t[2] \in {"authorize_resend", "pause_ambiguous"}
  <2>1. PICK p \in Part : Stale(row[p]) /\ t = <<p, Verdict(row[p], latest[p])>>
    BY DEF Seen
  <2>2. /\ row[p] \in Delivery /\ latest[p] \in Reported
        /\ row[p].state \in {"leased", "failed_retryable"}
        /\ row[p].attempts = 1 /\ row[p].provider = None
        /\ latest[p] # "submitted"
    BY <2>1 DEF IInv, TypeOK, RowShape, SubmittedIsProved, Stale
  <2>3. Verdict(row[p], latest[p]) \in {"wait", "authorize_resend", "pause_ambiguous"}
    BY <2>2, VerdictOf
  <2>4. QED
    BY <1>2, <2>1, <2>2, <2>3 DEF Verdicts
<1>3. todo' \in [Reconciler -> SUBSET (Part \X Verdicts)]
  BY <1>2 DEF IInv, TypeOK, List
<1>4. TodoShape'
  BY <1>2 DEF IInv, TypeOK, TodoShape, List
<1>5. QED
  BY <1>1, <1>3, <1>4, MarksIInv DEF List, IInv, TypeOK

\* What Apply does to the rows, for the proofs below.
LEMMA ApplySame ==
    ASSUME IInv, NEW c \in Reconciler, Apply(c)
    PROVE  \A p \in Part : Same(row[p], row'[p])
<1>1. PICK t \in todo[c] : row' = [row EXCEPT ![t[1]] = Reconciled(@, t[2])]
  BY DEF Apply
<1>2. /\ t[1] \in Part /\ row[t[1]] \in Delivery /\ row[t[1]] # NoDelivery
      /\ t[2] \in {"authorize_resend", "pause_ambiguous"}
  BY DEF IInv, TypeOK, TodoShape, NoDelivery
<1>3. Same(row[t[1]], Reconciled(row[t[1]], t[2]))
  BY <1>2, ReconciledSame
<1>4. ASSUME NEW p \in Part, p # t[1] PROVE Same(row[p], row'[p])
  BY <1>1, <1>4 DEF IInv, TypeOK, Same
<1>5. row'[t[1]] = Reconciled(row[t[1]], t[2])
  BY <1>1, <1>2 DEF IInv, TypeOK
<1>6. QED
  BY <1>3, <1>4, <1>5

LEMMA ApplyIInv == ASSUME IInv, NEW c \in Reconciler, Apply(c) PROVE IInv'
<1>1. \A p \in Part : Same(row[p], row'[p])
  BY ApplySame
<1>2. PICK t \in todo[c] : /\ row' = [row EXCEPT ![t[1]] = Reconciled(@, t[2])]
                          /\ todo' = [todo EXCEPT ![c] = @ \ {t}]
  BY DEF Apply
<1>3. row' \in [Part -> Delivery]
  BY <1>1, <1>2 DEF IInv, TypeOK, Same
<1>4. todo' \in [Reconciler -> SUBSET (Part \X Verdicts)]
  BY <1>2 DEF IInv, TypeOK
<1>5. TodoShape'
  <2>1. ASSUME NEW d \in Reconciler, NEW u \in todo'[d]
        PROVE  row'[u[1]].state # "absent" /\ u[2] \in {"authorize_resend", "pause_ambiguous"}
    <3>1. u \in todo[d]
      BY <1>2 DEF IInv, TypeOK
    <3>2. u[1] \in Part
      BY <3>1 DEF IInv, TypeOK
    <3>3. QED
      BY <1>1, <3>1, <3>2 DEF IInv, TodoShape, Same
  <2>2. QED
    BY <2>1 DEF TodoShape
<1>6. QED
  BY <1>1, <1>3, <1>4, <1>5, MarksIInv DEF Apply
-----------------------------------------------------------------------------
(* The commit. *)

LEMMA CommitIInv == ASSUME IInv, NEW s \in Sender, Commit(s) PROVE IInv'
<1> DEFINE leased == [Enqueued EXCEPT !.state = "leased", !.outbox = "leased",
                                     !.lease = SendLease, !.attempts = 1]
<1>1. /\ leased \in Delivery /\ leased.state = "leased" /\ leased.outbox = "leased"
      /\ leased.attempts = 1 /\ leased.provider = None
  BY LedgerAssumption, BotpressAssumption
     DEF LedgerAssumption, BotpressAssumption, Enqueued, NoDelivery, Delivery,
         DeliveryState, OutboxState, Review
<1>2. \A p \in Part : row'[p] = leased
  BY DEF Commit
<1>3. \A p \in Part : row[p].state = "absent" /\ latest[p] # "submitted" /\ sent[p] = {}
  <2>1. \A p \in Part : row[p].state = "absent"
    BY DEF Commit, Committed, IInv, CommitShape
  <2>2. \A p \in Part : latest[p] # "submitted"
    BY <2>1 DEF IInv, RowShape
  <2>3. \A p \in Part, u \in Sender : u \notin sent[p]
    <3>1. ASSUME NEW p \in Part, NEW u \in Sender, u \in sent[p] PROVE FALSE
      <4>1. run[u].pc = "idle"
        BY <2>1 DEF IInv, CommitShape
      <4>2. p < run[u].part
        BY <3>1, <4>1 DEF IInv, RunShape
      <4>3. QED
        BY <2>1, <4>2 DEF IInv, RunShape
    <3>2. QED
      BY <3>1
  <2>4. QED
    BY <2>1, <2>2, <2>3 DEF IInv, TypeOK
<1>4. /\ run[s] \in Run /\ run'[s] = [run[s] EXCEPT !.pc = "parts"]
      /\ \A u \in Sender \ {s} : run'[u] = run[u]
  BY DEF IInv, TypeOK, Commit
<1>5. run'[s] \in Run /\ run'[s].pc = "parts" /\ run'[s].part = run[s].part
      /\ run'[s].view = run[s].view
  BY <1>4 DEF Run, Pc
<1>6. TypeOK'
  BY <1>1, <1>5 DEF IInv, TypeOK, Commit
<1>7. SubmittedIsProved' /\ PartsInOrder' /\ RowShape' /\ CommitShape'
  <2>1. sent' = sent /\ latest' = latest
    BY DEF Commit
  <2>2. QED
    BY <1>1, <1>2, <1>3, <2>1 DEF SubmittedIsProved, PartsInOrder, RowShape, CommitShape
<1>8. TodoShape' /\ ReportShape'
  <2>1. todo' = todo /\ report' = report /\ wire' = wire /\ sent' = sent
    BY DEF Commit
  <2>2. TodoShape'
    <3>1. \A c \in Reconciler : \A t \in todo[c] : t[1] \in Part
      BY DEF IInv, TypeOK
    <3>2. \A p \in Part : row'[p].state # "absent"
      BY <1>1, <1>2
    <3>3. QED
      BY <2>1, <3>1, <3>2 DEF IInv, TodoShape
  <2>3. ReportShape'
    BY <1>3, <2>1 DEF IInv, ReportShape
  <2>4. QED
    BY <2>2, <2>3
<1>9. RunShape'
  <2>1. \A u \in Sender, p \in Part :
           run[u].view[p] # "submitted" /\ ~(p < run[u].part) /\ u \notin sent[p]
    BY <1>3 DEF IInv, RunShape
  <2>2. \A u \in Sender : run[u].pc = "idle"
    <3>1. 1 \in Part
      BY BotpressAssumption DEF BotpressAssumption, Part
    <3>2. QED
      BY <1>3, <3>1 DEF IInv, CommitShape
  <2>3. sent' = sent /\ wire' = wire
    BY DEF Commit
  <2>4. \A u \in Sender : /\ run'[u].pc \in {"idle", "parts"}
                          /\ run'[u].part = run[u].part
                          /\ run'[u].view = run[u].view
    BY <1>4, <1>5, <2>2
  <2>5. QED
    BY <2>1, <2>3, <2>4 DEF RunShape
<1>10. QED
  BY <1>6, <1>7, <1>8, <1>9 DEF IInv

-----------------------------------------------------------------------------
(* Steps of a run that leave the tables alone.  q is the run after the step. *)

Fits(s, q) ==
    /\ q.pc \in {"sent", "unsent", "reporting"} => q.part \in Part
    /\ q.pc = "sent" => s \in sent'[q.part]
    /\ q.pc = "reporting" => wire'[s][q.part].status = "submitted"
    /\ q.pc = "done" => q.part = Parts + 1
    /\ \A p \in Part :
          /\ q.view[p] = "submitted" => row[p].state = "submitted"
          /\ p < q.part => row[p].state = "submitted"
          /\ s \in sent'[p] => \/ p < q.part
                               \/ p = q.part /\ q.pc \notin {"idle", "parts"}

LEMMA RunIInv ==
    ASSUME IInv, NEW s \in Sender, NEW q \in Run, run' = [run EXCEPT ![s] = q],
           UNCHANGED <<row, report, latest, todo>>,
           wire' \in [Sender -> [Part -> Call]], sent' \in [Part -> SUBSET Sender],
           copies' \in [Part -> Nat],
           \A u \in Sender, p \in Part :
              /\ u # s => wire'[u][p] = wire[u][p]
              /\ u \in sent[p] => u \in sent'[p]
              /\ u \in sent'[p] => u \in sent[p] \/ u = s,
           ReportShape', PartsInOrder', Fits(s, q),
           \E p \in Part : row[p].state # "absent"
    PROVE  IInv'
<1> USE DEF IInv
<1>1. run'[s] = q /\ \A u \in Sender \ {s} : run'[u] = run[u]
  BY DEF TypeOK
<1>2. TypeOK'
  BY <1>1 DEF TypeOK
<1>3. SubmittedIsProved'
  BY DEF SubmittedIsProved, TypeOK, Delivery
<1>4. RowShape' /\ TodoShape'
  BY DEF RowShape, TodoShape
<1>5. CommitShape'
  <2>1. \A p \in Part : row[p].state # "absent"
    BY DEF CommitShape
  <2>2. QED
    BY <2>1 DEF CommitShape
<1>6. RunShape'
  <2>1. ASSUME NEW u \in Sender \ {s}
        PROVE  /\ run'[u] = run[u]
               /\ \A p \in Part : /\ wire'[u][p] = wire[u][p]
                                   /\ u \in sent'[p] <=> u \in sent[p]
    BY <1>1
  <2>2. QED
    BY <1>1, <2>1 DEF RunShape, Fits
<1>7. QED
  BY <1>2, <1>3, <1>4, <1>5, <1>6
\* The tables and the messages are left alone too.
LEMMA QuietRunIInv ==
    ASSUME IInv, NEW s \in Sender, NEW q \in Run, run' = [run EXCEPT ![s] = q],
           UNCHANGED <<row, report, latest, wire, sent, copies, todo>>,
           Fits(s, q), \E p \in Part : row[p].state # "absent"
    PROVE  IInv'
<1>1. /\ wire' \in [Sender -> [Part -> Call]] /\ sent' \in [Part -> SUBSET Sender]
      /\ copies' \in [Part -> Nat]
  BY DEF IInv, TypeOK
<1>2. ReportShape' /\ PartsInOrder'
  BY DEF IInv, ReportShape, PartsInOrder
<1>3. QED
  BY <1>1, <1>2, RunIInv

\* A run that works is at a part of a committed reply.
LEMMA Working ==
    ASSUME IInv, NEW s \in Sender, run[s].pc # "idle"
    PROVE  /\ run[s] \in Run
           /\ \E p \in Part : row[p].state # "absent"
           /\ \A p \in Part : /\ run[s].view[p] = "submitted" => row[p].state = "submitted"
                              /\ p < run[s].part => row[p].state = "submitted"
<1>1. 1 \in Part
  BY BotpressAssumption DEF BotpressAssumption, Part
<1>2. row[1].state # "absent"
  BY <1>1 DEF IInv, CommitShape
<1>3. QED
  BY <1>1, <1>2 DEF IInv, TypeOK, RunShape

LEMMA StepPart ==
    /\ Parts + 1 \in Nat
    /\ \A p \in Part : p \in Nat /\ p + 1 \in Part \cup {Parts + 1}
    /\ \A p, q \in Part : p < q + 1 <=> p < q \/ p = q
    /\ \A p \in Part : p # Parts + 1 /\ p < Parts + 1 /\ ~(Parts + 1 < p)
BY BotpressAssumption DEF BotpressAssumption, Part

LEMMA ReplayIInv == ASSUME IInv, NEW s \in Sender, Replay(s) PROVE IInv'
<1> DEFINE told == [p \in Part |-> StatusOf(row[p].state)]
           q == [run[s] EXCEPT !.pc = "parts", !.view = told]
<1>1. run[s] \in Run /\ run[s].pc = "idle"
  BY DEF IInv, TypeOK, Replay
<1>2. told \in [Part -> Status]
  BY DEF StatusOf, Status
<1>3. q \in Run /\ q.pc = "parts" /\ q.part = run[s].part /\ q.view = told
  BY <1>1, <1>2 DEF Run, Pc
<1>4. run' = [run EXCEPT ![s] = q]
  BY <1>1, <1>3 DEF Replay, IInv, TypeOK
<1>5. \E p \in Part : row[p].state # "absent"
  <2>1. 1 \in Part
    BY BotpressAssumption DEF BotpressAssumption, Part
  <2>2. QED
    BY <2>1 DEF Replay, Committed
<1>6. \A p \in Part : told[p] = "submitted" => row[p].state = "submitted"
  BY DEF StatusOf, IInv, RowShape
<1>7. Fits(s, q)
  <2>1. sent' = sent
    BY DEF Replay
  <2>2. \A p \in Part : /\ p < q.part => row[p].state = "submitted"
                        /\ s \in sent[p] => p < q.part
    BY <1>1, <1>3 DEF IInv, RunShape
  <2>3. QED
    BY <1>3, <1>6, <2>1, <2>2 DEF Fits
<1>8. QED
  BY <1>3, <1>4, <1>5, <1>7, QuietRunIInv DEF Replay

LEMMA AnswerLostIInv == ASSUME IInv, NEW s \in Sender, AnswerLost(s) PROVE IInv'
<1>1. run[s].pc = "parts" /\ run[s].part = 1 /\ run' = [run EXCEPT ![s] = IdleRun]
  BY DEF AnswerLost
<1>2. \E p \in Part : row[p].state # "absent"
  BY <1>1, Working
<1>3. IdleRun \in Run
  BY BotpressAssumption DEF BotpressAssumption, IdleRun, Run, Pc, Status, Part
<1>4. Fits(s, IdleRun)
  <2>1. \A p \in Part : ~(p < 1)
    BY DEF Part
  <2>2. \A p \in Part : s \notin sent[p]
    BY <1>1, <2>1 DEF IInv, RunShape
  <2>3. sent' = sent
    BY DEF AnswerLost
  <2>4. QED
    BY <2>1, <2>2, <2>3 DEF Fits, IdleRun
<1>5. QED
  BY <1>1, <1>2, <1>3, <1>4, QuietRunIInv DEF AnswerLost

\* A run that goes on to the next part has the present one acknowledged.
LEMMA NextPartIInv ==
    ASSUME IInv, NEW s \in Sender, run[s].part \in Part, run[s].pc # "idle",
           row[run[s].part].state = "submitted",
           NEW n, n = run[s].part + 1,
           run' = [run EXCEPT ![s] = [run[s] EXCEPT !.pc = "parts", !.part = n]],
           UNCHANGED <<row, report, latest, wire, sent, copies, todo>>
    PROVE  IInv'
<1> DEFINE q == [run[s] EXCEPT !.pc = "parts", !.part = n]
<1>1. run[s] \in Run
  BY Working
<1>2. q \in Run /\ q.pc = "parts" /\ q.part = n /\ q.view = run[s].view
  BY <1>1, StepPart DEF Run, Pc
<1>3. Fits(s, q)
  <2>1. \A p \in Part : p < n <=> p < run[s].part \/ p = run[s].part
    BY StepPart
  <2>2. \A p \in Part : /\ p < n => row[p].state = "submitted"
                        /\ run[s].view[p] = "submitted" => row[p].state = "submitted"
                        /\ s \in sent[p] => p < n
    BY <2>1 DEF IInv, RunShape
  <2>3. QED
    BY <1>2, <2>2 DEF Fits
<1>4. QED
  BY <1>2, <1>3, QuietRunIInv

LEMMA SkipIInv == ASSUME IInv, NEW s \in Sender, NEW p \in Part, Skip(s, p) PROVE IInv'
<1>1. /\ run[s].pc = "parts" /\ run[s].part = p /\ run[s].view[p] = "submitted"
      /\ run[s] \in Run
  BY DEF IInv, TypeOK, Skip, At
<1>2. row[p].state = "submitted"
  BY <1>1 DEF IInv, RunShape
<1>3. [run[s] EXCEPT !.part = p + 1] = [run[s] EXCEPT !.pc = "parts", !.part = p + 1]
  BY <1>1 DEF Run
<1>4. run' = [run EXCEPT ![s] = [run[s] EXCEPT !.pc = "parts", !.part = p + 1]]
  BY <1>1, <1>3 DEF Skip, IInv, TypeOK
<1>5. QED
  BY <1>1, <1>2, <1>4, NextPartIInv DEF Skip

LEMMA ContinueIInv == ASSUME IInv, NEW s \in Sender, Continue(s) PROVE IInv'
<1>1. run[s].part \in Part /\ row[run[s].part].state = "submitted" /\ run[s].pc # "idle"
  BY DEF IInv, RunShape, ReportShape, Continue
<1>2. run' = [run EXCEPT ![s] = [run[s] EXCEPT !.pc = "parts", !.part = run[s].part + 1]]
  BY DEF Continue, IInv, TypeOK
<1>3. QED
  BY <1>1, <1>2, NextPartIInv DEF Continue

\* A run that stops where it is, is refused a part or is done.
LEMMA HaltsIInv ==
    ASSUME IInv, NEW s \in Sender, run[s].pc \notin {"idle", "done"},
           NEW pc \in {"unsent", "stopped", "done"},
           pc = "unsent" => run[s].part \in Part,
           pc = "done" => run[s].part = Parts + 1,
           run' = [run EXCEPT ![s] = [run[s] EXCEPT !.pc = pc]],
           UNCHANGED <<row, report, latest, wire, sent, copies, todo>>
    PROVE  IInv'
<1> DEFINE q == [run[s] EXCEPT !.pc = pc]
<1>1. run[s] \in Run
  BY Working
<1>2. q \in Run /\ q.pc = pc /\ q.part = run[s].part /\ q.view = run[s].view
  BY <1>1 DEF Run, Pc
<1>3. Fits(s, q)
  BY <1>2 DEF Fits, IInv, RunShape
<1>4. \E p \in Part : row[p].state # "absent"
  BY Working
<1>5. QED
  BY <1>2, <1>3, <1>4, QuietRunIInv
LEMMA RunStepIInv ==
    ASSUME IInv, NEW s \in Sender,
           \/ \E p \in Part : Halt(s, p) \/ SendRefused(s, p)
           \/ GiveUp(s) \/ Finish(s) \/ Crash(s)
    PROVE  IInv'
<1>1. CASE \E p \in Part : Halt(s, p) \/ SendRefused(s, p)
  <2>1. PICK pc \in {"unsent", "stopped"} :
           /\ run' = [run EXCEPT ![s] = [run[s] EXCEPT !.pc = pc]]
           /\ run[s].pc = "parts" /\ run[s].part \in Part
    BY <1>1 DEF Halt, SendRefused, At, IInv, TypeOK
  <2>2. QED
    BY <1>1, <2>1, HaltsIInv DEF Halt, SendRefused
<1>2. CASE GiveUp(s) \/ Crash(s)
  <2>1. /\ run' = [run EXCEPT ![s] = [run[s] EXCEPT !.pc = "stopped"]]
        /\ run[s].pc \notin {"idle", "done"}
    BY <1>2 DEF GiveUp, Crash, IInv, TypeOK
  <2>2. QED
    BY <1>2, <2>1, HaltsIInv DEF GiveUp, Crash
<1>3. CASE Finish(s)
  <2>1. /\ run' = [run EXCEPT ![s] = [run[s] EXCEPT !.pc = "done"]]
        /\ run[s].pc = "parts" /\ run[s].part = Parts + 1
    BY <1>3 DEF Finish, IInv, TypeOK
  <2>2. QED
    BY <1>3, <2>1, HaltsIInv DEF Finish
<1>4. QED
  BY <1>1, <1>2, <1>3

LEMMA SendIInv ==
    ASSUME IInv, NEW s \in Sender, NEW p \in Part, Send(s, p) \/ SendUnanswered(s, p)
    PROVE  IInv'
<1>1. PICK pc \in {"sent", "unsent"} : run' = [run EXCEPT ![s] = [run[s] EXCEPT !.pc = pc]]
  BY DEF Send, SendUnanswered, IInv, TypeOK
<1> DEFINE q == [run[s] EXCEPT !.pc = pc]
<1>2. run[s].pc = "parts" /\ run[s].part = p
  BY DEF Send, SendUnanswered, At
<1>3. /\ sent' = [sent EXCEPT ![p] = sent[p] \cup {s}]
      /\ copies' = [copies EXCEPT ![p] = copies[p] + 1]
      /\ UNCHANGED <<row, report, latest, wire, todo>>
  BY DEF Send, SendUnanswered, Created
<1>4. /\ wire' \in [Sender -> [Part -> Call]] /\ sent' \in [Part -> SUBSET Sender]
      /\ copies' \in [Part -> Nat]
  <2>1. copies[p] + 1 \in Nat
    BY DEF IInv, TypeOK
  <2>2. QED
    BY <1>3, <2>1 DEF IInv, TypeOK
<1>5. /\ sent'[p] = sent[p] \cup {s}
      /\ \A x \in Part \ {p} : sent'[x] = sent[x]
  BY <1>3 DEF IInv, TypeOK
<1>6. ReportShape'
  <2>1. \A x \in Part, u \in Sender : u \in sent[x] => u \in sent'[x]
    BY <1>5
  <2>2. QED
    BY <1>3, <2>1 DEF IInv, ReportShape
<1>7. PartsInOrder'
  <2>1. \A x \in Part : x < p => row[x].state = "submitted"
    BY <1>2 DEF IInv, RunShape
  <2>2. QED
    BY <1>3, <1>5, <2>1 DEF IInv, PartsInOrder
<1>8. q \in Run /\ q.pc = pc /\ q.part = p /\ q.view = run[s].view
  BY <1>2, Working DEF Run, Pc
<1>9. Fits(s, q)
  BY <1>2, <1>5, <1>8, Working DEF Fits, IInv, RunShape
<1>10. \A u \in Sender, x \in Part :
           /\ u # s => wire'[u][x] = wire[u][x]
           /\ u \in sent[x] => u \in sent'[x]
           /\ u \in sent'[x] => u \in sent[x] \/ u = s
  BY <1>3, <1>5
<1>11. \E x \in Part : row[x].state # "absent"
  BY <1>2, Working
<1>12. QED
  BY <1>1, <1>3, <1>4, <1>6, <1>7, <1>8, <1>9, <1>10, <1>11, RunIInv

LEMMA CallReportIInv == ASSUME IInv, NEW s \in Sender, CallReport(s) PROVE IInv'
<1> DEFINE p == run[s].part
           status == IF run[s].pc = "sent" THEN "submitted" ELSE "failed"
           call == [NoCall EXCEPT !.status = status]
           pc == IF run[s].pc = "sent" THEN "reporting" ELSE "stopped"
           q == [run[s] EXCEPT !.pc = pc]
<1>1. run[s].pc \in {"sent", "unsent"} /\ p \in Part /\ run[s] \in Run
  BY DEF IInv, TypeOK, RunShape, CallReport
<1>2. call \in Call /\ call.status = status /\ call.answer = "none"
  BY DEF NoCall, Call, Reported
<1>3. /\ wire'[s][p] = call
      /\ \A x \in Part \ {p} : wire'[s][x] = wire[s][x]
      /\ \A u \in Sender \ {s} : wire'[u] = wire[u]
      /\ wire' \in [Sender -> [Part -> Call]]
  BY <1>1, <1>2 DEF IInv, TypeOK, CallReport
<1>4. /\ run' = [run EXCEPT ![s] = q]
      /\ UNCHANGED <<row, report, latest, sent, copies, todo>>
  BY DEF CallReport, IInv, TypeOK
<1>5. q \in Run /\ q.pc = pc /\ q.part = p /\ q.view = run[s].view
  BY <1>1 DEF Run, Pc
<1>6. status = "submitted" => s \in sent[p]
  BY <1>1 DEF IInv, RunShape
<1>7. ReportShape'
  <2>1. ASSUME NEW u \in Sender, NEW x \in Part, u # s \/ x # p
        PROVE  wire'[u][x] = wire[u][x]
    BY <1>3, <2>1
  <2>2. /\ wire'[s][p].status = "submitted" => s \in sent[p]
        /\ wire'[s][p].answer # "ok"
    BY <1>2, <1>3, <1>6
  <2>3. \A u \in Sender, x \in Part :
           /\ wire'[u][x].status = "submitted" => u \in sent[x]
           /\ wire'[u][x].status = "submitted" /\ wire'[u][x].answer = "ok"
                 => row[x].state = "submitted"
    BY <2>1, <2>2 DEF IInv, ReportShape
  <2>4. QED
    BY <1>4, <2>3 DEF IInv, ReportShape
<1>8. PartsInOrder'
  BY <1>4 DEF IInv, PartsInOrder
<1>9. Fits(s, q)
  <2>1. \A x \in Part : s \in sent[x] => x < p \/ x = p
    BY DEF IInv, RunShape
  <2>2. \A x \in Part : /\ run[s].view[x] = "submitted" => row[x].state = "submitted"
                        /\ x < p => row[x].state = "submitted"
    BY <1>1, Working
  <2>3. pc \in {"reporting", "stopped"} /\ (pc = "reporting" => status = "submitted")
    OBVIOUS
  <2>4. QED
    BY <1>1, <1>2, <1>3, <1>4, <1>5, <2>1, <2>2, <2>3 DEF Fits
<1>10. /\ sent' \in [Part -> SUBSET Sender] /\ copies' \in [Part -> Nat]
       /\ \A u \in Sender, x \in Part :
              /\ u # s => wire'[u][x] = wire[u][x]
              /\ u \in sent[x] => u \in sent'[x]
              /\ u \in sent'[x] => u \in sent[x] \/ u = s
  BY <1>3, <1>4 DEF IInv, TypeOK
<1>11. \E x \in Part : row[x].state # "absent"
  BY <1>1, Working
<1>12. QED
  BY <1>3, <1>4, <1>5, <1>7, <1>8, <1>9, <1>10, <1>11, RunIInv

-----------------------------------------------------------------------------
(* recordDeliveryReport. *)

\* What handling a call does to the calls on the wire.
LEMMA AnsweredCall ==
    ASSUME IInv, NEW s \in Sender, NEW p \in Part, NEW answer \in {"ok", "conflict"},
           Answered(s, p, answer)
    PROVE  /\ wire' \in [Sender -> [Part -> Call]]
           /\ wire'[s][p].status = wire[s][p].status
           /\ wire'[s][p].answer = answer
           /\ \A u \in Sender, x \in Part :
                 u # s \/ x # p => wire'[u][x] = wire[u][x]
<1>1. wire[s][p] \in Call
  BY DEF IInv, TypeOK
<1>2. [wire[s][p] EXCEPT !.answer = answer] \in Call
  BY <1>1 DEF Call
<1>3. wire' = [wire EXCEPT ![s] = [wire[s] EXCEPT ![p] =
                  [wire[s][p] EXCEPT !.answer = answer]]]
  BY DEF Answered, IInv, TypeOK
<1>4. /\ wire'[s][p] = [wire[s][p] EXCEPT !.answer = answer]
      /\ \A x \in Part \ {p} : wire'[s][x] = wire[s][x]
      /\ \A u \in Sender \ {s} : wire'[u] = wire[u]
      /\ wire' \in [Sender -> [Part -> Call]]
  BY <1>2, <1>3 DEF IInv, TypeOK
<1>5. QED
  BY <1>1, <1>4 DEF Call

LEMMA AnswerIInv ==
    ASSUME IInv, NEW s \in Sender, NEW p \in Part, Duplicate(s, p) \/ Conflict(s, p)
    PROVE  IInv'
<1> USE DEF IInv
<1>1. PICK answer \in {"ok", "conflict"} :
         /\ Answered(s, p, answer) /\ wire[s][p].status # "none"
         /\ answer = "ok" => EventOf(s, p) \in report[p]
         /\ UNCHANGED <<row, report, latest, run, sent, copies, todo>>
  BY DEF Duplicate, Conflict
<1>2. /\ wire' \in [Sender -> [Part -> Call]]
      /\ wire'[s][p].status = wire[s][p].status /\ wire'[s][p].answer = answer
      /\ \A u \in Sender, x \in Part : u # s \/ x # p => wire'[u][x] = wire[u][x]
  BY <1>1, AnsweredCall
<1>3. TypeOK'
  BY <1>1, <1>2 DEF TypeOK
<1>4. SubmittedIsProved' /\ PartsInOrder' /\ RowShape' /\ TodoShape'
  BY <1>1 DEF SubmittedIsProved, PartsInOrder, RowShape, TodoShape
<1>5. \A u \in Sender, x \in Part : wire'[u][x].status = wire[u][x].status
  BY <1>2
<1>6. CommitShape' /\ RunShape'
  <2>1. RunShape'
    BY <1>1, <1>5 DEF RunShape
  <2>2. CommitShape'
    BY <1>1, <1>5 DEF CommitShape
  <2>3. QED
    BY <2>1, <2>2
<1>7. ReportShape'
  <2>1. wire[s][p].status = "submitted" /\ answer = "ok" => row[p].state = "submitted"
    BY <1>1 DEF ReportShape, EventOf
  <2>2. QED
    BY <1>1, <1>2, <1>5, <2>1 DEF ReportShape
<1>8. QED
  BY <1>3, <1>4, <1>6, <1>7

\* The row of a recorded report before and after it.
LEMMA RecordedRow ==
    ASSUME IInv, NEW s \in Sender, NEW p \in Part, Record(s, p)
    PROVE  /\ row' \in [Part -> Delivery]
           /\ \A x \in Part \ {p} : row'[x] = row[x]
           /\ row[p].state # "absent" /\ row'[p].attempts = 1
           /\ row'[p].review = row[p].review
           /\ \/ /\ wire[s][p].status = "submitted" /\ s \in sent[p]
                 /\ row'[p].state = "submitted" /\ row'[p].outbox = "published"
                 /\ row'[p].provider = s
                 /\ row[p].state = "submitted" => row[p].provider = s
              \/ /\ wire[s][p].status = "failed" /\ row[p].state # "submitted"
                 /\ row'[p].state = "failed_retryable"
                 /\ row'[p].outbox = "failed_retryable" /\ row'[p].provider = None
<1>1. row[p] \in Delivery /\ wire[s][p] \in Call
  BY DEF IInv, TypeOK
<1>2. wire[s][p].status # "none" /\ row[p].state # "absent" /\ row[p].attempts = 1
  BY DEF Record, EventOf, IInv, CommitShape, RowShape
<1>3. CASE wire[s][p].status = "submitted"
  <2>1. row' = [row EXCEPT ![p] = Submitted(row[p], s)]
    BY <1>3 DEF Record, EventOf
  <2>2. row[p].state = "submitted" => row[p].provider = s
    BY <1>3 DEF Record, EventOf, Refuses
  <2>3. s \in sent[p]
    BY <1>3 DEF IInv, ReportShape
  <2>4. /\ Submitted(row[p], s).state = "submitted"
        /\ Submitted(row[p], s).outbox = "published"
        /\ Submitted(row[p], s).provider = s
        /\ Submitted(row[p], s).attempts = row[p].attempts
        /\ Submitted(row[p], s).review = row[p].review
    BY <1>1 DEF Submitted, Delivery
  <2>5. QED
    BY <1>1, <1>2, <1>3, <2>1, <2>2, <2>3, <2>4, ReportedRow DEF IInv, TypeOK
<1>4. CASE wire[s][p].status # "submitted"
  <2>1. wire[s][p].status = "failed"
    BY <1>1, <1>2, <1>4 DEF Call, Reported
  <2>2. row' = [row EXCEPT ![p] = Failed(row[p])]
    BY <1>4 DEF Record, EventOf
  <2>3. row[p].state # "submitted"
    BY <2>1 DEF Record, EventOf, Refuses
  <2>4. row[p].provider = None
    BY <2>3 DEF IInv, SubmittedIsProved
  <2>5. /\ Failed(row[p]).state = "failed_retryable"
        /\ Failed(row[p]).outbox = "failed_retryable"
        /\ Failed(row[p]).provider = row[p].provider
        /\ Failed(row[p]).attempts = row[p].attempts
        /\ Failed(row[p]).review = row[p].review
    BY <1>1 DEF Failed, Delivery
  <2>6. QED
    BY <1>1, <1>2, <2>1, <2>2, <2>3, <2>4, <2>5, ReportedRow DEF IInv, TypeOK
<1>5. QED
  BY <1>3, <1>4
LEMMA RecordIInv ==
    ASSUME IInv, NEW s \in Sender, NEW p \in Part, Record(s, p) PROVE IInv'
<1> DEFINE e == EventOf(s, p)
<1>1. /\ wire' \in [Sender -> [Part -> Call]]
      /\ wire'[s][p].status = wire[s][p].status /\ wire'[s][p].answer = "ok"
      /\ \A u \in Sender, x \in Part : u # s \/ x # p => wire'[u][x] = wire[u][x]
  BY AnsweredCall DEF Record
<1>2. \A u \in Sender, x \in Part : wire'[u][x].status = wire[u][x].status
  BY <1>1
<1>3. /\ row' \in [Part -> Delivery]
      /\ \A x \in Part \ {p} : row'[x] = row[x]
      /\ row[p].state # "absent" /\ row'[p].state # "absent" /\ row'[p].attempts = 1
  BY RecordedRow
<1>4. \A x \in Part : /\ row[x].state = "submitted" => row'[x].state = "submitted"
                      /\ row'[x].state = "absent" <=> row[x].state = "absent"
  BY <1>3, RecordedRow
<1>5. /\ UNCHANGED <<run, sent, copies, todo>>
      /\ latest' = [latest EXCEPT ![p] = wire[s][p].status]
      /\ report' = [report EXCEPT ![p] = report[p] \cup {e}]
      /\ wire[s][p].status # "none"
  BY DEF Record, EventOf
<1>6. wire[s][p].status \in {"submitted", "failed"} /\ e.status = wire[s][p].status
  BY <1>5 DEF IInv, TypeOK, Call, Reported, EventOf
<1>7. wire[s][p].status = "submitted" => row'[p].state = "submitted"
  BY RecordedRow
<1>8. TypeOK'
  <2>1. e \in Report
    BY <1>6 DEF EventOf, Report
  <2>2. latest' \in [Part -> Reported] /\ report' \in [Part -> SUBSET Report]
    BY <1>5, <1>6, <2>1 DEF IInv, TypeOK, Reported
  <2>3. QED
    BY <1>1, <1>3, <1>5, <2>2 DEF IInv, TypeOK
<1>9. SubmittedIsProved'
  <2>1. /\ row'[p].state = "submitted" <=> row'[p].provider # None
        /\ row'[p].outbox = "published" <=> row'[p].provider # None
        /\ row'[p].provider # None => row'[p].provider \in sent[p]
    BY RecordedRow, LedgerAssumption DEF LedgerAssumption
  <2>2. QED
    BY <1>3, <1>5, <2>1 DEF IInv, SubmittedIsProved
<1>10. PartsInOrder'
  BY <1>4, <1>5 DEF IInv, PartsInOrder
<1>11. RowShape'
  <2>1. ASSUME NEW x \in Part, x # p
        PROVE  row'[x] = row[x] /\ latest'[x] = latest[x]
    BY <1>3, <1>5, <2>1 DEF IInv, TypeOK
  <2>2. /\ row'[p].state \in {"failed_retryable", "submitted"}
        /\ latest'[p] = wire[s][p].status
    BY <1>5, RecordedRow DEF IInv, TypeOK
  <2>3. QED
    BY <1>3, <1>7, <2>1, <2>2 DEF IInv, RowShape
<1>12. CommitShape'
  <2>1. \A x \in Part : row'[x].state # "absent"
    BY <1>3, <1>4 DEF IInv, CommitShape
  <2>2. QED
    BY <2>1 DEF CommitShape
<1>13. TodoShape'
  <2>1. \A c \in Reconciler : \A t \in todo[c] : t[1] \in Part
    BY DEF IInv, TypeOK
  <2>2. QED
    BY <1>4, <1>5, <2>1 DEF IInv, TodoShape
<1>14. ReportShape'
  <2>1. ASSUME NEW x \in Part, NEW f \in report'[x], f.status = "submitted"
        PROVE  row'[x].state = "submitted"
    <3>1. CASE f \in report[x]
      BY <1>4, <2>1, <3>1 DEF IInv, ReportShape
    <3>2. CASE f \notin report[x]
      <4>1. x = p /\ f = e
        BY <1>5, <3>2 DEF IInv, TypeOK
      <4>2. QED
        BY <1>6, <1>7, <2>1, <4>1
    <3>3. QED
      BY <3>1, <3>2
  <2>2. ASSUME NEW u \in Sender, NEW x \in Part, wire'[u][x].status = "submitted"
        PROVE  /\ u \in sent'[x]
               /\ wire'[u][x].answer = "ok" => row'[x].state = "submitted"
    <3>1. u \in sent'[x]
      BY <1>2, <1>5, <2>2 DEF IInv, ReportShape
    <3>2. CASE u = s /\ x = p
      BY <1>1, <1>7, <2>2, <3>1, <3>2
    <3>3. CASE u # s \/ x # p
      BY <1>1, <1>4, <2>2, <3>1, <3>3 DEF IInv, ReportShape
    <3>4. QED
      BY <3>2, <3>3
  <2>3. QED
    BY <2>1, <2>2 DEF ReportShape
<1>15. RunShape'
  BY <1>2, <1>4, <1>5 DEF IInv, RunShape
<1>16. QED
  BY <1>8, <1>9, <1>10, <1>11, <1>12, <1>13, <1>14, <1>15 DEF IInv

-----------------------------------------------------------------------------
(* Every step. *)

LEMMA NextIInv == IInv /\ [Next]_vars => IInv'
<1> SUFFICES ASSUME IInv, [Next]_vars PROVE IInv'
  OBVIOUS
<1>1. ASSUME NEW s \in Sender, Commit(s) \/ Replay(s) \/ AnswerLost(s) PROVE IInv'
  BY <1>1, CommitIInv, ReplayIInv, AnswerLostIInv
<1>2. ASSUME NEW s \in Sender, RunStep(s) PROVE IInv'
  BY <1>2, SkipIInv, SendIInv, RunStepIInv, CallReportIInv, ContinueIInv DEF RunStep
<1>3. CASE Handle
  BY <1>3, AnswerIInv, RecordIInv DEF Handle
<1>4. ASSUME NEW c \in Reconciler, Reconcile(c) PROVE IInv'
  BY <1>4, ListIInv, ApplyIInv DEF Reconcile
<1>5. CASE UNCHANGED vars
  BY <1>5 DEF vars, IInv, TypeOK, SubmittedIsProved, PartsInOrder, RowShape, CommitShape,
              TodoShape, ReportShape, RunShape
<1>6. QED
  BY <1>1, <1>2, <1>3, <1>4, <1>5, TickIInv DEF Next

\* The ledger, the reports, the runs and the verdicts a reconciler still holds
\* agree with each other in every reachable state.
THEOREM Inductive == Spec => []IInv
BY InitIInv, NextIInv, PTL DEF Spec

\* Every variable keeps its type.
THEOREM TypeCorrect == Spec => []TypeOK
<1>1. IInv => TypeOK
  BY DEF IInv
<1>2. QED
  BY <1>1, Inductive, PTL

\* A row says submitted, and its outbox event published, only if the message it
\* names was created.
THEOREM SubmittedHolds == Spec => []SubmittedIsProved
<1>1. IInv => SubmittedIsProved
  BY DEF IInv
<1>2. QED
  BY <1>1, Inductive, PTL

\* The customer sees no part before those that come before it are acknowledged.
THEOREM OrderHolds == Spec => []PartsInOrder
<1>1. IInv => PartsInOrder
  BY DEF IInv
<1>2. QED
  BY <1>1, Inductive, PTL

\* The call is dispatched after the whole acknowledgement is on record as sent.
THEOREM CallWaits == Spec => []CallAfterReply
<1>1. ASSUME IInv PROVE CallAfterReply
  <2>1. ASSUME NEW s \in Sender, run[s].pc = "done", NEW p \in Part
        PROVE  sent[p] # {} /\ row[p].state = "submitted"
    <3>1. p < run[s].part
      BY <1>1, <2>1, StepPart DEF IInv, RunShape
    <3>2. row[p].state = "submitted"
      BY <1>1, <3>1 DEF IInv, RunShape
    <3>3. row[p].provider \in sent[p]
      BY <1>1, <3>2 DEF IInv, SubmittedIsProved
    <3>4. QED
      BY <3>2, <3>3
  <2>2. QED
    BY <2>1 DEF CallAfterReply
<1>2. QED
  BY <1>1, Inductive, PTL

-----------------------------------------------------------------------------
(* What a step never does to a part. *)

LEMMA StepOfRow ==
    ASSUME IInv, [Next]_vars, NEW p \in Part, row[p].state # "absent"
    PROVE  \/ Same(row[p], row'[p])
           \/ \E s \in Sender : Record(s, p)
<1>1. CASE Tick
  BY <1>1, AgedSame DEF IInv, TypeOK, Tick
<1>2. ASSUME NEW c \in Reconciler, Apply(c) PROVE Same(row[p], row'[p])
  BY <1>2, ApplySame
<1>3. ASSUME NEW s \in Sender, NEW q \in Part, Record(s, q), p # q
      PROVE  row'[p] = row[p]
  BY <1>3, RecordedRow
<1>4. ASSUME NEW s \in Sender, Commit(s) PROVE FALSE
  BY <1>4 DEF Commit, Committed, IInv, CommitShape
<1>5. row'[p] = row[p] => Same(row[p], row'[p])
  BY DEF IInv, TypeOK, Same
<1>6. ASSUME NEW s \in Sender, Replay(s) \/ AnswerLost(s) \/ RunStep(s)
      PROVE  row' = row
  BY <1>6 DEF Replay, AnswerLost, RunStep, Skip, Halt, Send, SendRefused,
              SendUnanswered, CallReport, Continue, GiveUp, Finish, Crash
<1>7. ASSUME NEW s \in Sender, NEW q \in Part, Duplicate(s, q) \/ Conflict(s, q)
      PROVE  row' = row
  BY <1>7 DEF Duplicate, Conflict
<1>8. ASSUME NEW c \in Reconciler, List(c) PROVE row' = row
  BY <1>8 DEF List
<1>9. QED
  BY <1>1, <1>2, <1>3, <1>4, <1>5, <1>6, <1>7, <1>8 DEF Next, Handle, Reconcile, vars

\* Nothing takes back a part that is proved sent, or puts another message in its
\* place.
THEOREM ProofHolds == Spec => ProofIsFinal
<1>1. ASSUME IInv, [Next]_vars, NEW p \in Part, row[p].provider # None
      PROVE  row'[p].provider = row[p].provider /\ row'[p].state = row[p].state
  <2>1. row[p].state = "submitted"
    BY <1>1 DEF IInv, SubmittedIsProved
  <2>2. \/ Same(row[p], row'[p])
        \/ \E s \in Sender : Record(s, p)
    BY <1>1, <2>1, StepOfRow
  <2>3. CASE Same(row[p], row'[p])
    BY <2>3 DEF Same
  <2>4. ASSUME NEW s \in Sender, Record(s, p)
        PROVE  row'[p].provider = row[p].provider /\ row'[p].state = row[p].state
    BY <1>1, <2>1, <2>4, RecordedRow
  <2>5. QED
    BY <2>2, <2>3, <2>4
<1>2. IInv /\ [Next]_vars =>
         [\A p \in Part :
             row[p].provider # None =>
                 row'[p].provider = row[p].provider /\ row'[p].state = row[p].state]_vars
  BY <1>1
<1>3. QED
  BY <1>2, Inductive, PTL DEF Spec, ProofIsFinal

\* No machine lifts a pause.
THEOREM PauseHolds == Spec => PauseSticks
<1>1. ASSUME IInv, [Next]_vars, NEW p \in Part, row[p].review = "ambiguous_paused"
      PROVE  row'[p].review = "ambiguous_paused"
  <2>1. row[p].state # "absent"
    BY <1>1 DEF IInv, RowShape, NoDelivery
  <2>2. \/ Same(row[p], row'[p])
        \/ \E s \in Sender : Record(s, p)
    BY <1>1, <2>1, StepOfRow
  <2>3. QED
    BY <1>1, <2>2, RecordedRow DEF Same
<1>2. IInv /\ [Next]_vars =>
         [\A p \in Part : row[p].review = "ambiguous_paused" =>
             row'[p].review = "ambiguous_paused"]_vars
  BY <1>1
<1>3. QED
  BY <1>2, Inductive, PTL DEF Spec, PauseSticks

-----------------------------------------------------------------------------
(* Copies. *)

Counted == \A p \in Part : IsFiniteSet(sent[p]) /\ copies[p] = Cardinality(sent[p])

LEMMA SendCounted ==
    ASSUME IInv, Counted, NEW s \in Sender, NEW p \in Part,
           Send(s, p) \/ SendUnanswered(s, p)
    PROVE  Counted'
<1>1. s \notin sent[p]
  <2>1. run[s].pc = "parts" /\ run[s].part = p /\ ~(p < p)
    BY StepPart DEF Send, SendUnanswered, At
  <2>2. QED
    BY <2>1 DEF IInv, RunShape
<1>2. /\ sent'[p] = sent[p] \cup {s} /\ copies'[p] = copies[p] + 1
      /\ \A x \in Part \ {p} : sent'[x] = sent[x] /\ copies'[x] = copies[x]
  BY DEF IInv, TypeOK, Send, SendUnanswered, Created
<1>3. /\ IsFiniteSet(sent[p] \cup {s})
      /\ Cardinality(sent[p] \cup {s}) = Cardinality(sent[p]) + 1
  BY <1>1, FS_AddElement DEF Counted
<1>4. QED
  BY <1>2, <1>3 DEF Counted

LEMMA NextCounted == IInv /\ Counted /\ [Next]_vars => Counted'
<1> SUFFICES ASSUME IInv, Counted, [Next]_vars PROVE Counted'
  OBVIOUS
<1>1. ASSUME sent' = sent, copies' = copies PROVE Counted'
  BY <1>1 DEF Counted
<1>2. ASSUME NEW s \in Sender, RunStep(s),
             ~ \E p \in Part : Send(s, p) \/ SendUnanswered(s, p)
      PROVE  sent' = sent /\ copies' = copies
  BY <1>2 DEF RunStep, Skip, Halt, SendRefused, CallReport, Continue, GiveUp, Finish, Crash
<1>3. ASSUME NEW s \in Sender, Commit(s) \/ Replay(s) \/ AnswerLost(s)
      PROVE  sent' = sent /\ copies' = copies
  BY <1>3 DEF Commit, Replay, AnswerLost
<1>4. ASSUME Handle \/ (\E c \in Reconciler : Reconcile(c)) \/ Tick \/ UNCHANGED vars
      PROVE  sent' = sent /\ copies' = copies
  BY <1>4 DEF Handle, Duplicate, Conflict, Record, Reconcile, List, Apply, Tick, vars
<1>5. QED
  BY <1>1, <1>2, <1>3, <1>4, SendCounted DEF Next

LEMMA CountedHolds == Spec => []Counted
<1>1. Init => Counted
  BY FS_EmptySet DEF Init, Counted
<1>2. QED
  BY <1>1, NextCounted, Inductive, PTL DEF Spec

\* No run submits a part twice.
THEOREM OneSendHolds == Spec => []OneSend
<1>1. Counted => OneSend
  BY DEF Counted, OneSend
<1>2. QED
  BY <1>1, CountedHolds, PTL
-----------------------------------------------------------------------------
(***************************************************************************)
(* The turn.  Its steps are steps of the batches and of the reply, so what *)
(* is proved of the reply holds in it; what relates the two is proved with *)
(* the claims of the batch in hand.                                        *)
(***************************************************************************)

LEMMA StepsOfBoth ==
    ASSUME [TurnNext]_tvars
    PROVE  [Batches!Next]_(Batches!vars) /\ [Next]_vars
<1>1. CASE UNCHANGED tvars
  BY <1>1 DEF tvars, batches, Batches!vars
<1>2. CASE TurnTick
  BY <1>2 DEF TurnTick, batches, Batches!Next, Batches!vars, Next
<1>3. ASSUME NEW w \in Sender, NEW p \in Payload, TurnCommit(w, p) \/ TurnReplay(w, p)
      PROVE  [Batches!Next]_(Batches!vars) /\ [Next]_vars
  BY <1>3 DEF TurnCommit, TurnReplay, Batches!Next, Batches!Progress, Next
<1>4. ASSUME NEW w \in Sender, ReadExisting(w) \/ Prepares(w)
      PROVE  [Batches!Next]_(Batches!vars) /\ [Next]_vars
  BY <1>4 DEF ReadExisting, Prepares, Batches!Next, Batches!Progress
<1>5. ASSUME NEW w \in Sender, Deliver(w)
      PROVE  [Batches!Next]_(Batches!vars) /\ [Next]_vars
  BY <1>5 DEF Deliver, batches, Batches!vars, Next
<1>6. CASE Backend
  BY <1>6 DEF Backend, batches, Batches!vars, Batches!Next, Next
<1>7. QED
  BY <1>1, <1>2, <1>3, <1>4, <1>5, <1>6 DEF TurnNext

\* The reply to a batch leaves as BotpressDelivery says, whatever the batches do.
THEOREM ReplyBehaves == TurnSpec => Spec
<1>1. TurnInit => Init
  BY DEF TurnInit
<1>2. [TurnNext]_tvars => [Next]_vars
  BY StepsOfBoth
<1>3. QED
  BY <1>1, <1>2, PTL DEF TurnSpec, Spec

\* The batches are claimed, decided and closed as InboundBatch says, whatever
\* becomes of the reply.
THEOREM BatchesBehave == TurnSpec => Batches!Spec
<1>1. TurnInit => Batches!Init
  BY DEF TurnInit
<1>2. [TurnNext]_tvars => [Batches!Next]_(Batches!vars)
  BY StepsOfBoth
<1>3. QED
  BY <1>1, <1>2, PTL DEF TurnSpec, Batches!Spec

-----------------------------------------------------------------------------
(* The variables of the batches keep their types. *)

LEMMA BatchInitType == Batches!Init => Batches!TypeOK
BY DEF Batches!Init, Batches!TypeOK, Batches!Row, Batches!NoRow, Batches!BatchState,
       Batches!Decision, Batches!NoDecision, Batches!Kind, Batches!Run, Batches!IdleRun,
       Batches!Pc

\* What the updates of a row give is a row.
LEMMA BatchUpdates ==
    ASSUME NEW r \in Batches!Row, NEW w \in Sender
    PROVE  /\ Batches!NewRow \in Batches!Row
           /\ Batches!Extended(r) \in Batches!Row
           /\ Batches!Expired(r) \in Batches!Row
           /\ Batches!Claimed(r, w) \in Batches!Row
           /\ [r EXCEPT !.state = "completed", !.lease = 0] \in Batches!Row
<1> USE DEF Batches!Row, Batches!BatchState
<1>1. Window \in Nat /\ HardDeadline \in Nat /\ Lease \in Nat
  BY TurnAssumption DEF Batches!ConstantsAssumption
<1>2. Batches!Earliest(r.hard, Window) \in Nat
  BY <1>1 DEF Batches!Earliest
<1>3. r.count + 1 \in Nat /\ r.attempts + 1 \in Nat
  OBVIOUS
<1>5. Batches!NewRow \in Batches!Row
  BY <1>1 DEF Batches!NewRow, Batches!NoRow
<1>6. Batches!Extended(r) \in Batches!Row
  BY <1>2, <1>3 DEF Batches!Extended
<1>7. Batches!Expired(r) \in Batches!Row
  BY DEF Batches!Expired
<1>8. Batches!Claimed(r, w) \in Batches!Row
  BY <1>1, <1>3 DEF Batches!Claimed
<1>9. QED
  BY <1>5, <1>6, <1>7, <1>8

LEMMA BatchIngestType ==
    ASSUME Batches!TypeOK, NEW w \in Sender, NEW m \in Message, Batches!Ingest(w, m)
    PROVE  Batches!TypeOK'
<1>1. /\ seq' \in [Message -> Nat]
      /\ member' \in [Message -> Message \cup {None}]
      /\ member'[m] \in Message
  <2>1. CASE Batches!Replay(m)
    BY <2>1 DEF Batches!TypeOK, Batches!Replay
  <2>2. ASSUME NEW b \in Message, Batches!Admit(m, b)
        PROVE  /\ seq' \in [Message -> Nat]
               /\ member' \in [Message -> Message \cup {None}]
               /\ member'[m] \in Message
    BY <2>2 DEF Batches!TypeOK, Batches!Admit
  <2>3. QED
    BY <2>1, <2>2 DEF Batches!Ingest, Batches!Join, Batches!Open, Batches!Joinable,
       Batches!Waiting
<1>2. batch' \in [Message -> Batches!Row]
  <2>3. CASE Batches!Replay(m)
    BY <2>3 DEF Batches!TypeOK, Batches!Replay
  <2>4. CASE Batches!Join(m)
    <3>1. PICK b \in Message : batch' = [batch EXCEPT ![b] = Batches!Extended(batch[b])]
      BY <2>4 DEF Batches!Join, Batches!Joinable, Batches!Waiting
    <3>2. Batches!Extended(batch[b]) \in Batches!Row
      BY BatchUpdates DEF Batches!TypeOK
    <3>3. QED
      BY <3>1, <3>2 DEF Batches!TypeOK
  <2>5. CASE Batches!Open(m)
    <3>1. \A b \in Message : /\ Batches!Expired(batch[b]) \in Batches!Row
                             /\ Batches!NewRow \in Batches!Row
      BY BatchUpdates DEF Batches!TypeOK
    <3>2. QED
      BY <2>5, <3>1 DEF Batches!TypeOK, Batches!Open
  <2>6. QED
    BY <2>3, <2>4, <2>5 DEF Batches!Ingest
<1>3. wf' \in [Sender -> Batches!Run]
  <2>1. batch'[member'[m]].due \in Nat
    BY <1>1, <1>2 DEF Batches!Row
  <2>2. QED
    <3>1. [wf[w] EXCEPT !.pc = "ingested", !.msg = m, !.batch = member'[m],
                        !.wake = batch'[member'[m]].due] \in Batches!Run
      BY <1>1, <2>1 DEF Batches!TypeOK, Batches!Run, Batches!Pc
    <3>2. QED
      BY <3>1 DEF Batches!TypeOK, Batches!Ingest
<1>4. QED
  BY <1>1, <1>2, <1>3 DEF Batches!TypeOK, Batches!Ingest

LEMMA BatchNextType == Batches!TypeOK /\ [Batches!Next]_(Batches!vars) => Batches!TypeOK'
<1> SUFFICES ASSUME Batches!TypeOK, [Batches!Next]_(Batches!vars) PROVE Batches!TypeOK'
  OBVIOUS
<1> USE DEF Batches!TypeOK
<1>1. CASE Batches!Tick
  <2>1. \A n \in Nat : Batches!Less(n) \in Nat
    BY DEF Batches!Less
  <2>2. batch' \in [Message -> Batches!Row]
    <3>1. \A b \in Message : [batch[b] EXCEPT !.due = Batches!Less(@),
                                             !.hard = Batches!Less(@),
                                             !.lease = Batches!Less(@)] \in Batches!Row
      <4>1. ASSUME NEW r \in Batches!Row
            PROVE  [r EXCEPT !.due = Batches!Less(@), !.hard = Batches!Less(@),
                             !.lease = Batches!Less(@)] \in Batches!Row
        BY <2>1 DEF Batches!Row
      <4>2. QED
        BY <4>1
    <3>2. QED
      BY <1>1, <3>1 DEF Batches!Tick
  <2>3. wf' \in [Sender -> Batches!Run]
    <3>1. ASSUME NEW r \in Batches!Run
          PROVE  [r EXCEPT !.wake = Batches!Less(@), !.lease = Batches!Less(@)] \in Batches!Run
      BY <2>1 DEF Batches!Run
    <3>2. QED
      BY <1>1, <3>1 DEF Batches!Tick
  <2>4. ASSUME NEW w \in Sender
        PROVE  /\ wf'[w].pc = wf[w].pc /\ wf'[w].msg = wf[w].msg
               /\ wf'[w].batch = wf[w].batch
    <3>1. wf[w] \in Batches!Run
      OBVIOUS
    <3>2. wf'[w] = [wf[w] EXCEPT !.wake = Batches!Less(@), !.lease = Batches!Less(@)]
      BY <1>1 DEF Batches!Tick
    <3>3. QED
      BY <3>1, <3>2 DEF Batches!Run
  <2>5. QED
    BY <1>1, <2>2, <2>3, <2>4 DEF Batches!Tick
<1>2. ASSUME NEW w \in Sender, NEW m \in Message, Batches!Ingest(w, m)
      PROVE  Batches!TypeOK'
  BY <1>2, BatchIngestType
<1>3. ASSUME NEW w \in Sender, Batches!Progress(w)
      PROVE  Batches!TypeOK'
  <2>1. CASE Batches!ReadExisting(w)
    BY <2>1 DEF Batches!ReadExisting, Batches!Run, Batches!Pc
  <2>2. CASE Batches!ClaimWins(w)
    <3>1. Batches!Claimed(batch[wf[w].batch], w) \in Batches!Row
      BY <2>2, BatchUpdates DEF Batches!ClaimWins
    <3>2. batch' \in [Message -> Batches!Row]
      BY <2>2, <3>1 DEF Batches!ClaimWins
    <3>3. batch'[wf[w].batch].token \in Nat
      BY <2>2, <3>2 DEF Batches!ClaimWins, Batches!Row
    <3>4. wf' \in [Sender -> Batches!Run]
      <4>1. Lease \in Nat
        BY TurnAssumption DEF Batches!ConstantsAssumption
      <4>2. [wf[w] EXCEPT !.pc = "deciding", !.lease = Lease,
                          !.token = batch'[wf[w].batch].token] \in Batches!Run
        BY <3>3, <4>1 DEF Batches!Run, Batches!Pc
      <4>3. QED
        BY <2>2, <4>2 DEF Batches!ClaimWins
    <3>5. QED
      BY <2>2, <3>2, <3>4 DEF Batches!ClaimWins
  <2>3. CASE Batches!ClaimTooEarly(w)
    <3>1. batch[wf[w].batch].due \in Nat
      BY <2>3 DEF Batches!ClaimTooEarly, Batches!Row
    <3>2. wf[w].tries + 1 \in Nat
      BY DEF Batches!Run
    <3>3. wf' \in [Sender -> Batches!Run]
      <4>1. wf[w] \in Batches!Run
        OBVIOUS
      <4>2. [wf[w] EXCEPT !.tries = wf[w].tries + 1,
                          !.wake = batch[wf[w].batch].due,
                          !.pc = IF wf[w].tries + 1 = MaxClaimTries
                                 THEN "exhausted" ELSE "sleeping"] \in Batches!Run
        BY <3>1, <3>2, <4>1 DEF Batches!Run, Batches!Pc
      <4>3. QED
        BY <2>3, <4>2 DEF Batches!ClaimTooEarly
    <3>4. QED
      BY <2>3, <3>3 DEF Batches!ClaimTooEarly, Batches!Run
  <2>4. CASE Batches!ClaimLoses(w)
    BY <2>4 DEF Batches!ClaimLoses, Batches!Run, Batches!Pc
  <2>5. ASSUME NEW p \in Payload, Batches!CommitNew(w, p)
        PROVE  Batches!TypeOK'
    <3>1. Batches!KindOf(wf[w].batch, p) \in Batches!Kind
      BY DEF Batches!KindOf, Batches!Kind
    <3>2. decision' \in [Message -> Batches!Decision]
      BY <2>5, <3>1 DEF Batches!CommitNew, Batches!Decision
    <3>3. wf' \in [Sender -> Batches!Run]
      BY <2>5 DEF Batches!CommitNew, Batches!Run, Batches!Pc
    <3>4. QED
      BY <2>5, <3>2, <3>3 DEF Batches!CommitNew
  <2>6. ASSUME NEW p \in Payload, Batches!CommitAgain(w, p)
        PROVE  Batches!TypeOK'
    BY <2>6 DEF Batches!CommitAgain, Batches!Run, Batches!Pc
  <2>7. CASE Batches!Close(w)
    <3>1. [batch[wf[w].batch] EXCEPT !.state = "completed", !.lease = 0] \in Batches!Row
      BY <2>7, BatchUpdates DEF Batches!Close
    <3>2. wf' \in [Sender -> Batches!Run]
      BY <2>7 DEF Batches!Close, Batches!AfterCommit, Batches!Run, Batches!Pc
    <3>3. QED
      BY <2>7, <3>1, <3>2 DEF Batches!Close
  <2>8. QED
    BY <1>3, <2>1, <2>2, <2>3, <2>4, <2>5, <2>6, <2>7 DEF Batches!Progress
<1>4. ASSUME NEW w \in Sender, Batches!CloseFails(w)
      PROVE  Batches!TypeOK'
  BY <1>4 DEF Batches!CloseFails, Batches!AfterCommit, Batches!Run, Batches!Pc
<1>5. ASSUME NEW w \in Sender, Batches!Crash(w)
      PROVE  Batches!TypeOK'
  BY <1>5 DEF Batches!Crash, Batches!Run, Batches!Pc
<1>6. ASSUME NEW b \in Message, Batches!ExpireClaim(b)
      PROVE  Batches!TypeOK'
  BY <1>6 DEF Batches!ExpireClaim, Batches!Row, Batches!BatchState
<1>7. CASE UNCHANGED Batches!vars
  BY <1>7 DEF Batches!vars
<1>8. QED
  BY <1>1, <1>2, <1>3, <1>4, <1>5, <1>6, <1>7 DEF Batches!Next

-----------------------------------------------------------------------------
(* The claims of the batches and the runs that won them. *)

\* The runs that won a claim of the batch.
Winners == {w \in Sender : wf[w].batch = Turn /\ wf[w].token > 0}

\* Every run but those that are to start works on a batch that exists, and a run past
\* its claim has the token of it.
ClaimShape ==
    /\ \A m \in Message :
          /\ batch[m].state # "absent" => member[m] = m
          /\ member[m] # None => batch[member[m]].state # "absent"
    /\ \A w \in Sender :
          /\ wf[w].pc = "idle" => wf[w].token = 0
          /\ wf[w].pc # "idle" => batch[wf[w].batch].state # "absent"
          /\ wf[w].pc \in {"deciding", "closing", "sending"} => wf[w].token > 0

\* A claim is an attempt of the batch.
ClaimsCounted ==
    IsFiniteSet(Winners) /\ Cardinality(Winners) <= batch[Turn].attempts

\* Only a run that won a claim of the batch sends.
WinnersSend == \A p \in Part : sent[p] \subseteq Winners

\* A step that is neither an ingestion nor a claim that wins.
Quiet ==
    /\ member' = member
    /\ \A b \in Message :
          /\ batch'[b].state = "absent" <=> batch[b].state = "absent"
          /\ batch'[b].attempts = batch[b].attempts
    /\ \A w \in Sender :
          /\ wf'[w].batch = wf[w].batch /\ wf'[w].token = wf[w].token
          /\ wf'[w].pc = "idle" <=> wf[w].pc = "idle"
          /\ wf'[w].pc \in {"deciding", "closing", "sending"} =>
                wf[w].pc \in {"deciding", "closing", "sending"}

LEMMA TickQuiet == ASSUME Batches!TypeOK, Batches!Tick PROVE Quiet
<1>1. ASSUME NEW b \in Message
      PROVE  batch'[b].state = batch[b].state /\ batch'[b].attempts = batch[b].attempts
  <2>1. /\ batch[b] \in Batches!Row
        /\ batch'[b] = [batch[b] EXCEPT !.due = Batches!Less(@), !.hard = Batches!Less(@),
                                        !.lease = Batches!Less(@)]
    BY DEF Batches!TypeOK, Batches!Tick
  <2>2. QED
    BY <2>1 DEF Batches!Row
<1>2. ASSUME NEW w \in Sender
      PROVE  /\ wf'[w].pc = wf[w].pc /\ wf'[w].batch = wf[w].batch
             /\ wf'[w].token = wf[w].token
  <2>1. /\ wf[w] \in Batches!Run
        /\ wf'[w] = [wf[w] EXCEPT !.wake = Batches!Less(@), !.lease = Batches!Less(@)]
    BY DEF Batches!TypeOK, Batches!Tick
  <2>2. QED
    BY <2>1 DEF Batches!Run
<1>3. QED
  BY <1>1, <1>2 DEF Quiet, Batches!Tick

\* The steps of a run that has its batch and wins no claim.
LEMMA RunQuiet ==
    ASSUME Batches!TypeOK, NEW w \in Sender,
           \/ Batches!ReadExisting(w) \/ Batches!ClaimTooEarly(w) \/ Batches!ClaimLoses(w)
           \/ \E p \in Payload : Batches!CommitNew(w, p) \/ Batches!CommitAgain(w, p)
           \/ Batches!Close(w) \/ Batches!CloseFails(w) \/ Batches!Crash(w)
    PROVE  Quiet
<1>1. wf[w] \in Batches!Run /\ \A b \in Message : batch[b] \in Batches!Row
  BY DEF Batches!TypeOK
<1>2. /\ member' = member
      /\ \A x \in Sender \ {w} : wf'[x] = wf[x]
  BY DEF Batches!TypeOK, Batches!ReadExisting, Batches!ClaimTooEarly, Batches!ClaimLoses,
         Batches!CommitNew, Batches!CommitAgain, Batches!Close, Batches!CloseFails,
         Batches!Crash
<1>3. ASSUME NEW b \in Message
      PROVE  /\ batch'[b].state = "absent" <=> batch[b].state = "absent"
             /\ batch'[b].attempts = batch[b].attempts
  <2>1. CASE batch' = batch
    BY <2>1
  <2>2. CASE Batches!Close(w)
    <3>1. CASE batch' = batch
      BY <3>1
    <3>2. CASE /\ batch[wf[w].batch].state = "claimed"
               /\ batch' = [batch EXCEPT ![wf[w].batch] =
                               [@ EXCEPT !.state = "completed", !.lease = 0]]
      BY <1>1, <3>2 DEF Batches!TypeOK, Batches!Row
    <3>3. QED
      BY <2>2, <3>1, <3>2 DEF Batches!Close, Batches!Completable
  <2>3. QED
    BY <2>1, <2>2 DEF Batches!ReadExisting, Batches!ClaimTooEarly, Batches!ClaimLoses,
       Batches!CommitNew, Batches!CommitAgain, Batches!CloseFails, Batches!Crash
<1>4. /\ wf'[w].batch = wf[w].batch /\ wf'[w].token = wf[w].token
      /\ wf'[w].pc # "idle" /\ wf[w].pc # "idle"
      /\ wf'[w].pc \in {"deciding", "closing", "sending"} =>
            wf[w].pc \in {"deciding", "closing", "sending"}
  <2>1. CASE Batches!ReadExisting(w)
    BY <1>1, <2>1 DEF Batches!TypeOK, Batches!ReadExisting, Batches!Run
  <2>2. CASE Batches!ClaimTooEarly(w)
    BY <1>1, <2>2 DEF Batches!TypeOK, Batches!ClaimTooEarly, Batches!Run
  <2>3. CASE Batches!ClaimLoses(w)
    BY <1>1, <2>3 DEF Batches!TypeOK, Batches!ClaimLoses, Batches!Run
  <2>4. CASE \E p \in Payload : Batches!CommitNew(w, p) \/ Batches!CommitAgain(w, p)
    BY <1>1, <2>4 DEF Batches!TypeOK, Batches!CommitNew, Batches!CommitAgain, Batches!Run
  <2>5. CASE Batches!Close(w) \/ Batches!CloseFails(w)
    BY <1>1, <2>5 DEF Batches!TypeOK, Batches!Close, Batches!CloseFails,
       Batches!AfterCommit, Batches!Run
  <2>6. CASE Batches!Crash(w)
    BY <1>1, <2>6 DEF Batches!TypeOK, Batches!Crash, Batches!Run
  <2>7. QED
    BY <2>1, <2>2, <2>3, <2>4, <2>5, <2>6
<1>5. QED
  BY <1>2, <1>3, <1>4 DEF Quiet

LEMMA ExpireQuiet ==
    ASSUME Batches!TypeOK, NEW b \in Message, Batches!ExpireClaim(b)
    PROVE  Quiet
BY DEF Batches!TypeOK, Batches!ExpireClaim, Batches!Exhausted, Batches!Row, Quiet

LEMMA QuietClaims ==
    ASSUME Batches!TypeOK, ClaimShape, ClaimsCounted, Quiet
    PROVE  ClaimShape' /\ ClaimsCounted' /\ Winners' = Winners
<1>1. \A m \in Message : member[m] # None => member[m] \in Message
  BY DEF Batches!TypeOK
<1>2. \A w \in Sender : wf[w].pc # "idle" => wf[w].batch \in Message
  BY DEF Batches!TypeOK
<1>3. ClaimShape'
  BY <1>1, <1>2 DEF ClaimShape, Quiet
<1>4. Winners' = Winners
  BY DEF Winners, Quiet
<1>5. batch'[Turn].attempts = batch[Turn].attempts
  BY TurnAssumption DEF Quiet
<1>6. QED
  BY <1>3, <1>4, <1>5 DEF ClaimsCounted

\* An ingestion opens or extends a batch that nobody claimed, for a run that is new.
LEMMA IngestedBatch ==
    ASSUME Batches!TypeOK, ClaimShape, NEW w \in Sender, NEW m \in Message,
           Batches!Ingest(w, m)
    PROVE  /\ member'[m] \in Message /\ batch'[member'[m]].state # "absent"
           /\ \A x \in Message \ {m} : member'[x] = member[x]
           /\ member[m] # None => member'[m] = member[m]
           /\ \A b \in Message :
                 /\ batch[b].state # "absent" =>
                       /\ batch'[b].state # "absent"
                       /\ batch'[b].attempts = batch[b].attempts
                 /\ batch'[b].state # "absent" /\ batch[b].state = "absent" =>
                       b = m /\ member'[m] = m
                 /\ batch'[b].state = "absent" => batch'[b].attempts = batch[b].attempts
<1> USE DEF Batches!TypeOK
<1>1. \A b \in Message : batch[b] \in Batches!Row
  OBVIOUS
<1>2. CASE Batches!Replay(m)
  BY <1>2 DEF Batches!Replay, ClaimShape
<1>3. CASE Batches!Join(m)
  <2>1. PICK b \in Message :
           /\ batch[b].state = "waiting"
           /\ batch' = [batch EXCEPT ![b] = Batches!Extended(batch[b])]
           /\ member[m] = None /\ member' = [member EXCEPT ![m] = b]
    BY <1>3 DEF Batches!Join, Batches!Joinable, Batches!Waiting, Batches!Admit
  <2>2. /\ batch'[b].state = "waiting" /\ batch'[b].attempts = batch[b].attempts
        /\ \A x \in Message \ {b} : batch'[x] = batch[x]
    BY <1>1, <2>1 DEF Batches!Extended, Batches!Row
  <2>3. QED
    BY <2>1, <2>2
<1>4. CASE Batches!Open(m)
  <2>1. member[m] = None /\ member' = [member EXCEPT ![m] = m]
    BY <1>4 DEF Batches!Open, Batches!Admit
  <2>2. m # None
    BY TurnAssumption DEF Batches!ConstantsAssumption
  <2>3. batch[m].state = "absent"
    BY <2>1, <2>2 DEF ClaimShape
  <2>4. batch'[m].state = "waiting"
    BY <1>4 DEF Batches!Open, Batches!NewRow, Batches!NoRow
  <2>5. ASSUME NEW b \in Message \ {m}
        PROVE  /\ batch'[b].state = "absent" <=> batch[b].state = "absent"
               /\ batch'[b].attempts = batch[b].attempts
    BY <1>1, <1>4, <2>5 DEF Batches!Open, Batches!Waiting, Batches!Expired, Batches!Row
  <2>6. QED
    BY <2>1, <2>3, <2>4, <2>5
<1>5. QED
  BY <1>2, <1>3, <1>4 DEF Batches!Ingest

LEMMA IngestClaims ==
    ASSUME Batches!TypeOK, ClaimShape, ClaimsCounted, NEW w \in Sender, NEW m \in Message,
           Batches!Ingest(w, m)
    PROVE  ClaimShape' /\ ClaimsCounted' /\ Winners' = Winners
<1>1. /\ wf[w] \in Batches!Run /\ wf[w].pc = "idle" /\ wf[w].token = 0
      /\ \A x \in Sender : wf[x].pc # "idle" => wf[x].batch \in Message
  BY DEF Batches!TypeOK, ClaimShape, Batches!Ingest
<1>2. /\ wf'[w].pc = "ingested" /\ wf'[w].batch = member'[m] /\ wf'[w].token = 0
      /\ \A x \in Sender \ {w} : wf'[x] = wf[x]
  BY <1>1 DEF Batches!Ingest, Batches!TypeOK, Batches!Run
<1>3. Winners' = Winners
  BY <1>1, <1>2 DEF Winners
<1>4. None \notin Message
  BY TurnAssumption DEF Batches!ConstantsAssumption
<1>5. ASSUME NEW x \in Message
      PROVE  /\ batch'[x].state # "absent" => member'[x] = x
             /\ member'[x] # None => batch'[member'[x]].state # "absent"
  <2>1. member[x] # None => member[x] \in Message
    BY DEF Batches!TypeOK
  <2>2. QED
    BY <1>4, <2>1, IngestedBatch DEF ClaimShape
<1>6. ASSUME NEW x \in Sender
      PROVE  /\ wf'[x].pc = "idle" => wf'[x].token = 0
             /\ wf'[x].pc # "idle" => batch'[wf'[x].batch].state # "absent"
             /\ wf'[x].pc \in {"deciding", "closing", "sending"} => wf'[x].token > 0
  BY <1>1, <1>2, IngestedBatch DEF ClaimShape
<1>7. ClaimShape'
  BY <1>5, <1>6 DEF ClaimShape
<1>8. ClaimsCounted'
  <2>1. CASE batch[Turn].state = "absent"
    <3>1. Winners = {}
      BY <2>1 DEF Winners, ClaimShape
    <3>2. batch'[Turn].attempts >= 0
      BY TurnAssumption, BatchIngestType DEF Batches!TypeOK, Batches!Row
    <3>3. QED
      BY <1>3, <3>1, <3>2, FS_EmptySet DEF ClaimsCounted
  <2>2. CASE batch[Turn].state # "absent"
    BY <1>3, <2>2, IngestedBatch, TurnAssumption DEF ClaimsCounted
  <2>3. QED
    BY <2>1, <2>2
<1>9. QED
  BY <1>3, <1>7, <1>8

\* At most one element more.
LEMMA OneMore ==
    ASSUME NEW S, IsFiniteSet(S), NEW x
    PROVE  /\ IsFiniteSet(S \cup {x})
           /\ Cardinality(S \cup {x}) <= Cardinality(S) + 1
<1>1. Cardinality(S) \in Nat
  BY FS_CardinalityType
<1>2. QED
  BY <1>1, FS_AddElement

LEMMA WinClaims ==
    ASSUME Batches!TypeOK, ClaimShape, ClaimsCounted, NEW w \in Sender,
           Batches!ClaimWins(w)
    PROVE  ClaimShape' /\ ClaimsCounted' /\ Winners \subseteq Winners'
<1> DEFINE b == wf[w].batch
<1>1. /\ wf[w] \in Batches!Run /\ wf[w].pc = "sleeping"
      /\ b \in Message /\ batch[b] \in Batches!Row
      /\ batch[b].state # "absent"
  BY DEF Batches!TypeOK, Batches!ClaimWins, Batches!Claimable
<1>2. /\ batch'[b].state = "claimed"
      /\ batch'[b].attempts = batch[b].attempts + 1
      /\ batch'[b].token = batch[b].attempts + 1
      /\ \A x \in Message \ {b} : batch'[x] = batch[x]
  BY <1>1 DEF Batches!TypeOK, Batches!ClaimWins, Batches!Claimed, Batches!Row
<1>3. /\ wf'[w].pc = "deciding" /\ wf'[w].batch = b
      /\ wf'[w].token = batch[b].attempts + 1
      /\ \A x \in Sender \ {w} : wf'[x] = wf[x]
  BY <1>1, <1>2 DEF Batches!TypeOK, Batches!ClaimWins, Batches!Run
<1>4. batch[b].attempts + 1 > 0 /\ member' = member
  BY <1>1 DEF Batches!Row, Batches!ClaimWins
<1>5. ClaimShape'
  <2>1. \A m \in Message : member[m] # None => member[m] \in Message
    BY DEF Batches!TypeOK
  <2>2. \A x \in Sender : wf[x].pc # "idle" => wf[x].batch \in Message
    BY DEF Batches!TypeOK
  <2>3. QED
    BY <1>1, <1>2, <1>3, <1>4, <2>1, <2>2 DEF ClaimShape
<1>6. Winners' = IF b = Turn THEN Winners \cup {w} ELSE Winners
  BY <1>3, <1>4 DEF Winners
<1>7. ClaimsCounted'
  <2>1. CASE b = Turn
    <3>1. Cardinality(Winners) \in Nat /\ batch[Turn].attempts \in Nat
      BY <1>1, <2>1, FS_CardinalityType DEF ClaimsCounted, Batches!Row
    <3>2. IsFiniteSet(Winners')
      BY <1>6, <2>1, OneMore DEF ClaimsCounted
    <3>3. Cardinality(Winners') <= Cardinality(Winners) + 1 /\ Cardinality(Winners') \in Nat
      BY <1>6, <2>1, <3>2, OneMore, FS_CardinalityType DEF ClaimsCounted
    <3>4. QED
      BY <1>2, <2>1, <3>1, <3>2, <3>3 DEF ClaimsCounted
  <2>2. CASE b # Turn
    BY <1>2, <1>6, <2>2, TurnAssumption DEF ClaimsCounted
  <2>3. QED
    BY <2>1, <2>2
<1>8. QED
  BY <1>5, <1>6, <1>7

\* Whatever happens to the batches, who won a claim has won it for good.
LEMMA NextClaims ==
    ASSUME Batches!TypeOK, ClaimShape, ClaimsCounted, [Batches!Next]_(Batches!vars)
    PROVE  ClaimShape' /\ ClaimsCounted' /\ Winners \subseteq Winners'
<1>1. CASE UNCHANGED Batches!vars
  <2>1. Quiet
    BY <1>1 DEF Batches!vars, Quiet
  <2>2. QED
    BY <2>1, QuietClaims
<1>2. CASE Batches!Tick
  BY <1>2, TickQuiet, QuietClaims
<1>3. ASSUME NEW w \in Sender, NEW m \in Message, Batches!Ingest(w, m)
      PROVE  ClaimShape' /\ ClaimsCounted' /\ Winners \subseteq Winners'
  BY <1>3, IngestClaims
<1>4. ASSUME NEW w \in Sender,
             Batches!Progress(w) \/ Batches!CloseFails(w) \/ Batches!Crash(w)
      PROVE  ClaimShape' /\ ClaimsCounted' /\ Winners \subseteq Winners'
  <2>1. CASE Batches!ClaimWins(w)
    BY <2>1, WinClaims
  <2>2. CASE ~Batches!ClaimWins(w)
    <3>1. Quiet
      BY <1>4, <2>2, RunQuiet DEF Batches!Progress
    <3>2. QED
      BY <3>1, QuietClaims
  <2>3. QED
    BY <2>1, <2>2
<1>5. ASSUME NEW b \in Message, Batches!ExpireClaim(b)
      PROVE  ClaimShape' /\ ClaimsCounted' /\ Winners \subseteq Winners'
  BY <1>5, ExpireQuiet, QuietClaims
<1>6. QED
  BY <1>1, <1>2, <1>3, <1>4, <1>5 DEF Batches!Next

-----------------------------------------------------------------------------
(* What leaves, and what was decided. *)

\* The steps of the reply other than the commit.
ReplyStep ==
    \/ Tick
    \/ \E s \in Sender : Replay(s) \/ AnswerLost(s) \/ RunStep(s)
    \/ Handle
    \/ \E c \in Reconciler : Reconcile(c)

\* They neither make nor unmake a row.
LEMMA RowsStay ==
    ASSUME IInv, ReplyStep \/ UNCHANGED vars, NEW p \in Part
    PROVE  row'[p].state = "absent" <=> row[p].state = "absent"
<1>1. CASE row[p].state # "absent"
  <2>1. \/ Same(row[p], row'[p])
        \/ \E s \in Sender : Record(s, p)
    BY <1>1, StepOfRow DEF ReplyStep, Next
  <2>2. ASSUME NEW s \in Sender, Record(s, p) PROVE row'[p].state # "absent"
    BY <2>2, RecordedRow
  <2>3. QED
    BY <1>1, <2>1, <2>2 DEF Same
<1>2. CASE row[p].state = "absent"
  <2>1. row[p] = NoDelivery /\ \A s \in Sender : wire[s][p].status = "none"
    BY <1>2 DEF IInv, RowShape, CommitShape
  <2>2. CASE Tick
    <3>1. row'[p] = Aged(row[p]) /\ row[p] \in Delivery
      BY <2>2 DEF Tick, IInv, TypeOK
    <3>2. QED
      BY <1>2, <3>1, AgedSame DEF Same
  <2>3. ASSUME NEW c \in Reconciler, Apply(c) PROVE row'[p].state = row[p].state
    BY <2>3, ApplySame DEF Same
  <2>4. ASSUME NEW s \in Sender, NEW q \in Part, Record(s, q)
        PROVE  row'[p] = row[p]
    <3>1. p # q
      BY <2>1, <2>4 DEF Record, EventOf
    <3>2. QED
      BY <2>4, <3>1, RecordedRow
  <2>5. ASSUME NEW s \in Sender, Replay(s) \/ AnswerLost(s) \/ RunStep(s)
        PROVE  row' = row
    BY <2>5 DEF Replay, AnswerLost, RunStep, Skip, Halt, Send, SendRefused,
                SendUnanswered, CallReport, Continue, GiveUp, Finish, Crash
  <2>6. ASSUME NEW s \in Sender, NEW q \in Part, Duplicate(s, q) \/ Conflict(s, q)
        PROVE  row' = row
    BY <2>6 DEF Duplicate, Conflict
  <2>7. ASSUME NEW c \in Reconciler, List(c) PROVE row' = row
    BY <2>7 DEF List
  <2>8. QED
    BY <1>2, <2>2, <2>3, <2>4, <2>5, <2>6, <2>7 DEF ReplyStep, Handle, Reconcile, vars
<1>3. QED
  BY <1>1, <1>2

\* Nothing is sent of a part that was not committed.
LEMMA UnsentBefore ==
    ASSUME IInv, NEW p \in Part, row[p].state = "absent"
    PROVE  sent[p] = {}
<1>1. ASSUME NEW s \in Sender, s \in sent[p] PROVE FALSE
  BY <1>1 DEF IInv, CommitShape, RunShape
<1>2. QED
  BY <1>1 DEF IInv, TypeOK

\* The rows are there if and only if the turn was decided as a reply.
RowsOfReply == \A p \in Part : row[p].state # "absent" <=> decision[Turn].kind = "reply"

\* A step of the turn is a commit or leaves the decisions and the rows alone.
LEMMA OtherTurnSteps ==
    ASSUME [TurnNext]_tvars,
           ~ \E w \in Sender, p \in Payload : TurnCommit(w, p)
    PROVE  decision' = decision /\ (ReplyStep \/ UNCHANGED vars)
<1>1. CASE UNCHANGED tvars
  BY <1>1 DEF tvars, batches
<1>2. CASE TurnTick
  BY <1>2 DEF TurnTick, batches, Batches!Tick, ReplyStep
<1>3. ASSUME NEW w \in Sender, NEW p \in Payload, TurnReplay(w, p)
      PROVE  decision' = decision /\ (ReplyStep \/ UNCHANGED vars)
  BY <1>3 DEF TurnReplay, Batches!CommitAgain, ReplyStep
<1>4. ASSUME NEW w \in Sender, ReadExisting(w) \/ Prepares(w)
      PROVE  decision' = decision /\ (ReplyStep \/ UNCHANGED vars)
  BY <1>4 DEF ReadExisting, Prepares, Batches!ReadExisting, Batches!Ingest, Batches!ClaimWins,
     Batches!ClaimTooEarly, Batches!ClaimLoses, Batches!Close, Batches!CloseFails,
     Batches!Crash
<1>5. ASSUME NEW w \in Sender, Deliver(w)
      PROVE  decision' = decision /\ (ReplyStep \/ UNCHANGED vars)
  BY <1>5 DEF Deliver, batches, ReplyStep
<1>6. CASE Backend
  BY <1>6 DEF Backend, batches, Batches!ExpireClaim, ReplyStep
<1>7. QED
  BY <1>1, <1>2, <1>3, <1>4, <1>5, <1>6 DEF TurnNext

LEMMA NextRows ==
    ASSUME IInv, Batches!TypeOK, RowsOfReply, [TurnNext]_tvars
    PROVE  RowsOfReply'
<1>1. ASSUME NEW w \in Sender, NEW d \in Payload, TurnCommit(w, d)
      PROVE  RowsOfReply'
  <2> DEFINE b == wf[w].batch
  <2>1. /\ b \in Message /\ decision[b] = Batches!NoDecision
        /\ \A m \in Message \ {b} : decision'[m] = decision[m]
    BY <1>1 DEF TurnCommit, Batches!CommitNew, Batches!TypeOK
  <2>2. CASE b = Turn /\ decision'[Turn].kind = "reply"
    <3>1. Commit(w)
      BY <1>1, <2>2 DEF TurnCommit, AnswersTurn
    <3>2. \A p \in Part : row'[p].state = "leased"
      BY <3>1 DEF Commit, Enqueued, NoDelivery
    <3>3. QED
      BY <2>2, <3>2 DEF RowsOfReply
  <2>3. CASE b = Turn /\ decision'[Turn].kind # "reply"
    <3>1. row' = row
      BY <1>1, <2>3 DEF TurnCommit, vars
    <3>2. decision[Turn].kind # "reply"
      BY <2>1, <2>3 DEF Batches!NoDecision
    <3>3. QED
      BY <2>3, <3>1, <3>2 DEF RowsOfReply
  <2>4. CASE b # Turn
    <3>1. row' = row
      BY <1>1, <2>4 DEF TurnCommit, AnswersTurn, vars
    <3>2. QED
      BY <2>1, <2>4, <3>1, TurnAssumption DEF RowsOfReply
  <2>5. QED
    BY <2>2, <2>3, <2>4
<1>2. CASE ~ \E w \in Sender, d \in Payload : TurnCommit(w, d)
  BY <1>2, OtherTurnSteps, RowsStay DEF RowsOfReply
<1>3. QED
  BY <1>1, <1>2

\* A part is created by the run that delivers, no other.
LEMMA NextWinnersSend ==
    ASSUME IInv, Batches!TypeOK, ClaimShape, ClaimsCounted, WinnersSend, [TurnNext]_tvars
    PROVE  WinnersSend'
<1>1. Winners \subseteq Winners'
  BY StepsOfBoth, NextClaims
<1>2. CASE sent' = sent
  BY <1>1, <1>2 DEF WinnersSend
<1>3. ASSUME NEW w \in Sender, Deliver(w) PROVE WinnersSend'
  <2>1. w \in Winners
    BY <1>3 DEF Deliver, AnswersTurn, ClaimShape, Winners
  <2>2. \A p \in Part : sent'[p] \subseteq sent[p] \cup {w}
    <3>1. ASSUME NEW q \in Part, Created(w, q)
          PROVE  \A p \in Part : sent'[p] \subseteq sent[p] \cup {w}
      BY <3>1 DEF Created, IInv, TypeOK
    <3>2. sent' = sent \/ \E q \in Part : Created(w, q)
      BY <1>3 DEF Deliver, RunStep, AnswerLost, Replay, Skip, Halt, Send, SendRefused,
         SendUnanswered, CallReport, Continue, GiveUp, Finish, Crash
    <3>3. QED
      BY <3>1, <3>2
  <2>3. QED
    BY <1>1, <2>1, <2>2 DEF WinnersSend
<1>4. CASE ~ \E w \in Sender : Deliver(w)
  <2>1. CASE UNCHANGED vars
    BY <1>2, <2>1 DEF vars
  <2>2. CASE Tick \/ Handle \/ \E c \in Reconciler : Reconcile(c)
    BY <1>2, <2>2 DEF Tick, Handle, Duplicate, Conflict, Record, Reconcile, List, Apply
  <2>3. CASE \E w \in Sender : Commit(w) \/ Replay(w)
    BY <1>2, <2>3 DEF Commit, Replay
  <2>4. QED
    BY <1>4, <2>1, <2>2, <2>3 DEF TurnNext, TurnTick, TurnCommit, TurnReplay, ReadExisting,
       Prepares, Backend, tvars
<1>5. QED
  BY <1>3, <1>4

TurnInv == /\ Batches!TypeOK /\ ClaimShape /\ ClaimsCounted
           /\ WinnersSend /\ RowsOfReply

LEMMA InitTurn == TurnInit => TurnInv
<1> SUFFICES ASSUME TurnInit PROVE TurnInv
  OBVIOUS
<1>1. Batches!TypeOK
  BY BatchInitType DEF TurnInit
<1>2. /\ \A m \in Message : /\ member[m] = None /\ batch[m].state = "absent"
                            /\ batch[m].attempts = 0 /\ decision[m].kind = "none"
      /\ \A w \in Sender : wf[w].pc = "idle" /\ wf[w].token = 0
  BY DEF TurnInit, Batches!Init, Batches!NoRow, Batches!NoDecision, Batches!IdleRun
<1>3. ClaimShape
  BY <1>2 DEF ClaimShape
<1>4. Winners = {}
  BY <1>2 DEF Winners
<1>5. ClaimsCounted
  BY <1>2, <1>4, FS_EmptySet, TurnAssumption DEF ClaimsCounted
<1>6. WinnersSend /\ RowsOfReply
  BY <1>2, TurnAssumption DEF TurnInit, Init, NoDelivery, WinnersSend, RowsOfReply
<1>7. QED
  BY <1>1, <1>3, <1>5, <1>6 DEF TurnInv

LEMMA NextTurn == IInv /\ TurnInv /\ [TurnNext]_tvars => TurnInv'
<1> SUFFICES ASSUME IInv, TurnInv, [TurnNext]_tvars PROVE TurnInv'
  OBVIOUS
<1>1. Batches!TypeOK'
  BY StepsOfBoth, BatchNextType DEF TurnInv
<1>2. ClaimShape' /\ ClaimsCounted'
  BY StepsOfBoth, NextClaims DEF TurnInv
<1>3. WinnersSend' /\ RowsOfReply'
  BY NextWinnersSend, NextRows DEF TurnInv
<1>4. QED
  BY <1>1, <1>2, <1>3 DEF TurnInv

\* The claims, the copies and the rows of the reply agree in every reachable state.
THEOREM TurnInductive == TurnSpec => [](IInv /\ TurnInv)
<1>1. TurnInit => TurnInv
  BY InitTurn
<1>2. TurnSpec => []IInv
  BY ReplyBehaves, Inductive, PTL
<1>3. QED
  BY <1>1, <1>2, NextTurn, PTL DEF TurnSpec

\* A decision that was silent or superseded leaves nothing to send, replay or
\* reconcile, and a reply is never without its parts.
THEOREM OnlyRepliesLeave == TurnSpec => []OnlyRepliesAreSent
<1>1. IInv /\ TurnInv => OnlyRepliesAreSent
  BY UnsentBefore DEF TurnInv, RowsOfReply, OnlyRepliesAreSent
<1>2. QED
  BY <1>1, TurnInductive, PTL

\* A customer gets no more copies of a part than the batch was claimed: each run
\* that sends it has won a claim, and sends it once.
THEOREM CopiesCostClaims == TurnSpec => []CopiesPerClaim
<1>1. TurnSpec => []Counted
  BY ReplyBehaves, CountedHolds, PTL
<1>2. ASSUME TurnInv, Counted, NEW p \in Part
      PROVE  copies[p] <= batch[Turn].attempts
  <2>1. /\ IsFiniteSet(Winners) /\ Cardinality(Winners) <= batch[Turn].attempts
        /\ sent[p] \subseteq Winners /\ copies[p] = Cardinality(sent[p])
    BY <1>2 DEF TurnInv, ClaimsCounted, WinnersSend, Counted
  <2>2. /\ Cardinality(sent[p]) <= Cardinality(Winners)
        /\ Cardinality(sent[p]) \in Nat /\ Cardinality(Winners) \in Nat
    BY <2>1, FS_Subset, FS_CardinalityType
  <2>3. batch[Turn].attempts \in Nat
    BY <1>2, TurnAssumption DEF TurnInv, Batches!TypeOK, Batches!Row
  <2>4. QED
    BY <2>1, <2>2, <2>3
<1>3. TurnInv /\ Counted => CopiesPerClaim
  BY <1>2 DEF CopiesPerClaim
<1>4. QED
  BY <1>1, <1>3, TurnInductive, PTL

-----------------------------------------------------------------------------
(* The two machines fit: no guard of the reply holds a commit back. *)

Decided == {"closing", "sending", "stopped"}

\* Whoever works on the reply has had the answer of a commit.
WorkAfterCommit == \A w \in Sender : run[w].pc # "idle" => wf[w].pc \in Decided

LEMMA DecidedStays ==
    ASSUME Batches!TypeOK, [Batches!Next]_(Batches!vars), NEW w \in Sender,
           wf[w].pc \in Decided
    PROVE  wf'[w].pc \in Decided
<1> USE DEF Decided
<1>1. wf[w] \in Batches!Run
  BY DEF Batches!TypeOK
<1>2. CASE UNCHANGED Batches!vars
  BY <1>2 DEF Batches!vars
<1>3. CASE Batches!Tick
  <2>1. wf'[w] = [wf[w] EXCEPT !.wake = Batches!Less(@), !.lease = Batches!Less(@)]
    BY <1>3 DEF Batches!Tick
  <2>2. QED
    BY <1>1, <2>1 DEF Batches!Run
<1>4. ASSUME NEW x \in Sender, x # w,
             \/ \E m \in Message : Batches!Ingest(x, m)
             \/ Batches!Progress(x) \/ Batches!CloseFails(x) \/ Batches!Crash(x)
      PROVE  wf'[w] = wf[w]
  BY <1>4 DEF Batches!TypeOK, Batches!Ingest, Batches!Progress, Batches!ReadExisting,
     Batches!ClaimWins, Batches!ClaimTooEarly, Batches!ClaimLoses, Batches!CommitNew,
     Batches!CommitAgain, Batches!Close, Batches!CloseFails, Batches!Crash
<1>5. CASE Batches!Close(w) \/ Batches!CloseFails(w) \/ Batches!Crash(w)
  BY <1>1, <1>5 DEF Batches!TypeOK, Batches!Close, Batches!CloseFails, Batches!Crash,
     Batches!AfterCommit, Batches!Run
<1>6. ~((\E m \in Message : Batches!Ingest(w, m))
        \/ (Batches!Progress(w) /\ ~Batches!Close(w)))
  BY DEF Batches!Ingest, Batches!Progress, Batches!ReadExisting, Batches!ClaimWins,
     Batches!ClaimTooEarly, Batches!ClaimLoses, Batches!CommitNew, Batches!CommitAgain
<1>7. ASSUME NEW b \in Message, Batches!ExpireClaim(b) PROVE wf' = wf
  BY <1>7 DEF Batches!ExpireClaim
<1>8. QED
  BY <1>2, <1>3, <1>4, <1>5, <1>6, <1>7 DEF Batches!Next

LEMMA NextWork ==
    ASSUME IInv, Batches!TypeOK, WorkAfterCommit, [TurnNext]_tvars
    PROVE  WorkAfterCommit'
<1>1. \A w \in Sender : wf[w].pc \in Decided => wf'[w].pc \in Decided
  BY StepsOfBoth, DecidedStays
<1>2. CASE run' = run
  BY <1>1, <1>2 DEF WorkAfterCommit
<1>3. ASSUME NEW w \in Sender, wf'[w].pc \in Decided,
             \A x \in Sender \ {w} : run'[x] = run[x]
      PROVE  WorkAfterCommit'
  BY <1>1, <1>3 DEF WorkAfterCommit
<1>4. ASSUME NEW w \in Sender, NEW p \in Payload, TurnCommit(w, p) \/ TurnReplay(w, p)
      PROVE  WorkAfterCommit'
  <2>1. CASE UNCHANGED vars
    BY <1>2, <2>1 DEF vars
  <2>2. CASE TurnCommit(w, p) /\ Commit(w)
    <3>1. wf'[w].pc = "closing"
      BY <2>2 DEF TurnCommit, Batches!CommitNew, Batches!TypeOK, Batches!Run
    <3>2. \A x \in Sender \ {w} : run'[x] = run[x]
      BY <2>2 DEF Commit, IInv, TypeOK
    <3>3. QED
      BY <1>3, <3>1, <3>2 DEF Decided
  <2>3. CASE wf'[w].pc = "closing" /\ Replay(w)
    <3>1. \A x \in Sender \ {w} : run'[x] = run[x]
      BY <2>3 DEF Replay, IInv, TypeOK
    <3>2. QED
      BY <1>3, <2>3, <3>1 DEF Decided
  <2>4. QED
    BY <1>4, <2>1, <2>2, <2>3 DEF TurnCommit, TurnReplay
<1>5. ASSUME NEW w \in Sender, Deliver(w) PROVE WorkAfterCommit'
  <2>1. wf'[w].pc \in Decided
    BY <1>1, <1>5 DEF Deliver, Decided
  <2>2. \A x \in Sender \ {w} : run'[x] = run[x]
    BY <1>5 DEF IInv, TypeOK, Deliver, RunStep, AnswerLost, Replay, Skip, Halt, Send,
       SendRefused, SendUnanswered, CallReport, Continue, GiveUp, Finish, Crash
  <2>3. QED
    BY <1>3, <2>1, <2>2
<1>6. CASE \/ UNCHANGED vars \/ Tick \/ Handle
           \/ \E c \in Reconciler : Reconcile(c)
  BY <1>2, <1>6 DEF vars, Tick, Handle, Duplicate, Conflict, Record, Reconcile, List, Apply
<1>7. QED
  BY <1>4, <1>5, <1>6 DEF TurnNext, TurnTick, ReadExisting, Prepares, Backend, tvars

\* A run that is about to commit finds the reply as its commit needs it: the run has
\* not begun to deliver, and the parts are there if the turn was decided before as a
\* reply and not there if it was not.
GuardsMeet ==
    \A w \in Sender :
        wf[w].pc = "deciding" =>
            /\ run[w].pc = "idle"
            /\ Committed <=> decision[Turn].kind = "reply"

\* Joining the two machines in the commit takes no decision away from the runs.
THEOREM CommitsAreFree == TurnSpec => []GuardsMeet
<1>1. TurnInit => WorkAfterCommit
  BY DEF TurnInit, Init, IdleRun, WorkAfterCommit
<1>2. TurnSpec => []WorkAfterCommit
  <2>1. IInv /\ TurnInv /\ WorkAfterCommit /\ [TurnNext]_tvars => WorkAfterCommit'
    BY NextWork DEF TurnInv
  <2>2. QED
    BY <1>1, <2>1, TurnInductive, PTL DEF TurnSpec
<1>3. TurnInv /\ WorkAfterCommit => GuardsMeet
  <2>1. 1 \in Part
    BY BotpressAssumption DEF BotpressAssumption, Part
  <2>2. QED
    BY <2>1 DEF TurnInv, RowsOfReply, WorkAfterCommit, Decided, GuardsMeet, Committed
<1>4. QED
  BY <1>2, <1>3, TurnInductive, PTL
=============================================================================
