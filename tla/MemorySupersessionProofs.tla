---------------------- MODULE MemorySupersessionProofs ----------------------
(***************************************************************************)
(* Proofs about MemorySupersession for any memories, slots and invocations *)
(* of the cron.                                                            *)
(***************************************************************************)
EXTENDS MemorySupersession, TLAPS

-----------------------------------------------------------------------------
(* The inductive invariant. *)

\* A memory does not correct itself, and an invocation that has something to
\* report recorded it.
NoneCorrectsItself == \A m \in Memory : m \notin job[m].corrects
DoneIsRecorded == \A c \in Cron : run[c].done # None => memory[run[c].done] # Absent

\* The jobs that correct a parked memory are not all through with success.
SomeoneCorrectsIt ==
    \A p \in Status("pending_supersession") :
        \E m \in Memory :
            /\ p \in job[m].corrects
            /\ memory[m] = Absent
            /\ job[m].state = "completed" => job[m].result = "rejected"

\* What is corrected is corrected by a job, and a job nobody took has all its
\* attempts.
JobsStart ==
    \A m \in Memory :
        /\ job[m].state = "none" => job[m].corrects = {}
        /\ job[m].state = "pending" => job[m].attempts = 0

\* An invocation past the projection has no job left, and a job in its last
\* attempt is in somebody's hands or was left undone.
OnlyProjecting == \A c \in Cron : run[c].pc # "project" => run[c].todo = {}
HeldOrDropped ==
    \A m \in Memory : LastAttempt(m) => m \in dropped \/ \E c \in Cron : m \in run[c].todo

IInv ==
    /\ TypeOK /\ NoneCorrectsItself /\ DoneIsRecorded /\ JobsStart
    /\ OnlyProjecting /\ HeldOrDropped
    /\ NoStaleTwin /\ SomeoneCorrectsIt /\ OnePerSlot(memory)

-----------------------------------------------------------------------------
(* The records the code writes. *)

MemoryState == {"absent", "active", "pending_supersession", "superseded", "expired"}
MemoryRow == [status : MemoryState, by : Memory \cup {None}]

JobState == {"none", "pending", "processing", "completed", "failed"}
JobResult == {"none", "accepted", "duplicate", "rejected"}
Job == [state : JobState, result : JobResult, attempts : 0..MaxAttempts, live : BOOLEAN,
        corrects : SUBSET Memory, rewritten : BOOLEAN, earlier : SUBSET Memory]
Rec(st, res, n, l, c, w, e) ==
    [state |-> st, result |-> res, attempts |-> n, live |-> l, corrects |-> c,
     rewritten |-> w, earlier |-> e]

\* A job with that state, result, attempts and memories to correct.
Is(j, st, res, n, c) ==
    j \in Job /\ j.state = st /\ j.result = res /\ j.attempts = n /\ j.corrects = c

Invocation == [pc : {"idle", "project", "reclaim"}, todo : SUBSET Memory,
               done : Memory \cup {None}, seen : [Memory -> SUBSET Evidence]]

LEMMA TypeParts ==
    TypeOK <=> /\ memory \in [Memory -> MemoryRow] /\ job \in [Memory -> Job]
               /\ audit \in [Memory -> SUBSET Evidence] /\ run \in [Cron -> Invocation]
               /\ dropped \in SUBSET Memory /\ deaths \in 0..MaxDeaths
BY DEF TypeOK, MemoryRow, MemoryState, Job, JobState, JobResult, Invocation

LEMMA TypePartsNext ==
    TypeOK' <=> /\ memory' \in [Memory -> MemoryRow] /\ job' \in [Memory -> Job]
                /\ audit' \in [Memory -> SUBSET Evidence] /\ run' \in [Cron -> Invocation]
                /\ dropped' \in SUBSET Memory /\ deaths' \in 0..MaxDeaths
BY DEF TypeOK, MemoryRow, MemoryState, Job, JobState, JobResult, Invocation

LEMMA JobFacts ==
    ASSUME NEW CONSTANT j \in Job
    PROVE  /\ j.state \in JobState /\ j.result \in JobResult /\ j.attempts \in 0..MaxAttempts
           /\ j.live \in BOOLEAN /\ j.corrects \in SUBSET Memory
           /\ j.rewritten \in BOOLEAN /\ j.earlier \in SUBSET Memory
BY DEF Job

LEMMA RecFacts ==
    ASSUME NEW CONSTANT st \in JobState, NEW CONSTANT res \in JobResult,
           NEW CONSTANT n \in 0..MaxAttempts, NEW CONSTANT l \in BOOLEAN,
           NEW CONSTANT c \in SUBSET Memory, NEW CONSTANT w \in BOOLEAN,
           NEW CONSTANT e \in SUBSET Memory
    PROVE  Is(Rec(st, res, n, l, c, w, e), st, res, n, c)
BY DEF Is, Rec, Job

LEMMA AbsentFacts ==
    /\ Absent \in MemoryRow /\ Absent.status = "absent"
    /\ Is(NoJob, "none", "none", 0, {})
    /\ Nothing \in [Memory -> SUBSET Evidence]
    /\ Idle \in Invocation /\ Idle.pc = "idle" /\ Idle.done = None /\ Idle.todo = {}
<1>1. Absent \in MemoryRow /\ Absent.status = "absent"
  BY DEF Absent, MemoryRow, MemoryState
<1>2. Is(NoJob, "none", "none", 0, {})
  <2>1. PICK b \in BOOLEAN : b = FALSE
    OBVIOUS
  <2>2. NoJob = Rec("none", "none", 0, b, {}, b, {})
    BY <2>1 DEF NoJob, Rec
  <2>3. /\ "none" \in JobState /\ "none" \in JobResult /\ 0 \in 0..MaxAttempts
        /\ {} \in SUBSET Memory
    BY MemoryAssumption DEF MemoryAssumption, JobState, JobResult
  <2>4. Is(Rec("none", "none", 0, b, {}, b, {}), "none", "none", 0, {})
    BY <2>3, RecFacts
  <2>5. QED
    BY <2>2, <2>4
<1>3. Nothing \in [Memory -> SUBSET Evidence]
  BY DEF Nothing
<1>4. Idle \in Invocation /\ Idle.pc = "idle" /\ Idle.done = None /\ Idle.todo = {}
  BY <1>3 DEF Idle, Invocation
<1>5. QED
  BY <1>1, <1>2, <1>3, <1>4

LEMMA CompleteSet ==
    ASSUME NEW CONSTANT j \in Job, NEW CONSTANT res \in JobResult
    PROVE  Is([j EXCEPT !.state = "completed", !.result = res, !.live = FALSE],
              "completed", res, j.attempts, j.corrects)
<1> DEFINE p == [j EXCEPT !.state = "completed"]
           q == [p EXCEPT !.result = res]
<1>0. [j EXCEPT !.state = "completed", !.result = res, !.live = FALSE] = [q EXCEPT !.live = FALSE]
  OBVIOUS
<1>1. p = Rec("completed", j.result, j.attempts, j.live, j.corrects, j.rewritten, j.earlier)
  BY DEF Job, Rec
<1> HIDE DEF p
<1>2. q = Rec("completed", res, j.attempts, j.live, j.corrects, j.rewritten, j.earlier)
  BY <1>1 DEF Rec
<1> HIDE DEF q
<1>3. ASSUME NEW b \in BOOLEAN
      PROVE  Is([q EXCEPT !.live = b], "completed", res, j.attempts, j.corrects)
  <2>1. [q EXCEPT !.live = b]
            = Rec("completed", res, j.attempts, b, j.corrects, j.rewritten, j.earlier)
    BY <1>2 DEF Rec
  <2>2. "completed" \in JobState
    BY DEF JobState
  <2>3. QED
    BY <2>1, <2>2, JobFacts, RecFacts
<1>4. QED
  BY <1>0, <1>3

LEMMA FailSet ==
    ASSUME NEW CONSTANT j \in Job, NEW CONSTANT other \in BOOLEAN
    PROVE  Is([j EXCEPT !.state = "failed", !.live = FALSE, !.rewritten = other],
              "failed", j.result, j.attempts, j.corrects)
<1> DEFINE p == [j EXCEPT !.state = "failed"]
<1>0. [j EXCEPT !.state = "failed", !.live = FALSE, !.rewritten = other]
          = [[p EXCEPT !.live = FALSE] EXCEPT !.rewritten = other]
  OBVIOUS
<1>1. p = Rec("failed", j.result, j.attempts, j.live, j.corrects, j.rewritten, j.earlier)
  BY DEF Job, Rec
<1> HIDE DEF p
<1>2. ASSUME NEW b \in BOOLEAN
      PROVE  Is([[p EXCEPT !.live = b] EXCEPT !.rewritten = other],
                "failed", j.result, j.attempts, j.corrects)
  <2> DEFINE q == [p EXCEPT !.live = b]
  <2>1. q = Rec("failed", j.result, j.attempts, b, j.corrects, j.rewritten, j.earlier)
    BY <1>1 DEF Rec
  <2> HIDE DEF q
  <2>2. [q EXCEPT !.rewritten = other]
            = Rec("failed", j.result, j.attempts, b, j.corrects, other, j.earlier)
    BY <2>1 DEF Rec
  <2>3. "failed" \in JobState
    BY DEF JobState
  <2>4. Is([q EXCEPT !.rewritten = other], "failed", j.result, j.attempts, j.corrects)
    BY <2>2, <2>3, JobFacts, RecFacts
  <2>5. QED
    BY <2>4 DEF q
<1>3. QED
  BY <1>0, <1>2

LEMMA LapseSet ==
    ASSUME NEW CONSTANT j \in Job
    PROVE  Is([j EXCEPT !.live = FALSE], j.state, j.result, j.attempts, j.corrects)
<1>1. ASSUME NEW b \in BOOLEAN
      PROVE  Is([j EXCEPT !.live = b], j.state, j.result, j.attempts, j.corrects)
  <2>1. [j EXCEPT !.live = b]
            = Rec(j.state, j.result, j.attempts, b, j.corrects, j.rewritten, j.earlier)
    BY DEF Job, Rec
  <2>2. QED
    BY <2>1, JobFacts, RecFacts
<1>2. QED
  BY <1>1

LEMMA ClaimSet ==
    ASSUME NEW CONSTANT j \in Job, j.attempts < MaxAttempts
    PROVE  Is([j EXCEPT !.state = "processing", !.live = TRUE, !.attempts = @ + 1],
              "processing", j.result, j.attempts + 1, j.corrects)
<1> DEFINE n == j.attempts + 1
           p == [j EXCEPT !.state = "processing"]
<1>0. /\ p = Rec("processing", j.result, j.attempts, j.live, j.corrects, j.rewritten, j.earlier)
      /\ n \in 0..MaxAttempts
  BY JobFacts, MemoryAssumption DEF MemoryAssumption, Job, Rec
<1>1. [j EXCEPT !.state = "processing", !.live = TRUE, !.attempts = @ + 1] = [[p EXCEPT !.live = TRUE] EXCEPT !.attempts = n]
  BY <1>0 DEF Rec
<1> HIDE DEF n, p
<1>2. ASSUME NEW b \in BOOLEAN
      PROVE  Is([[p EXCEPT !.live = b] EXCEPT !.attempts = n], "processing", j.result, n, j.corrects)
  <2> DEFINE q == [p EXCEPT !.live = b]
  <2>a. q = Rec("processing", j.result, j.attempts, b, j.corrects, j.rewritten, j.earlier)
    BY <1>0 DEF Rec
  <2> HIDE DEF q
  <2>b. [q EXCEPT !.attempts = n]
            = Rec("processing", j.result, n, b, j.corrects, j.rewritten, j.earlier)
    BY <2>a DEF Rec
  <2>1. [[p EXCEPT !.live = b] EXCEPT !.attempts = n]
            = Rec("processing", j.result, n, b, j.corrects, j.rewritten, j.earlier)
    BY <2>b DEF q
  <2>2. "processing" \in JobState
    BY DEF JobState
  <2>3. QED
    BY <1>0, <2>1, <2>2, JobFacts, RecFacts
<1>3. QED
  BY <1>1, <1>2 DEF n

LEMMA PendingSet ==
    ASSUME NEW CONSTANT c \in SUBSET Memory, NEW CONSTANT e \in SUBSET Memory
    PROVE  Is([NoJob EXCEPT !.corrects = c, !.earlier = e, !.state = "pending"],
              "pending", "none", 0, c)
<1>1. PICK b \in BOOLEAN : b = FALSE
  OBVIOUS
<1>2. NoJob = Rec("none", "none", 0, b, {}, b, {})
  BY <1>1 DEF NoJob, Rec
<1> DEFINE p == [NoJob EXCEPT !.corrects = c]
           q == [p EXCEPT !.earlier = e]
<1>3. p = Rec("none", "none", 0, b, c, b, {})
  BY <1>2 DEF Rec
<1> HIDE DEF p
<1>4. q = Rec("none", "none", 0, b, c, b, e)
  BY <1>3 DEF Rec
<1> HIDE DEF q
<1>5. [q EXCEPT !.state = "pending"] = Rec("pending", "none", 0, b, c, b, e)
  BY <1>4 DEF Rec
<1>6. [NoJob EXCEPT !.corrects = c, !.earlier = e, !.state = "pending"] = [q EXCEPT !.state = "pending"]
  BY DEF p, q
<1>7. "pending" \in JobState /\ "none" \in JobResult /\ 0 \in 0..MaxAttempts
  BY MemoryAssumption DEF MemoryAssumption, JobState, JobResult
<1>8. Is(Rec("pending", "none", 0, b, c, b, e), "pending", "none", 0, c)
  BY <1>7, RecFacts
<1>9. QED
  BY <1>5, <1>6, <1>8

-----------------------------------------------------------------------------
(* What the actions do to the jobs and the invocations *)

\* The jobs stay what they correct and none starts anew; those of K are completed
\* with result res if they are completed anew.
JobsKept(K, res) ==
    /\ job' \in [Memory -> Job]
    /\ \A m \in Memory :
          /\ job'[m].corrects = job[m].corrects
          /\ job'[m].state = "none" => job[m].state = "none"
          /\ job'[m].state = "pending" => job[m].state = "pending" /\ job'[m].attempts = job[m].attempts
          /\ job'[m].state = "completed" =>
                \/ job[m].state = "completed" /\ job'[m].result = job[m].result
                \/ m \in K /\ job'[m].result = res

\* No last attempt begins, and those on the jobs of D are over.
NoNewLast(D) ==
    \A m \in Memory : LastAttempt(m)' => LastAttempt(m) /\ m \notin D

LEMMA UnchangedJobs ==
    ASSUME TypeOK, job' = job PROVE JobsKept({}, "none") /\ NoNewLast({})
BY TypeParts DEF JobsKept, NoNewLast, LastAttempt

LEMMA CompletedFacts ==
    ASSUME TypeOK, NEW m \in Memory, NEW res \in JobResult, job' = Completed(m, res)
    PROVE  JobsKept({m}, res) /\ NoNewLast({m})
<1>1. job \in [Memory -> Job] /\ job[m] \in Job
  BY TypeParts
<1>2. CASE job[m].state # "processing"
  <2>1. job' = job
    BY <1>2 DEF Completed
  <2>2. QED
    BY <1>1, <1>2, <2>1 DEF JobsKept, NoNewLast, LastAttempt
<1>3. CASE job[m].state = "processing"
  <2>1. PICK j : /\ j = [job[m] EXCEPT !.state = "completed", !.result = res, !.live = FALSE]
                 /\ Is(j, "completed", res, job[m].attempts, job[m].corrects)
    BY <1>1, CompleteSet
  <2>2. job' = [job EXCEPT ![m] = j]
    BY <1>3, <2>1 DEF Completed
  <2>3. /\ job' \in [Memory -> Job] /\ job'[m] = j
        /\ \A n \in Memory : n # m => job'[n] = job[n]
    BY <1>1, <2>1, <2>2 DEF Is
  <2>4. QED
    BY <2>1, <2>3 DEF JobsKept, NoNewLast, LastAttempt, Is
<1>4. QED
  BY <1>2, <1>3

LEMMA FailedFacts ==
    ASSUME TypeOK, NEW m \in Memory, NEW other \in BOOLEAN,
           job' = [job EXCEPT ![m] =
                      [@ EXCEPT !.state = "failed", !.live = FALSE, !.rewritten = other]]
    PROVE  JobsKept({}, "none") /\ NoNewLast({m})
<1>1. job \in [Memory -> Job] /\ job[m] \in Job
  BY TypeParts
<1>2. PICK j : /\ j = [job[m] EXCEPT !.state = "failed", !.live = FALSE, !.rewritten = other]
               /\ Is(j, "failed", job[m].result, job[m].attempts, job[m].corrects)
  BY <1>1, FailSet
<1>3. job' = [job EXCEPT ![m] = j]
  BY <1>2
<1>4. /\ job' \in [Memory -> Job] /\ job'[m] = j
      /\ \A n \in Memory : n # m => job'[n] = job[n]
  BY <1>1, <1>2, <1>3 DEF Is
<1>5. QED
  BY <1>2, <1>4 DEF JobsKept, NoNewLast, LastAttempt, Is

LEMMA LapseFacts ==
    ASSUME TypeOK, NEW m \in Memory, Lapse(m) PROVE JobsKept({}, "none") /\ NoNewLast({})
<1>1. job \in [Memory -> Job] /\ job[m] \in Job
  BY TypeParts
<1>2. PICK j : /\ j = [job[m] EXCEPT !.live = FALSE]
               /\ Is(j, job[m].state, job[m].result, job[m].attempts, job[m].corrects)
  BY <1>1, LapseSet
<1>3. job' = [job EXCEPT ![m] = j]
  BY <1>2 DEF Lapse
<1>4. /\ job' \in [Memory -> Job] /\ job'[m] = j
      /\ \A n \in Memory : n # m => job'[n] = job[n]
  BY <1>1, <1>2, <1>3 DEF Is
<1>5. QED
  BY <1>2, <1>4 DEF JobsKept, NoNewLast, LastAttempt, Is

LEMMA FreshRuns ==
    /\ Idle \in Invocation /\ Idle.done = None /\ Idle.todo = {}
    /\ LET w == [Idle EXCEPT !.pc = "project"] IN
       w \in Invocation /\ w.done = None /\ w.todo = {}
BY AbsentFacts DEF Invocation

LEMMA ClaimFacts ==
    ASSUME TypeOK, NEW c \in Cron, Claim(c)
    PROVE  /\ JobsKept({}, "none") /\ run' \in [Cron -> Invocation] /\ run'[c].done = None
           /\ run'[c].pc = "project" /\ run[c].todo = {}
           /\ \A d \in Cron : d # c => run'[d] = run[d]
           /\ \A m \in Memory : m \notin run'[c].todo => job'[m] = job[m]
<1>0. job \in [Memory -> Job] /\ run \in [Cron -> Invocation] /\ run[c].todo = {}
  BY TypeParts, AbsentFacts DEF Claim
<1> DEFINE taken == {m \in Memory : Claimable(m)}
<1>1. ASSUME NEW m \in taken
      PROVE  Is([job[m] EXCEPT !.state = "processing", !.live = TRUE, !.attempts = @ + 1],
                "processing", job[m].result, job[m].attempts + 1, job[m].corrects)
  <2>1. job[m] \in Job /\ job[m].attempts < MaxAttempts
    BY <1>0, <1>1 DEF Claimable
  <2>2. QED
    BY <2>1, ClaimSet
<1>2. job' = [m \in Memory |->
              IF m \in taken
              THEN [job[m] EXCEPT !.state = "processing", !.live = TRUE, !.attempts = @ + 1]
              ELSE job[m]]
  BY DEF Claim
<1>3. run' = [run EXCEPT ![c] = [Idle EXCEPT !.pc = "project", !.todo = taken]]
  BY DEF Claim
<1>4. taken \in SUBSET Memory
  OBVIOUS
<1> HIDE DEF taken
<1>5. \A m \in Memory :
          \/ job'[m] = job[m]
          \/ m \in taken /\ Is(job'[m], "processing", job[m].result, job[m].attempts + 1, job[m].corrects)
  <2>1. SUFFICES ASSUME NEW m \in Memory
                 PROVE  \/ job'[m] = job[m]
                        \/ m \in taken /\ Is(job'[m], "processing", job[m].result,
                                              job[m].attempts + 1, job[m].corrects)
    OBVIOUS
  <2>2. CASE m \notin taken
    BY <1>2, <2>2
  <2>3. CASE m \in taken
    <3>1. job'[m] = [job[m] EXCEPT !.state = "processing", !.live = TRUE, !.attempts = @ + 1]
      BY <1>2, <2>3
    <3>2. QED
      BY <1>1, <2>3, <3>1, Zenon
  <2>4. QED
    BY <2>2, <2>3
<1>6. job' \in [Memory -> Job]
  <2>1. \A m \in Memory : job'[m] \in Job
    BY <1>0, <1>5 DEF Is
  <2>2. job' = [m \in Memory |-> job'[m]]
    BY <1>2
  <2>3. QED
    BY <2>1, <2>2
<1>7. JobsKept({}, "none")
  BY <1>5, <1>6 DEF JobsKept, Is
<1>8. PICK w \in Invocation : /\ w = [Idle EXCEPT !.pc = "project", !.todo = taken]
                              /\ w.done = None /\ w.pc = "project" /\ w.todo = taken
  <2> DEFINE p == [Idle EXCEPT !.pc = "project"]
             w == [p EXCEPT !.todo = taken]
  <2>1. w = [Idle EXCEPT !.pc = "project", !.todo = taken]
    OBVIOUS
  <2>2. p \in Invocation /\ p.done = None /\ p.pc = "project"
    BY AbsentFacts DEF Invocation
  <2> HIDE DEF p
  <2>3. w \in Invocation /\ w.done = None /\ w.pc = "project" /\ w.todo = taken
    BY <1>4, <2>2 DEF Invocation
  <2> HIDE DEF w
  <2>4. QED
    BY <2>1, <2>3
<1>9. run' = [run EXCEPT ![c] = w]
  BY <1>3, <1>8
<1>10. QED
  BY <1>0, <1>5, <1>7, <1>8, <1>9

\* An invocation goes on to the next job.
LEMMA WentOnFacts ==
    ASSUME TypeOK, NEW c \in Cron, NEW m \in Memory, run' = WentOn(c, m)
    PROVE  /\ run' \in [Cron -> Invocation] /\ run'[c].done = None
           /\ run'[c].pc = run[c].pc /\ run'[c].todo = run[c].todo \ {m}
           /\ \A d \in Cron : d # c => run'[d] = run[d]
<1>1. run \in [Cron -> Invocation] /\ run[c] \in Invocation
  BY TypeParts
<1> DEFINE p == [run[c] EXCEPT !.todo = @ \ {m}]
           w == [p EXCEPT !.done = None]
<1>2. p \in Invocation /\ p.pc = run[c].pc /\ p.todo = run[c].todo \ {m}
  BY <1>1 DEF Invocation
<1>3. run' = [run EXCEPT ![c] = w]
  BY <1>1 DEF WentOn
<1> HIDE DEF p
<1>4. w \in Invocation /\ w.done = None /\ w.pc = p.pc /\ w.todo = p.todo
  BY <1>2 DEF Invocation
<1> HIDE DEF w
<1>5. QED
  BY <1>1, <1>2, <1>3, <1>4

\* An invocation starts over, or ends.
LEMMA AnewFacts ==
    ASSUME TypeOK, NEW c \in Cron, NEW w \in Invocation, w.done = None, run' = [run EXCEPT ![c] = w]
    PROVE  /\ run' \in [Cron -> Invocation] /\ run'[c].done = None /\ run'[c] = w
           /\ \A d \in Cron : d # c => run'[d] = run[d]
BY TypeParts

LEMMA LookFacts ==
    ASSUME TypeOK, NEW c \in Cron, Look(c)
    PROVE  /\ run' \in [Cron -> Invocation] /\ run'[c].done = None /\ run'[c].todo = {}
           /\ \A d \in Cron : d # c => run'[d] = run[d]
<1>1. Found \in [Memory -> SUBSET Evidence]
  <2>1. job \in [Memory -> Job]
    BY TypeParts
  <2>2. \A p \in Memory : FailureOf(p) \in SUBSET Evidence
    BY <2>1, JobFacts DEF FailureOf, Failures, Evidence
  <2>3. QED
    BY <2>2 DEF Found
<1> DEFINE w == [pc |-> "reclaim", todo |-> {}, done |-> None, seen |-> Found]
<1>2. w \in Invocation /\ w.done = None /\ w.todo = {}
  BY <1>1 DEF Invocation
<1>3. [Idle EXCEPT !.pc = "reclaim", !.seen = Found] = w
  <2> DEFINE p == [Idle EXCEPT !.pc = "reclaim"]
  <2>1. p = [pc |-> "reclaim", todo |-> {}, done |-> None, seen |-> Nothing]
    BY DEF Idle
  <2>2. [Idle EXCEPT !.pc = "reclaim", !.seen = Found] = [p EXCEPT !.seen = Found]
    OBVIOUS
  <2> HIDE DEF p
  <2>3. [p EXCEPT !.seen = Found] = w
    BY <2>1
  <2>4. QED
    BY <2>2, <2>3
<1> HIDE DEF w
<1>4. run' = [run EXCEPT ![c] = Idle] \/ run' = [run EXCEPT ![c] = w]
  BY <1>3 DEF Look
<1>5. QED
  BY <1>2, <1>4, AnewFacts, FreshRuns

-----------------------------------------------------------------------------
(* The parts of the invariant, step by step *)

\* The invocations have nothing new to report.
LEMMA DoneKept ==
    ASSUME DoneIsRecorded,
           \A m \in Memory : memory[m] # Absent => memory'[m] # Absent,
           run' \in [Cron -> Invocation],
           \A c \in Cron : run'[c].done = None \/ run'[c].done = run[c].done
    PROVE  DoneIsRecorded'
<1>1. SUFFICES ASSUME NEW c \in Cron, run'[c].done # None PROVE memory'[run'[c].done] # Absent
  BY DEF DoneIsRecorded
<1>2. run'[c].done \in Memory
  BY <1>1 DEF Invocation
<1>3. QED
  BY <1>1, <1>2 DEF DoneIsRecorded

\* The memories stay as they are and no job that was waited for is lost.
LEMMA JobStep ==
    ASSUME IInv, memory' = memory, NEW K \in SUBSET Memory, NEW res, JobsKept(K, res),
           res = "rejected" \/ \A m \in K : memory[m] # Absent
    PROVE  /\ NoneCorrectsItself' /\ JobsStart' /\ NoStaleTwin' /\ SomeoneCorrectsIt'
           /\ OnePerSlot(memory)'
<1>1. NoneCorrectsItself'
  BY DEF IInv, NoneCorrectsItself, JobsKept
<1>2. NoStaleTwin'
  BY DEF IInv, NoStaleTwin, JobsKept
<1>3. SomeoneCorrectsIt'
  <2>1. SUFFICES ASSUME NEW p \in Status("pending_supersession")
                 PROVE  \E m \in Memory :
                          /\ p \in job'[m].corrects
                          /\ memory[m] = Absent
                          /\ job'[m].state = "completed" => job'[m].result = "rejected"
    BY DEF SomeoneCorrectsIt, Status
  <2>2. PICK m \in Memory :
              /\ p \in job[m].corrects
              /\ memory[m] = Absent
              /\ job[m].state = "completed" => job[m].result = "rejected"
    BY DEF IInv, SomeoneCorrectsIt
  <2>3. QED
    BY <2>2 DEF JobsKept
<1>4. OnePerSlot(memory)'
  BY DEF IInv, OnePerSlot
<1>5. JobsStart'
  BY DEF IInv, JobsStart, JobsKept
<1>6. QED
  BY <1>1, <1>2, <1>3, <1>4, <1>5

\* The jobs stay as they are, nothing comes or goes, no superseded memory comes
\* back and none is parked.
LEMMA MemoryStep ==
    ASSUME IInv, job' = job,
           \A m \in Memory :
              /\ memory'[m] = Absent <=> memory[m] = Absent
              /\ memory[m].status = "superseded" => memory'[m].status = "superseded"
              /\ memory'[m].status = "pending_supersession" => memory[m].status = "pending_supersession"
    PROVE  NoneCorrectsItself' /\ JobsStart' /\ NoStaleTwin' /\ SomeoneCorrectsIt'
<1>1. NoneCorrectsItself' /\ JobsStart'
  BY DEF IInv, NoneCorrectsItself, JobsStart
<1>2. NoStaleTwin'
  <2>1. \A m \in Memory : job[m].corrects \in SUBSET Memory
    BY TypeParts, JobFacts DEF IInv
  <2>2. QED
    BY <2>1 DEF IInv, NoStaleTwin
<1>3. SomeoneCorrectsIt'
  BY DEF IInv, SomeoneCorrectsIt, Status
<1>4. QED
  BY <1>1, <1>2, <1>3

\* An invocation may be through with the jobs of D, or leave last attempts to
\* the record of those left undone.
LEMMA HandsStep ==
    ASSUME IInv, NEW c \in Cron, NEW D \in SUBSET Memory, NoNewLast(D),
           dropped \in SUBSET dropped',
           \A d \in Cron : d # c => run'[d] = run[d],
           \A m \in run[c].todo : m \in run'[c].todo \/ m \in D \/ (LastAttempt(m) => m \in dropped'),
           run'[c].todo = {} \/ (run'[c].pc = "project")
    PROVE  HeldOrDropped' /\ OnlyProjecting'
<1>1. OnlyProjecting'
  BY DEF IInv, OnlyProjecting
<1>2. HeldOrDropped'
  <2>1. SUFFICES ASSUME NEW m \in Memory, LastAttempt(m)'
                 PROVE  m \in dropped' \/ \E d \in Cron : m \in run'[d].todo
    BY DEF HeldOrDropped
  <2>2. LastAttempt(m) /\ m \notin D
    BY <2>1 DEF NoNewLast
  <2>3. CASE m \in dropped
    BY <2>3
  <2>4. CASE \E d \in Cron : m \in run[d].todo
    <3>1. PICK d \in Cron : m \in run[d].todo
      BY <2>4
    <3>2. QED
      BY <2>2, <3>1
  <2>5. QED
    BY <2>2, <2>3, <2>4 DEF IInv, HeldOrDropped
<1>3. QED
  BY <1>1, <1>2

\* The jobs and the invocations' jobs to do stay as they are.
LEMMA HandsKept ==
    ASSUME IInv, run' = run, dropped' = dropped, NEW D \in SUBSET Memory, NoNewLast(D)
    PROVE  HeldOrDropped' /\ OnlyProjecting'
BY DEF IInv, HeldOrDropped, OnlyProjecting, NoNewLast

LEMMA ExpireStep ==
    ASSUME IInv, NEW m \in Memory, Expire(m) PROVE IInv'
<1>1. /\ memory[m].status = "active" /\ memory' = [memory EXCEPT ![m].status = "expired"]
      /\ job' = job /\ audit' = audit /\ run' = run /\ dropped' = dropped /\ deaths' = deaths
      /\ memory \in [Memory -> MemoryRow]
  BY TypeParts DEF Expire, IInv
<1>2. /\ memory' \in [Memory -> MemoryRow] /\ memory'[m].status = "expired"
      /\ \A n \in Memory : n # m => memory'[n] = memory[n]
  BY <1>1 DEF MemoryRow, MemoryState
<1>3. memory[m] # Absent /\ memory'[m] # Absent
  BY <1>1, <1>2, AbsentFacts
<1>4. NoneCorrectsItself' /\ JobsStart' /\ NoStaleTwin' /\ SomeoneCorrectsIt'
  BY <1>1, <1>2, <1>3, MemoryStep
<1>5. OnePerSlot(memory)'
  BY <1>1, <1>2 DEF IInv, OnePerSlot
<1>6. DoneIsRecorded'
  BY <1>1, <1>2, <1>3, DoneKept, TypeParts DEF IInv
<1>7. TypeOK'
  BY <1>1, <1>2, TypeParts, TypePartsNext DEF IInv
<1>8. HeldOrDropped' /\ OnlyProjecting'
  BY <1>1, UnchangedJobs, HandsKept DEF IInv
<1>9. QED
  BY <1>4, <1>5, <1>6, <1>7, <1>8 DEF IInv

LEMMA ReclaimStep ==
    ASSUME IInv, NEW c \in Cron, Reclaim(c) PROVE IInv'
<1> DEFINE seen == run[c].seen
<1>0. /\ memory \in [Memory -> MemoryRow] /\ audit \in [Memory -> SUBSET Evidence]
      /\ run \in [Cron -> Invocation] /\ seen \in [Memory -> SUBSET Evidence]
      /\ job' = job /\ dropped' = dropped /\ deaths' = deaths
      /\ run[c].pc = "reclaim" /\ run' = [run EXCEPT ![c] = Idle]
      /\ \/ memory' = memory /\ audit' = audit
         \/ /\ memory' = GivenBack(seen) /\ OnePerSlot(memory')
            /\ audit' = [p \in Memory |-> IF p \in Updated(seen) THEN seen[p] ELSE audit[p]]
  BY TypeParts DEF Reclaim, IInv, Invocation
<1>1. /\ run' \in [Cron -> Invocation] /\ run'[c].done = None /\ run'[c] = Idle
      /\ \A d \in Cron : d # c => run'[d] = run[d]
  BY <1>0, AnewFacts, FreshRuns DEF IInv
<1>2. \A m \in Memory : \/ memory'[m] = memory[m]
                        \/ /\ memory[m].status = "pending_supersession"
                           /\ memory'[m] = [memory[m] EXCEPT !.status = "active"]
  BY <1>0 DEF GivenBack, Updated, Status
<1>3. \A m \in Memory : \/ memory'[m] = memory[m]
                        \/ /\ memory[m].status = "pending_supersession"
                           /\ memory'[m].status = "active" /\ memory'[m] \in MemoryRow
  BY <1>0, <1>2 DEF MemoryRow, MemoryState
<1>4. memory' \in [Memory -> MemoryRow] /\ audit' \in [Memory -> SUBSET Evidence]
  BY <1>0, <1>3 DEF GivenBack
<1>5. \A m \in Memory :
          /\ memory'[m] = Absent <=> memory[m] = Absent
          /\ memory[m].status = "superseded" => memory'[m].status = "superseded"
          /\ memory'[m].status = "pending_supersession" => memory[m].status = "pending_supersession"
  BY <1>3, AbsentFacts
<1>6. NoneCorrectsItself' /\ JobsStart' /\ NoStaleTwin' /\ SomeoneCorrectsIt'
  BY <1>0, <1>5, MemoryStep
<1>7. OnePerSlot(memory)'
  BY <1>0 DEF IInv, OnePerSlot
<1>8. DoneIsRecorded'
  BY <1>1, <1>5, DoneKept DEF IInv
<1>9. TypeOK'
  BY <1>0, <1>1, <1>4, TypeParts, TypePartsNext DEF IInv
<1>10. HeldOrDropped' /\ OnlyProjecting'
  <2>1. run[c].todo = {} /\ run'[c].todo = {}
    BY <1>0, <1>1, FreshRuns DEF IInv, OnlyProjecting
  <2>2. NoNewLast({})
    BY <1>0, UnchangedJobs DEF IInv
  <2>3. QED
    BY <1>0, <1>1, <2>1, <2>2, HandsStep
<1>11. QED
  BY <1>6, <1>7, <1>8, <1>9, <1>10 DEF IInv

\* A step on the jobs and the invocations only.
LEMMA WorkStep ==
    ASSUME IInv, memory' = memory, audit' = audit, deaths' \in 0..MaxDeaths,
           dropped' \in SUBSET Memory, HeldOrDropped', OnlyProjecting',
           NEW K \in SUBSET Memory, NEW res, JobsKept(K, res),
           res = "rejected" \/ \A m \in K : memory[m] # Absent,
           run' \in [Cron -> Invocation],
           \A c \in Cron : run'[c].done = None \/ run'[c].done = run[c].done
    PROVE  IInv'
<1>1. /\ NoneCorrectsItself' /\ JobsStart' /\ NoStaleTwin' /\ SomeoneCorrectsIt'
      /\ OnePerSlot(memory)'
  BY JobStep
<1>2. DoneIsRecorded'
  BY DoneKept DEF IInv
<1>3. TypeOK'
  BY TypeParts, TypePartsNext DEF IInv, JobsKept
<1>4. QED
  BY <1>1, <1>2, <1>3 DEF IInv

\* The commit of the candidates S: what the durable memories become.
LEMMA CommitFacts ==
    ASSUME IInv, NEW S \in SUBSET Memory, Commit(S)
    PROVE  /\ memory' \in [Memory -> MemoryRow] /\ job' \in [Memory -> Job]
           /\ \A m \in S : /\ memory[m] = Absent /\ memory'[m] = Absent /\ m \notin job'[m].corrects
                           /\ job'[m].state = "pending" /\ job'[m].attempts = 0
           /\ \A m \in Memory \ S : job'[m] = job[m]
           /\ \A m \in Memory :
                 \/ memory'[m] = memory[m]
                 \/ /\ memory[m].status = "active" /\ memory'[m].status = "pending_supersession"
                    /\ \E n \in S : m \in job'[n].corrects
<1>0. memory \in [Memory -> MemoryRow] /\ job \in [Memory -> Job]
  BY TypeParts DEF IInv
<1>1. \A m \in S : job[m] = NoJob /\ memory[m] = Absent
  BY DEF Commit
<1>2. PICK corrects \in [S -> SUBSET (Status("active") \cup S)], index \in [S -> 1..Cardinality(S)] :
          /\ MayCorrect(S, corrects)
          /\ LET Parked == (UNION {corrects[m] : m \in S}) \ S
                 Earlier(m) ==
                     {n \in Memory : job[n].corrects \cap corrects[m] # {}}
                     \cup {n \in S : index[n] < index[m] /\ corrects[n] \cap corrects[m] # {}}
             IN
             /\ memory' = [m \in Memory |->
                    IF m \in Parked
                    THEN [memory[m] EXCEPT !.status = "pending_supersession"]
                    ELSE memory[m]]
             /\ job' = [m \in Memory |->
                    IF m \in S
                    THEN [NoJob EXCEPT !.corrects = corrects[m], !.earlier = Earlier(m),
                                       !.state = "pending"]
                    ELSE job[m]]
  BY DEF Commit
<1> DEFINE parked == (UNION {corrects[m] : m \in S}) \ S
           earlier(m) == {n \in Memory : job[n].corrects \cap corrects[m] # {}}
                     \cup {n \in S : index[n] < index[m] /\ corrects[n] \cap corrects[m] # {}}
<1>3. /\ \A m \in parked : memory[m].status = "active" /\ \E n \in S : m \in corrects[n]
      /\ parked \in SUBSET Memory
  <2>1. \A n \in S : corrects[n] \subseteq Status("active") \cup S
    BY <1>2
  <2>2. \A p \in parked : \E n \in S : p \in corrects[n] /\ p \notin S
    OBVIOUS
  <2>3. \A m \in parked : m \in Status("active")
    BY <2>1, <2>2
  <2>4. QED
    BY <2>2, <2>3 DEF Status
<1>4. \A m \in S : m \notin corrects[m] /\ corrects[m] \in SUBSET Memory
  BY <1>1, <1>2, AbsentFacts DEF MayCorrect, Status
<1>5. ASSUME NEW m \in S PROVE Is(job'[m], "pending", "none", 0, corrects[m])
  <2> DEFINE e == earlier(m)
  <2>1. job'[m] = [NoJob EXCEPT !.corrects = corrects[m], !.earlier = e, !.state = "pending"]
    BY <1>2
  <2>2. e \in SUBSET Memory
    OBVIOUS
  <2> HIDE DEF e
  <2>3. Is([NoJob EXCEPT !.corrects = corrects[m], !.earlier = e, !.state = "pending"],
           "pending", "none", 0, corrects[m])
    BY <1>4, <2>2, PendingSet
  <2>4. QED
    BY <2>1, <2>3, Zenon
<1>6. \A m \in Memory \ S : job'[m] = job[m]
  BY <1>2
<1>7. job' \in [Memory -> Job]
  <2>1. \A m \in Memory : job'[m] \in Job
    BY <1>0, <1>5, <1>6 DEF Is
  <2>2. job' = [m \in Memory |-> job'[m]]
    BY <1>2
  <2>3. QED
    BY <2>1, <2>2
<1>8. memory' = [m \in Memory |->
          IF m \in parked THEN [memory[m] EXCEPT !.status = "pending_supersession"] ELSE memory[m]]
  BY <1>2
<1> HIDE DEF parked
<1>9. \A m \in Memory \ parked : memory'[m] = memory[m]
  BY <1>8
<1>10. \A m \in parked : memory'[m] \in MemoryRow /\ memory'[m].status = "pending_supersession"
  BY <1>0, <1>3, <1>8 DEF MemoryRow, MemoryState
<1>11. memory' \in [Memory -> MemoryRow]
  <2>1. \A m \in Memory : memory'[m] \in MemoryRow
    BY <1>0, <1>9, <1>10
  <2>2. memory' = [m \in Memory |-> memory'[m]]
    BY <1>8
  <2>3. QED
    BY <2>1, <2>2
<1>12. \A m \in S : m \notin parked
  BY DEF parked
<1>13. \A m \in S : /\ memory[m] = Absent /\ memory'[m] = Absent /\ m \notin job'[m].corrects
                    /\ job'[m].state = "pending" /\ job'[m].attempts = 0
  BY <1>1, <1>4, <1>5, <1>9, <1>12 DEF Is
<1>14. \A m \in parked : \E n \in S : m \in job'[n].corrects
  BY <1>3, <1>5 DEF Is
<1>15. QED
  BY <1>3, <1>6, <1>7, <1>9, <1>10, <1>11, <1>13, <1>14

LEMMA CommitStep ==
    ASSUME IInv, NEW S \in SUBSET Memory, Commit(S) PROVE IInv'
<1>0. /\ audit' = audit /\ run' = run /\ dropped' = dropped /\ deaths' = deaths
      /\ \A m \in S : job[m] = NoJob
  BY DEF Commit
<1>1. /\ memory' \in [Memory -> MemoryRow] /\ job' \in [Memory -> Job]
      /\ \A m \in S : /\ memory[m] = Absent /\ memory'[m] = Absent /\ m \notin job'[m].corrects
                      /\ job'[m].state = "pending" /\ job'[m].attempts = 0
      /\ \A m \in Memory \ S : job'[m] = job[m]
      /\ \A m \in Memory :
            \/ memory'[m] = memory[m]
            \/ /\ memory[m].status = "active" /\ memory'[m].status = "pending_supersession"
               /\ \E n \in S : m \in job'[n].corrects
  BY CommitFacts
<1>2. \A m \in Memory : memory'[m] = Absent <=> memory[m] = Absent
  BY <1>1, AbsentFacts
<1>3. TypeOK'
  BY <1>0, <1>1, TypeParts, TypePartsNext DEF IInv
<1>4. NoneCorrectsItself' /\ JobsStart'
  BY <1>1 DEF IInv, NoneCorrectsItself, JobsStart
<1>5. DoneIsRecorded'
  BY <1>0, <1>1, <1>2, TypeParts, DoneKept DEF IInv
<1>6. NoStaleTwin'
  <2>1. SUFFICES ASSUME NEW m \in Memory, memory'[m] # Absent, NEW p \in job'[m].corrects
                 PROVE  memory'[p].status = "superseded"
    BY DEF NoStaleTwin
  <2>2. memory[m] # Absent /\ job'[m] = job[m]
    BY <1>1, <1>2, <2>1
  <2>3. memory[p].status = "superseded" /\ p \in Memory
    BY <2>1, <2>2, TypeParts, JobFacts DEF IInv, NoStaleTwin
  <2>4. QED
    BY <1>1, <2>3
<1>7. SomeoneCorrectsIt'
  <2>1. SUFFICES ASSUME NEW p \in Memory, memory'[p].status = "pending_supersession"
                 PROVE  \E m \in Memory :
                          /\ p \in job'[m].corrects
                          /\ memory'[m] = Absent
                          /\ job'[m].state = "completed" => job'[m].result = "rejected"
    BY DEF SomeoneCorrectsIt, Status
  <2>2. CASE memory'[p] = memory[p]
    <3>1. PICK m \in Memory :
              /\ p \in job[m].corrects
              /\ memory[m] = Absent
              /\ job[m].state = "completed" => job[m].result = "rejected"
      BY <2>1, <2>2 DEF IInv, SomeoneCorrectsIt, Status
    <3>2. m \notin S
      BY <1>0, <3>1, AbsentFacts DEF Is
    <3>3. QED
      BY <1>1, <1>2, <3>1, <3>2
  <2>3. CASE \E n \in S : p \in job'[n].corrects
    BY <1>1, <2>3
  <2>4. QED
    BY <1>1, <2>2, <2>3
<1>8. OnePerSlot(memory)'
  BY <1>1 DEF IInv, OnePerSlot
<1>9. HeldOrDropped' /\ OnlyProjecting'
  <2>1. NoNewLast({})
    BY <1>1 DEF NoNewLast, LastAttempt
  <2>2. QED
    BY <1>0, <2>1, HandsKept
<1>10. QED
  BY <1>3, <1>4, <1>5, <1>6, <1>7, <1>8, <1>9 DEF IInv

LEMMA RecordStep ==
    ASSUME IInv, NEW c \in Cron, NEW m \in Memory, Record(c, m) PROVE IInv'
<1>0. /\ memory \in [Memory -> MemoryRow] /\ job \in [Memory -> Job] /\ run \in [Cron -> Invocation]
      /\ job[m].corrects \in SUBSET Memory
  BY TypeParts, JobFacts DEF IInv
<1>1. /\ memory[m] = Absent /\ job' = job /\ audit' = audit
      /\ dropped' = dropped /\ deaths' = deaths
      /\ run' = [run EXCEPT ![c].done = m]
      /\ memory' = [p \in Memory |->
            IF p = m THEN [status |-> "active", by |-> None]
            ELSE IF p \in GiveWay(m) THEN [status |-> "superseded", by |-> m]
            ELSE memory[p]]
  BY DEF Record
<1>2. /\ \A p \in GiveWay(m) : p \in Memory /\ p # m /\ memory[p] # Absent
      /\ job[m].corrects \subseteq GiveWay(m)
  BY <1>0, <1>1, AbsentFacts DEF Record, Authorized, GiveWay, Status
<1>3. /\ memory'[m].status = "active"
      /\ \A p \in GiveWay(m) : memory'[p].status = "superseded"
      /\ \A p \in Memory : p # m /\ p \notin GiveWay(m) => memory'[p] = memory[p]
  BY <1>1, <1>2
<1>4. memory' \in [Memory -> MemoryRow]
  BY <1>0, <1>1 DEF MemoryRow, MemoryState
<1>5. /\ run' \in [Cron -> Invocation] /\ run'[c].done = m
      /\ run'[c].todo = run[c].todo /\ run'[c].pc = "project"
      /\ \A d \in Cron : d # c => run'[d] = run[d]
  <2>1. run[c] \in Invocation /\ run[c].pc = "project"
    BY <1>0 DEF Record
  <2> DEFINE w == [run[c] EXCEPT !.done = m]
  <2>2. w \in Invocation /\ w.done = m /\ w.todo = run[c].todo /\ w.pc = "project"
    BY <2>1 DEF Invocation
  <2>3. run' = [run EXCEPT ![c] = w]
    BY <1>1
  <2> HIDE DEF w
  <2>4. QED
    BY <1>0, <2>2, <2>3
<1>6. \A p \in Memory : memory'[p] = Absent <=> memory[p] = Absent /\ p # m
  BY <1>2, <1>3, AbsentFacts
<1>7. DoneIsRecorded'
  <2>1. SUFFICES ASSUME NEW d \in Cron, run'[d].done # None PROVE memory'[run'[d].done] # Absent
    BY DEF DoneIsRecorded
  <2>2. CASE d = c
    BY <1>5, <1>6, <2>2
  <2>3. CASE d # c
    <3>1. run'[d].done \in Memory /\ memory[run'[d].done] # Absent
      BY <1>0, <1>5, <2>1, <2>3 DEF IInv, DoneIsRecorded, Invocation
    <3>2. QED
      BY <1>6, <3>1
  <2>4. QED
    BY <2>2, <2>3
<1>8. NoStaleTwin'
  <2>1. SUFFICES ASSUME NEW n \in Memory, memory'[n] # Absent, NEW p \in job[n].corrects
                 PROVE  memory'[p].status = "superseded"
    BY <1>1 DEF NoStaleTwin
  <2>2. CASE n = m
    BY <1>2, <1>3, <2>1, <2>2
  <2>3. CASE n # m
    <3>1. memory[p].status = "superseded" /\ p \in Memory
      BY <1>0, <1>6, <2>1, <2>3, JobFacts DEF IInv, NoStaleTwin
    <3>2. p # m
      BY <1>1, <3>1, AbsentFacts
    <3>3. QED
      BY <1>3, <3>1, <3>2
  <2>4. QED
    BY <2>2, <2>3
<1>9. SomeoneCorrectsIt'
  <2>1. SUFFICES ASSUME NEW p \in Memory, memory'[p].status = "pending_supersession"
                 PROVE  \E n \in Memory :
                          /\ p \in job[n].corrects
                          /\ memory'[n] = Absent
                          /\ job[n].state = "completed" => job[n].result = "rejected"
    BY <1>1 DEF SomeoneCorrectsIt, Status
  <2>2. p \notin GiveWay(m) /\ memory[p].status = "pending_supersession"
    BY <1>3, <2>1
  <2>3. PICK n \in Memory :
            /\ p \in job[n].corrects
            /\ memory[n] = Absent
            /\ job[n].state = "completed" => job[n].result = "rejected"
    BY <2>2 DEF IInv, SomeoneCorrectsIt, Status
  <2>4. n # m
    BY <1>2, <2>2, <2>3
  <2>5. QED
    BY <1>6, <2>3, <2>4
<1>10. OnePerSlot(memory)'
  <2>1. ASSUME NEW x \in Memory, x # m, memory'[x].status = "active"
        PROVE  memory[x].status = "active" /\ Slot[x] # Slot[m]
    <3>1. x \notin GiveWay(m) /\ memory[x].status = "active"
      BY <1>3, <2>1
    <3>2. QED
      BY <3>1 DEF GiveWay, Status
  <2>2. QED
    BY <2>1 DEF IInv, OnePerSlot
<1>11. NoneCorrectsItself' /\ JobsStart' /\ TypeOK'
  BY <1>1, <1>4, <1>5, TypeParts, TypePartsNext DEF IInv, NoneCorrectsItself, JobsStart
<1>12. HeldOrDropped' /\ OnlyProjecting'
  <2>1. NoNewLast({})
    BY <1>1, UnchangedJobs DEF IInv
  <2>2. QED
    BY <1>1, <1>5, <2>1, HandsStep
<1>13. QED
  BY <1>7, <1>8, <1>9, <1>10, <1>11, <1>12 DEF IInv

\* An invocation is through with the job m, as it was completed or failed.
LEMMA SettleStep ==
    ASSUME IInv, NEW c \in Cron, NEW m \in Memory, run' = WentOn(c, m), run[c].pc = "project",
           UNCHANGED <<memory, audit, dropped, deaths>>,
           NEW K \in SUBSET Memory, NEW res, JobsKept(K, res), NoNewLast({m}),
           res = "rejected" \/ \A n \in K : memory[n] # Absent
    PROVE  IInv'
<1>0. /\ TypeOK /\ {m} \in SUBSET Memory /\ deaths' \in 0..MaxDeaths
      /\ dropped' = dropped /\ dropped' \in SUBSET Memory
  BY TypeParts DEF IInv
<1>1. /\ run' \in [Cron -> Invocation] /\ run'[c].done = None
      /\ run'[c].pc = run[c].pc /\ run'[c].todo = run[c].todo \ {m}
      /\ \A d \in Cron : d # c => run'[d] = run[d]
  BY <1>0, WentOnFacts
<1>2. HeldOrDropped' /\ OnlyProjecting'
  BY <1>0, <1>1, HandsStep
<1>3. \A d \in Cron : run'[d].done = None \/ run'[d].done = run[d].done
  BY <1>1
<1>4. QED
  BY <1>0, <1>1, <1>2, <1>3, WorkStep

\* An invocation starts over or ends: the last attempts it had are left undone.
LEMMA LeaveStep ==
    ASSUME IInv, NEW c \in Cron, NEW w \in Invocation, w.done = None, w.todo = {},
           run' = [run EXCEPT ![c] = w], Drop(run[c].todo),
           UNCHANGED <<memory, job, audit>>, deaths' \in 0..MaxDeaths
    PROVE  IInv'
<1>0. /\ TypeOK /\ {} \in SUBSET Memory /\ run[c].todo \in SUBSET Memory
      /\ dropped \in SUBSET dropped' /\ dropped' \in SUBSET Memory
      /\ \A m \in run[c].todo : LastAttempt(m) => m \in dropped'
  BY TypeParts DEF IInv, Drop, Invocation
<1>1. /\ run' \in [Cron -> Invocation] /\ run'[c].done = None /\ run'[c] = w
      /\ \A d \in Cron : d # c => run'[d] = run[d]
  BY <1>0, AnewFacts
<1>2. JobsKept({}, "none") /\ NoNewLast({})
  BY <1>0, UnchangedJobs
<1>3. HeldOrDropped' /\ OnlyProjecting'
  BY <1>0, <1>1, <1>2, HandsStep
<1>4. \A d \in Cron : run'[d].done = None \/ run'[d].done = run[d].done
  BY <1>1
<1>5. QED
  BY <1>0, <1>1, <1>2, <1>3, <1>4, WorkStep

\* The steps of an invocation that change no memory.
LEMMA JobSteps ==
    ASSUME IInv, NEW c \in Cron, NEW m \in Memory,
           \/ Reject(c, m) \/ Duplicate(c, m) \/ Fail(c, m) \/ FailCompleted(c, m)
           \/ Accept(c) /\ m = run[c].done
    PROVE  IInv'
<1>0. TypeOK /\ {m} \in SUBSET Memory /\ {} \in SUBSET Memory /\ deaths \in 0..MaxDeaths
  BY TypeParts DEF IInv
<1>1. ASSUME Reject(c, m) PROVE IInv'
  <2>1. JobsKept({m}, "rejected") /\ NoNewLast({m})
    BY <1>0, <1>1, CompletedFacts DEF Reject, JobResult
  <2>2. QED
    BY <1>0, <1>1, <2>1, SettleStep DEF Reject
<1>2. ASSUME Duplicate(c, m) PROVE IInv'
  <2>1. JobsKept({m}, "duplicate") /\ NoNewLast({m})
    BY <1>0, <1>2, CompletedFacts DEF Duplicate, JobResult
  <2>2. QED
    BY <1>0, <1>2, <2>1, SettleStep DEF Duplicate
<1>3. ASSUME Accept(c), m = run[c].done PROVE IInv'
  <2>1. JobsKept({m}, "accepted") /\ NoNewLast({m})
    BY <1>0, <1>3, CompletedFacts DEF Accept, JobResult
  <2>2. memory[m] # Absent
    BY <1>3 DEF Accept, IInv, DoneIsRecorded
  <2>3. QED
    BY <1>0, <1>3, <2>1, <2>2, SettleStep DEF Accept
<1>4. ASSUME Fail(c, m) PROVE IInv'
  <2>1. PICK other \in BOOLEAN :
            job' = [job EXCEPT ![m] =
                       [@ EXCEPT !.state = "failed", !.live = FALSE, !.rewritten = other]]
    BY <1>4 DEF Fail
  <2>2. JobsKept({}, "none") /\ NoNewLast({m})
    BY <1>0, <2>1, FailedFacts
  <2>3. QED
    BY <1>0, <1>4, <2>2, SettleStep DEF Fail
<1>5. ASSUME FailCompleted(c, m) PROVE IInv'
  BY <1>0, <1>5, FreshRuns, LeaveStep DEF FailCompleted
<1>6. QED
  BY <1>1, <1>2, <1>3, <1>4, <1>5

LEMMA RunSteps ==
    ASSUME IInv, NEW c \in Cron, Claim(c) \/ Look(c) \/ Die(c) PROVE IInv'
<1>0. /\ TypeOK /\ {} \in SUBSET Memory /\ deaths \in 0..MaxDeaths
      /\ dropped \in SUBSET Memory
  BY TypeParts DEF IInv
<1>1. ASSUME Claim(c) PROVE IInv'
  <2>1. /\ JobsKept({}, "none") /\ run' \in [Cron -> Invocation] /\ run'[c].done = None
        /\ run'[c].pc = "project" /\ run[c].todo = {}
        /\ \A d \in Cron : d # c => run'[d] = run[d]
        /\ \A m \in Memory : m \notin run'[c].todo => job'[m] = job[m]
    BY <1>0, <1>1, ClaimFacts
  <2>2. OnlyProjecting'
    BY <2>1 DEF IInv, OnlyProjecting
  <2>3. HeldOrDropped'
    <3>1. SUFFICES ASSUME NEW m \in Memory, LastAttempt(m)', m \notin run'[c].todo
                   PROVE  m \in dropped' \/ \E d \in Cron : m \in run'[d].todo
      BY DEF HeldOrDropped
    <3>2. LastAttempt(m)
      BY <2>1, <3>1 DEF LastAttempt
    <3>3. m \in dropped \/ \E d \in Cron : d # c /\ m \in run[d].todo
      BY <2>1, <3>2 DEF IInv, HeldOrDropped
    <3>4. QED
      BY <1>1, <2>1, <3>3 DEF Claim
  <2>4. \A d \in Cron : run'[d].done = None \/ run'[d].done = run[d].done
    BY <2>1
  <2>5. QED
    BY <1>0, <1>1, <2>1, <2>2, <2>3, <2>4, WorkStep DEF Claim
<1>2. ASSUME Look(c) PROVE IInv'
  <2>1. /\ run' \in [Cron -> Invocation] /\ run'[c].done = None /\ run'[c].todo = {}
        /\ \A d \in Cron : d # c => run'[d] = run[d]
    BY <1>0, <1>2, LookFacts
  <2>2. JobsKept({}, "none") /\ NoNewLast({})
    BY <1>0, <1>2, UnchangedJobs DEF Look
  <2>3. HeldOrDropped' /\ OnlyProjecting'
    BY <1>2, <2>1, <2>2, HandsStep DEF Look
  <2>4. \A d \in Cron : run'[d].done = None \/ run'[d].done = run[d].done
    BY <2>1
  <2>5. QED
    BY <1>0, <1>2, <2>1, <2>2, <2>3, <2>4, WorkStep DEF Look
<1>3. ASSUME Die(c) PROVE IInv'
  <2>1. deaths' \in 0..MaxDeaths
    BY <1>0, <1>3, MemoryAssumption DEF Die, MemoryAssumption
  <2>2. QED
    BY <1>3, <2>1, FreshRuns, LeaveStep DEF Die
<1>4. QED
  BY <1>1, <1>2, <1>3

LEMMA LapseStep ==
    ASSUME IInv, NEW m \in Memory, Lapse(m) PROVE IInv'
<1>0. /\ TypeOK /\ {} \in SUBSET Memory /\ deaths \in 0..MaxDeaths /\ dropped \in SUBSET Memory
      /\ run \in [Cron -> Invocation]
  BY TypeParts DEF IInv
<1>1. JobsKept({}, "none") /\ NoNewLast({})
  BY <1>0, LapseFacts
<1>2. HeldOrDropped' /\ OnlyProjecting'
  BY <1>0, <1>1, HandsKept DEF Lapse
<1>3. QED
  BY <1>0, <1>1, <1>2, WorkStep DEF Lapse

LEMMA Initial == Init => IInv
<1> SUFFICES ASSUME Init PROVE IInv
  OBVIOUS
<1>1. /\ memory = [m \in Memory |-> IF m \in Known THEN [status |-> "active", by |-> None] ELSE Absent]
      /\ job = [m \in Memory |-> NoJob] /\ audit = Nothing
      /\ run = [c \in Cron |-> Idle] /\ dropped = {} /\ deaths = 0
  BY DEF Init
<1>2. TypeOK
  <2>1. memory \in [Memory -> MemoryRow]
    BY <1>1, AbsentFacts DEF MemoryRow, MemoryState
  <2>2. /\ job \in [Memory -> Job] /\ run \in [Cron -> Invocation]
        /\ audit \in [Memory -> SUBSET Evidence] /\ dropped \in SUBSET Memory
    BY <1>1, AbsentFacts DEF Is
  <2>3. deaths \in 0..MaxDeaths
    BY <1>1, MemoryAssumption DEF MemoryAssumption
  <2>4. QED
    BY <2>1, <2>2, <2>3, TypeParts
<1>3. \A m \in Memory : job[m].corrects = {} /\ job[m].state = "none"
  BY <1>1, AbsentFacts DEF Is
<1>4. \A m \in Memory : /\ memory[m].status # "pending_supersession"
                        /\ memory[m].status = "active" => m \in Known
  BY <1>1, AbsentFacts
<1>5. OnePerSlot(memory)
  BY <1>4, MemoryAssumption DEF OnePerSlot, MemoryAssumption
<1>6. DoneIsRecorded
  BY <1>1, AbsentFacts DEF DoneIsRecorded
<1>7. JobsStart /\ HeldOrDropped
  BY <1>3 DEF JobsStart, HeldOrDropped, LastAttempt
<1>8. OnlyProjecting
  BY <1>1, AbsentFacts DEF OnlyProjecting
<1>9. QED
  BY <1>2, <1>3, <1>4, <1>5, <1>6, <1>7, <1>8
     DEF IInv, NoneCorrectsItself, NoStaleTwin, SomeoneCorrectsIt, Status

LEMMA Step == IInv /\ [Next]_vars => IInv'
<1> SUFFICES ASSUME IInv, [Next]_vars PROVE IInv'
  OBVIOUS
<1>1. ASSUME NEW S \in SUBSET Memory, Commit(S) PROVE IInv'
  BY <1>1, CommitStep
<1>2. ASSUME NEW m \in Memory, Expire(m) \/ Lapse(m) PROVE IInv'
  BY <1>2, ExpireStep, LapseStep
<1>3. ASSUME NEW c \in Cron, Works(c) \/ Die(c) PROVE IInv'
  <2>1. ASSUME Accept(c) PROVE IInv'
    <3>1. run[c].done \in Memory
      BY <2>1, TypeParts DEF Accept, IInv, Invocation
    <3>2. QED
      BY <2>1, <3>1, JobSteps
  <2>2. QED
    BY <1>3, <2>1, RunSteps, ReclaimStep, RecordStep, JobSteps DEF Works
<1>4. ASSUME UNCHANGED vars PROVE IInv'
  BY <1>4 DEF vars, IInv, TypeOK, NoneCorrectsItself, DoneIsRecorded, JobsStart,
              OnlyProjecting, HeldOrDropped, LastAttempt, NoStaleTwin, SomeoneCorrectsIt,
              Status, OnePerSlot
<1>5. QED
  BY <1>1, <1>2, <1>3, <1>4 DEF Next

\* The invariant that the properties below rest on.
THEOREM Inductive == Spec => []IInv
  BY Initial, Step, PTL DEF Spec

\* The memories, their jobs and the invocations stay in their types.
THEOREM TypeCorrect == Spec => []TypeOK
<1>1. IInv => TypeOK
  BY DEF IInv
<1>2. QED
  BY <1>1, Inductive, PTL

\* No sweep, and no invocation that outlived its lease, brings a corrected
\* memory back beside its correction.
THEOREM CorrectedForGood == Spec => []NoStaleTwin
<1>1. IInv => NoStaleTwin
  BY DEF IInv
<1>2. QED
  BY <1>1, Inductive, PTL

\* Who is said to correct a parked memory may still come, or was left undone.
LEMMA KeeperFacts == IInv => ParkedHasKeeper
<1> SUFFICES ASSUME IInv, NEW p \in Status("pending_supersession")
             PROVE  \E m \in Memory : /\ p \in job[m].corrects
                                      /\ memory[m] = Absent
                                      /\ StillComes(m) \/ m \in dropped
  BY DEF ParkedHasKeeper
<1>1. PICK m \in Memory :
          /\ p \in job[m].corrects
          /\ memory[m] = Absent
          /\ job[m].state = "completed" => job[m].result = "rejected"
  BY DEF IInv, SomeoneCorrectsIt
<1>2. /\ job[m].state \in {"pending", "processing", "completed", "failed"}
      /\ job[m].attempts \in 0..MaxAttempts
  BY <1>1, TypeParts, JobFacts DEF IInv, JobsStart, JobState
<1>3. StillComes(m) \/ m \in dropped
  <2>1. CASE job[m].state = "completed"
    BY <1>1, <2>1 DEF StillComes, CameToNothing
  <2>2. CASE job[m].state = "failed"
    BY <1>2, <2>2, MemoryAssumption DEF StillComes, CameToNothing, MemoryAssumption
  <2>3. CASE job[m].state = "pending"
    BY <2>3, MemoryAssumption DEF IInv, JobsStart, StillComes, MemoryAssumption
  <2>4. CASE job[m].state = "processing"
    <3>1. CASE job[m].attempts = MaxAttempts
      BY <2>4, <3>1 DEF IInv, HeldOrDropped, LastAttempt, StillComes
    <3>2. CASE job[m].attempts < MaxAttempts
      BY <2>4, <3>2 DEF StillComes
    <3>3. QED
      BY <1>2, <3>1, <3>2, MemoryAssumption DEF MemoryAssumption
  <2>5. QED
    BY <1>2, <2>1, <2>2, <2>3, <2>4
<1>4. QED
  BY <1>1, <1>3

\* Nobody forgets a parked memory: some correction of it can be claimed again,
\* is in an invocation's hands, or failed so that the sweep finds it; or its
\* last attempt was taken by an invocation that ended before it.
THEOREM ParkedIsRemembered == Spec => []ParkedHasKeeper
  BY KeeperFacts, Inductive, PTL

\* record_prepared_agent_memory_v1 never meets selected_memories_active_slot_uq:
\* a slot has one memory in force, whatever is recorded, parked or given back.
THEOREM OneInForcePerSlot == Spec => []OnePerSlot(memory)
<1>1. IInv => OnePerSlot(memory)
  BY DEF IInv
<1>2. QED
  BY <1>1, Inductive, PTL

=============================================================================
