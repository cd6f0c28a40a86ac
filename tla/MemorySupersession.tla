------------------------- MODULE MemorySupersession -------------------------
(* The selected memories of one contact in one workspace, from the decision
   that reserves one to the row that readers may recall.  The commit of the
   decision parks the memories that the new ones correct and leaves a job for
   each; the invocations of the reconciliation cron take the jobs, record the
   memories and supersede what they correct, and then give back the memories
   whose successor came to nothing.

   A memory stands for its reserved identity: its text, the checks of its quote
   and its embedding are left out, and a check's verdict is any verdict.

   Source: src/src/features/conversation/application/commit-agent-turn-v3.ts,
   src/src/features/memory/application/project-agent-a-memories.ts,
   src/src/features/orchestration/application/select-memories.ts,
   record_prepared_agent_memory_v1 in 20260905000008 and selected_memories with
   its expiry in 20260811030001.                                              *)
EXTENDS Integers, FiniteSets

CONSTANTS
    Memory,       \* identities, known or reserved
    Known,        \* those recorded before any job, by an earlier pipeline
    Slot,         \* Memory -> its type and key
    Cron,         \* invocations of the cron that may overlap
    MaxAttempts,  \* MAX_MEMORY_PROJECTION_ATTEMPTS
    MaxDeaths,    \* bound: invocations that are killed half way
    None

ASSUME MemoryAssumption ==
    /\ IsFiniteSet(Memory) /\ IsFiniteSet(Cron)
    /\ Slot = [m \in Memory |-> Slot[m]]
    /\ Known \subseteq Memory
    /\ \A m, n \in Known : Slot[m] = Slot[n] => m = n
    /\ MaxAttempts \in Nat \ {0}
    /\ MaxDeaths \in Nat
    /\ None \notin Memory

VARIABLES
    memory,  \* selected_memories: status and superseded_by_memory_id
    job,     \* agent_a_memory_projection_jobs
    audit,   \* audit_log, under memory:<id>:supersession_reclaimed
    run,     \* the invocations
    dropped, \* history: jobs that an invocation with their last attempt left undone
    deaths   \* invocations killed so far

vars == <<memory, job, audit, run, dropped, deaths>>

-----------------------------------------------------------------------------

Absent == [status |-> "absent", by |-> None]
NoJob == [state |-> "none", result |-> "none", attempts |-> 0, live |-> FALSE,
          corrects |-> {}, rewritten |-> FALSE, earlier |-> {}]
Nothing == [p \in Memory |-> {}]
Idle == [pc |-> "idle", todo |-> {}, done |-> None, seen |-> Nothing]

\* What the audit of a memory given back says of the job that came to nothing.
\* Its state, its result and its attempts do not change any more; its error code
\* may be rewritten.
Evidence == [job : Memory, rewritten : BOOLEAN]

TypeOK ==
    /\ memory \in [Memory ->
           [status : {"absent", "active", "pending_supersession", "superseded", "expired"},
            by : Memory \cup {None}]]
    /\ job \in [Memory ->
           [state : {"none", "pending", "processing", "completed", "failed"},
            result : {"none", "accepted", "duplicate", "rejected"},
            attempts : 0..MaxAttempts, live : BOOLEAN, corrects : SUBSET Memory,
            rewritten : BOOLEAN, earlier : SUBSET Memory]]
    /\ audit \in [Memory -> SUBSET Evidence]
    /\ run \in [Cron ->
           [pc : {"idle", "project", "reclaim"}, todo : SUBSET Memory,
            done : Memory \cup {None}, seen : [Memory -> SUBSET Evidence]]]
    /\ dropped \subseteq Memory
    /\ deaths \in 0..MaxDeaths

Init ==
    /\ memory = [m \in Memory |->
           IF m \in Known THEN [status |-> "active", by |-> None] ELSE Absent]
    /\ job = [m \in Memory |-> NoJob]
    /\ audit = Nothing
    /\ run = [c \in Cron |-> Idle]
    /\ dropped = {}
    /\ deaths = 0

Status(s) == {m \in Memory : memory[m].status = s}

\* selected_memories_active_slot_uq.
OnePerSlot(rows) ==
    \A m, n \in Memory :
        /\ rows[m].status = "active" /\ rows[n].status = "active"
        /\ Slot[m] = Slot[n]
        => m = n

-----------------------------------------------------------------------------
(* The decision. *)

\* What a new memory may correct: memories that are durable, or reserved by the
\* same commit, which come before it.
MayCorrect(S, corrects) ==
    \A m \in S :
        /\ corrects[m] \subseteq Status("active") \cup (S \ {m})
        /\ \A n \in corrects[m] \cap S : m \notin corrects[n]

\* The commit of one turn's candidates: the durable ones they correct are out
\* of sight from here on, and a job is left for each candidate, in their order.
Commit(S) ==
    /\ \A m \in S : job[m] = NoJob /\ memory[m] = Absent
    /\ \E corrects \in [S -> SUBSET (Status("active") \cup S)], index \in [S -> 1..Cardinality(S)] :
          /\ MayCorrect(S, corrects)
          /\ \A m, n \in S : index[m] = index[n] => m = n
          /\ LET Parked == (UNION {corrects[m] : m \in S}) \ S
                 Earlier(m) ==
                     {n \in Memory : job[n].corrects \cap corrects[m] # {}}
                     \cup {n \in S : index[n] < index[m] /\ corrects[n] \cap corrects[m] # {}}
             IN
             /\ memory' = [m \in Memory |->
                    IF m \in Parked
                    THEN [memory[m] EXCEPT !.status = "pending_supersession"]
                    ELSE memory[m]]
             /\ job' = [m \in Memory |->
                    IF m \in S
                    THEN [NoJob EXCEPT !.corrects = corrects[m], !.earlier = Earlier(m),
                                       !.state = "pending"]
                    ELSE job[m]]
    /\ UNCHANGED <<audit, run, dropped, deaths>>

\* expire_selected_memories takes what is in force, not what is parked.
Expire(m) ==
    /\ memory[m].status = "active"
    /\ memory' = [memory EXCEPT ![m].status = "expired"]
    /\ UNCHANGED <<job, audit, run, dropped, deaths>>

-----------------------------------------------------------------------------
(* projectAgentAMemories. *)

Claimable(m) ==
    /\ job[m].attempts < MaxAttempts
    /\ \/ job[m].state \in {"pending", "failed"}
       \/ job[m].state = "processing" /\ ~ job[m].live

\* An invocation takes every job there is, none of which another holds.
Claim(c) ==
    /\ run[c] = Idle
    /\ LET taken == {m \in Memory : Claimable(m)} IN
       /\ job' = [m \in Memory |->
              IF m \in taken
              THEN [job[m] EXCEPT !.state = "processing", !.live = TRUE,
                                  !.attempts = @ + 1]
              ELSE job[m]]
       /\ run' = [run EXCEPT ![c] = [Idle EXCEPT !.pc = "project", !.todo = taken]]
    /\ UNCHANGED <<memory, audit, dropped, deaths>>

\* Two minutes pass since a job was taken.  Nobody looks at the lease of a last
\* attempt.
Lapse(m) ==
    /\ job[m].live /\ job[m].attempts < MaxAttempts
    /\ job' = [job EXCEPT ![m].live = FALSE]
    /\ UNCHANGED <<memory, audit, run, dropped, deaths>>

\* completeJob: only a job in process is completed.
Completed(m, result) ==
    IF job[m].state = "processing"
    THEN [job EXCEPT ![m] = [@ EXCEPT !.state = "completed", !.result = result,
                                      !.live = FALSE]]
    ELSE job

WentOn(c, m) == [run EXCEPT ![c].todo = @ \ {m}, ![c].done = None]

\* A check turns the candidate down: nothing is recorded under its identity.
Reject(c, m) ==
    /\ run[c].pc = "project" /\ run[c].done = None
    /\ m \in run[c].todo
    /\ job' = Completed(m, "rejected")
    /\ run' = WentOn(c, m)
    /\ UNCHANGED <<memory, audit, dropped, deaths>>

\* Everything it says it corrects is still there to be corrected.
Authorized(m) ==
    \A p \in job[m].corrects : memory[p].status \in {"active", "pending_supersession"}

\* What if only memories in force gave way, as in 20260905000006?
GiveWayInForce(m) ==
    {p \in Status("active") : p \in job[m].corrects \/ Slot[p] = Slot[m]}

\* What gives way to the new memory: what it corrects, parked or not, and the
\* memory in force in its slot.
GiveWay(m) ==
    job[m].corrects \cup {p \in Status("active") : Slot[p] = Slot[m]}

\* record_prepared_agent_memory_v1, one transaction.
Record(c, m) ==
    /\ run[c].pc = "project" /\ run[c].done = None
    /\ m \in run[c].todo
    /\ memory[m] = Absent
    /\ Authorized(m)
    /\ memory' = [p \in Memory |->
           IF p = m THEN [status |-> "active", by |-> None]
           ELSE IF p \in GiveWay(m) THEN [status |-> "superseded", by |-> m]
           ELSE memory[p]]
    /\ run' = [run EXCEPT ![c].done = m]
    /\ UNCHANGED <<job, audit, dropped, deaths>>

Accept(c) ==
    LET m == run[c].done IN
    /\ run[c].pc = "project" /\ m # None
    /\ job' = Completed(m, "accepted")
    /\ run' = WentOn(c, m)
    /\ UNCHANGED <<memory, audit, dropped, deaths>>

\* An earlier attempt recorded it.
Duplicate(c, m) ==
    /\ run[c].pc = "project" /\ run[c].done = None
    /\ m \in run[c].todo
    /\ memory[m] # Absent
    /\ job' = Completed(m, "duplicate")
    /\ run' = WentOn(c, m)
    /\ UNCHANGED <<memory, audit, dropped, deaths>>

\* What if a candidate that was turned down were not thought of?
OutOfAttempts(m) == job[m].state = "failed" /\ job[m].attempts >= MaxAttempts

\* The job's successor will not come: it is out of attempts, or was turned
\* down.
CameToNothing(m) ==
    \/ job[m].state = "failed" /\ job[m].attempts >= MaxAttempts
    \/ job[m].state = "completed" /\ job[m].result = "rejected"

LastAttempt(m) == job[m].state = "processing" /\ job[m].attempts = MaxAttempts

\* An invocation ends and leaves these jobs as it claimed them.
Drop(todo) == dropped' = dropped \cup {m \in todo : LastAttempt(m)}

\* Anything goes wrong, before or after the memory was recorded: the job is
\* failed whoever has it by now, and however it stood.
Fail(c, m) ==
    /\ run[c].pc = "project"
    /\ m \in run[c].todo
    /\ run[c].done \in {None, m}
    /\ job[m].state # "completed"
    /\ \E other \in IF CameToNothing(m) THEN BOOLEAN ELSE {FALSE} :
          job' = [job EXCEPT ![m] =
                     [@ EXCEPT !.state = "failed", !.live = FALSE, !.rewritten = other]]
    /\ run' = WentOn(c, m)
    /\ UNCHANGED <<memory, audit, dropped, deaths>>

\* A completed job cannot be failed: its check constraint ends the projection,
\* whatever it has yet to do, and the invocation goes on to what is next.
FailCompleted(c, m) ==
    /\ run[c].pc = "project"
    /\ m \in run[c].todo
    /\ run[c].done \in {None, m}
    /\ job[m].state = "completed"
    /\ run' = [run EXCEPT ![c] = [Idle EXCEPT !.pc = "project"]]
    /\ Drop(run[c].todo)
    /\ UNCHANGED <<memory, job, audit, deaths>>

-----------------------------------------------------------------------------
(* reclaimStrandedMemorySupersessions. *)

Failures(p) == {m \in Memory : p \in job[m].corrects /\ CameToNothing(m)}

Stranded == {p \in Status("pending_supersession") : Failures(p) # {}}

\* DISTINCT ON the memory, the oldest job first.
FailureOf(p) ==
    {[job |-> m, rewritten |-> job[m].rewritten] :
        m \in {f \in Failures(p) : job[f].earlier \cap Failures(p) = {}}}

Found == [p \in Memory |-> IF p \in Stranded THEN FailureOf(p) ELSE {}]

\* The SELECT, once the projection is through.
Look(c) ==
    /\ run[c].pc = "project" /\ run[c].todo = {}
    /\ run' = [run EXCEPT ![c] =
           IF Stranded = {} THEN Idle ELSE [Idle EXCEPT !.pc = "reclaim", !.seen = Found]]
    /\ UNCHANGED <<memory, job, audit, dropped, deaths>>

\* What if the UPDATE did not look again?
SeenAnyway(seen) == {p \in Memory : seen[p] # {}}

\* The rows of the UPDATE: those still parked then.
Updated(seen) == {p \in Status("pending_supersession") : seen[p] # {}}

GivenBack(seen) ==
    [p \in Memory |->
        IF p \in Updated(seen) THEN [memory[p] EXCEPT !.status = "active"] ELSE memory[p]]

\* append_audit_event_atomic: the key of a memory that was given back before is
\* taken, and what it says must be the same.
AuditRefuses(seen) == \E p \in Updated(seen) : audit[p] \notin {{}, seen[p]}

\* One transaction: a slot that was taken in the meantime, or an audit that is
\* refused, takes the whole sweep with it.
Reclaim(c) ==
    LET seen == run[c].seen IN
    /\ run[c].pc = "reclaim"
    /\ IF OnePerSlot(GivenBack(seen)) /\ ~ AuditRefuses(seen)
       THEN /\ memory' = GivenBack(seen)
            /\ audit' = [p \in Memory |-> IF p \in Updated(seen) THEN seen[p] ELSE audit[p]]
       ELSE UNCHANGED <<memory, audit>>
    /\ run' = [run EXCEPT ![c] = Idle]
    /\ UNCHANGED <<job, dropped, deaths>>

\* The invocation is killed.
Die(c) ==
    /\ run[c] # Idle
    /\ deaths < MaxDeaths
    /\ deaths' = deaths + 1
    /\ run' = [run EXCEPT ![c] = Idle]
    /\ Drop(run[c].todo)
    /\ UNCHANGED <<memory, job, audit>>

-----------------------------------------------------------------------------

Works(c) ==
    \/ Claim(c) \/ Accept(c) \/ Look(c) \/ Reclaim(c)
    \/ \E m \in Memory : Reject(c, m) \/ Record(c, m) \/ Duplicate(c, m) \/ Fail(c, m)
                        \/ FailCompleted(c, m)

Next ==
    \/ \E S \in SUBSET Memory \ {{}} : Commit(S)
    \/ \E m \in Memory : Expire(m) \/ Lapse(m)
    \/ \E c \in Cron : Works(c) \/ Die(c)

Spec == Init /\ [][Next]_vars

\* The cron comes round, an invocation that is not killed goes on, and leases
\* run out.  Nothing makes a candidate pass its checks.
FairSpec ==
    /\ Spec
    /\ \A c \in Cron : WF_vars(Works(c))
    /\ WF_vars(\E m \in Memory : Lapse(m))

-----------------------------------------------------------------------------
(* What must hold. *)

\* Once a correction is on record, what it corrects is superseded for good: no
\* sweep that looked before brings it back beside its successor.
NoStaleTwin ==
    \A m \in Memory :
        memory[m] # Absent =>
            \A p \in job[m].corrects : memory[p].status = "superseded"

\* The job m may yet record its memory, or leave a failure that the sweep looks
\* for: it can be claimed once more, an invocation has it, or it failed.
StillComes(m) ==
    \/ job[m].state \in {"pending", "processing", "failed"} /\ job[m].attempts < MaxAttempts
    \/ \E c \in Cron : m \in run[c].todo
    \/ CameToNothing(m)

\* Nobody forgets a parked memory: a correction of it is still to come or the
\* sweep will find that it failed, but for one whose last attempt an invocation
\* took and left undone, killed or stopped by the constraint on another job.
ParkedHasKeeper ==
    \A p \in Status("pending_supersession") :
        \E m \in Memory :
            /\ p \in job[m].corrects
            /\ memory[m] = Absent
            /\ StillComes(m) \/ m \in dropped

\* Three ways in which a parked memory is left parked: the last attempt of each
\* of its corrections is lost, or the sweep is rolled back for all, as it would
\* fill a slot twice or write a second, different audit of one memory.
Forgotten(p) ==
    \A m \in Memory :
        p \in job[m].corrects => LastAttempt(m) /\ \A c \in Cron : m \notin run[c].todo
SlotTaken == ~ OnePerSlot(GivenBack(Found))

\* A memory that stays parked for good does so in one of those ways: any other
\* is superseded by its correction or back in force in the end.
ParkedIsResolved ==
    \A p \in Memory :
        <>[](memory[p].status = "pending_supersession")
            => <>[](Forgotten(p) \/ SlotTaken \/ AuditRefuses(Found))

=============================================================================
