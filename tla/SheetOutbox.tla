---------------------------- MODULE SheetOutbox ----------------------------
(***************************************************************************)
(* The outbox of one lead's row in the operators' Google Sheet.            *)
(*                                                                         *)
(* Producers enqueue what they know of the lead: the commits of agent A    *)
(* and the calls of agent B bring the position of their message in the     *)
(* conversation, the others bring none.  Each transaction merges what it   *)
(* gives into the row's payload and opens the row again.  Flushes claim    *)
(* the row under a lease, write its payload to the sheet and complete it.  *)
(*                                                                         *)
(* A write is under way from its request to its arrival at Google, and may *)
(* arrive after the flush that asked for it has given up.                  *)
(***************************************************************************)
EXTENDS Naturals

CONSTANTS
    Source,        \* what the producers enqueue
    Field,         \* visible columns
    Gives,         \* the columns each source has a value for
    OrderOf,       \* the source_order of each, 0 if it brings none
    KeyOf,         \* its source_key
    Flush,         \* runs of flushSheetProjections under way at a time
    WorkerOf,      \* the worker_id of each
    None,
    MaxAttempts,   \* max_attempts
    MaxEnqueues    \* how often the row is opened

ASSUME SheetAssumption ==
    /\ Gives \in [Source -> SUBSET Field]
    /\ OrderOf \in [Source -> Nat]
    /\ DOMAIN KeyOf = Source
    /\ DOMAIN WorkerOf = Flush
    /\ \A f \in Flush : WorkerOf[f] # None
    /\ None \notin Source
    /\ MaxAttempts \in Nat \ {0}
    /\ MaxEnqueues \in Nat

VARIABLES
    row,      \* the lead's row of sheet_projection_rows
    flush,    \* where each flush is
    adrift,   \* writes whose flush no longer waits for them
    sheet,    \* what the operators see
    came,     \* the sources enqueued so far
    opened,   \* how often the row was opened
    shown     \* the sheet has shown the row's payload since it was opened

vars == <<row, flush, adrift, sheet, came, opened, shown>>

-----------------------------------------------------------------------------

\* A column holds the source its value comes from.
Payload == [Field -> Source \cup {None}]
Empty == [f \in Field |-> None]

Worker == {WorkerOf[f] : f \in Flush}
Row == [state    : {"absent", "pending", "leased", "projected", "failed_retryable", "dead_letter"},
        payload  : Payload,
        order    : {OrderOf[s] : s \in Source} \cup {0},
        key      : {KeyOf[s] : s \in Source} \cup {None},
        attempts : 0 .. MaxAttempts,
        holder   : Worker \cup {None},
        timely   : BOOLEAN]     \* lease_until is still to come
NoRow == [state |-> "absent", payload |-> Empty, order |-> 0, key |-> None,
          attempts |-> 0, holder |-> None, timely |-> FALSE]

Run == [pc : {"idle", "claimed", "writing", "landed", "failed"}, payload : Payload, attempts : 0 .. MaxAttempts]
Idle == [pc |-> "idle", payload |-> Empty, attempts |-> 0]

TypeOK ==
    /\ row \in Row
    /\ flush \in [Flush -> Run]
    /\ adrift \in SUBSET Payload
    /\ sheet \in Payload
    /\ came \in SUBSET Source
    /\ opened \in 0 .. MaxEnqueues
    /\ shown \in BOOLEAN
    /\ row.state = "leased" <=> row.holder # None
    /\ row.timely => row.state = "leased"
    /\ row.state \in {"leased", "projected", "failed_retryable"} => row.attempts > 0

Init ==
    /\ row = NoRow
    /\ flush = [f \in Flush |-> Idle]
    /\ adrift = {}
    /\ sheet = Empty
    /\ came = {}
    /\ opened = 0
    /\ shown = FALSE

-----------------------------------------------------------------------------
(* enqueueLeadProjection, one transaction under the lock of the tab *)

\* What a source gives, over what the row has.
Merged(s) == [f \in Field |-> IF f \in Gives[s] THEN s ELSE row.payload[f]]

\* A mistake: only the content is compared.
IsSameContent(s) == row.state # "absent" /\ Merged(s) = row.payload

\* The row is newer than the source, has what it gives, or is as old and not
\* of the same producer.
IsStale(s) ==
    /\ row.state # "absent"
    /\ IF OrderOf[s] > 0
         THEN \/ row.order > OrderOf[s]
              \/ /\ row.order = OrderOf[s]
                 /\ Merged(s) = row.payload \/ KeyOf[s] = None \/ row.key # KeyOf[s]
         ELSE row.order > 0 \/ Merged(s) = row.payload

\* The INSERT, or the UPDATE that opens the row again.
Opened(s) ==
    [state    |-> "pending",
     payload  |-> Merged(s),
     order    |-> IF OrderOf[s] > 0 THEN OrderOf[s] ELSE row.order,
     key      |-> IF OrderOf[s] > 0 THEN KeyOf[s] ELSE row.key,
     attempts |-> 0,
     holder   |-> None,
     timely   |-> FALSE]

EnqueueLeadProjection(s) ==
    /\ came' = came \cup {s}
    /\ IF IsStale(s)
         THEN UNCHANGED <<row, opened, shown>>
         ELSE /\ opened < MaxEnqueues
              /\ opened' = opened + 1
              /\ row' = Opened(s)
              /\ shown' = FALSE
    /\ UNCHANGED <<flush, adrift, sheet>>

-----------------------------------------------------------------------------
(* flushSheetProjections and claim_sheet_projection_rows *)

LeaseIsOver == row.state = "leased" /\ ~row.timely

Claimable ==
    /\ row.state \in {"pending", "failed_retryable"} \/ LeaseIsOver
    /\ row.attempts < MaxAttempts

Claim(f) ==
    /\ flush[f].pc = "idle"
    /\ Claimable
    /\ row' = [row EXCEPT !.attempts = @ + 1, !.state = "leased", !.holder = WorkerOf[f],
                          !.timely = TRUE]
    /\ flush' = [flush EXCEPT ![f] = [pc |-> "claimed", payload |-> row.payload,
                                      attempts |-> row.attempts + 1]]
    /\ UNCHANGED <<adrift, sheet, came, opened, shown>>

\* A mistake: a lease that ran out is left to the next attempt.
NeverExhausted(f) == FALSE /\ Claim(f)

\* The same statement gives up a row whose last attempt ran out.
Exhausts(f) ==
    /\ flush[f].pc = "idle"
    /\ LeaseIsOver
    /\ row.attempts >= MaxAttempts
    /\ row' = [row EXCEPT !.state = "dead_letter", !.holder = None]
    /\ UNCHANGED <<flush, adrift, sheet, came, opened, shown>>

LeaseRunsOut ==
    /\ row.timely
    /\ row' = [row EXCEPT !.timely = FALSE]
    /\ UNCHANGED <<flush, adrift, sheet, came, opened, shown>>

At(f, pc) == flush' = [flush EXCEPT ![f].pc = pc]
Shows(p) == sheet' = p /\ shown' = (shown \/ p = row.payload)

Writes(f) ==
    /\ flush[f].pc = "claimed"
    /\ At(f, "writing")
    /\ UNCHANGED <<row, adrift, sheet, came, opened, shown>>

\* values.update reaches the sheet; the answer may still be lost.
Lands(f) ==
    /\ flush[f].pc = "writing"
    /\ Shows(flush[f].payload)
    /\ At(f, "landed") \/ At(f, "failed")
    /\ UNCHANGED <<row, adrift, came, opened>>

\* Google refuses the write, or the connection fails while it is under way.
WriteFails(f) ==
    /\ flush[f].pc = "writing"
    /\ adrift' = adrift \/ adrift' = adrift \cup {flush[f].payload}
    /\ At(f, "failed")
    /\ UNCHANGED <<row, sheet, came, opened, shown>>

\* A mistake: whoever has the lease, its write is taken for this one's.
AnyLease(f) == row.state = "leased" /\ row.timely

\* WHERE state = 'leased' AND leased_by = ... AND lease_until > now()
Holds(f) == row.state = "leased" /\ row.holder = WorkerOf[f] /\ row.timely

\* The end of a claim; a flush whose lease is lost leaves the row alone.
Ends(f, state) ==
    /\ IF Holds(f)
         THEN row' = [row EXCEPT !.state = state, !.holder = None, !.timely = FALSE]
         ELSE UNCHANGED row
    /\ flush' = [flush EXCEPT ![f] = Idle]
    /\ UNCHANGED <<adrift, sheet, came, opened, shown>>

Completes(f) == flush[f].pc = "landed" /\ Ends(f, "projected")

Fails(f) ==
    /\ flush[f].pc = "failed"
    /\ Ends(f, IF flush[f].attempts >= MaxAttempts THEN "dead_letter" ELSE "failed_retryable")

\* The deadline, or the end of the process: nothing more is written to the row,
\* and nobody takes back a write that is under way.
GivesUp(f) ==
    /\ flush[f].pc # "idle"
    /\ flush' = [flush EXCEPT ![f] = Idle]
    /\ adrift' = IF flush[f].pc = "writing" THEN adrift \cup {flush[f].payload} ELSE adrift
    /\ UNCHANGED <<row, sheet, came, opened, shown>>

\* A write that nobody waits for arrives.
LandsLate ==
    \E p \in adrift :
       /\ Shows(p)
       /\ adrift' = adrift \ {p}
       /\ UNCHANGED <<row, flush, came, opened>>

-----------------------------------------------------------------------------

Flushes(f) ==
    Claim(f) \/ Exhausts(f) \/ Writes(f) \/ Lands(f) \/ WriteFails(f) \/ Completes(f) \/ Fails(f)
             \/ GivesUp(f)

Next ==
    \/ \E s \in Source : EnqueueLeadProjection(s)
    \/ \E f \in Flush : Flushes(f)
    \/ LeaseRunsOut \/ LandsLate

\* The cron comes again, a flush ends, and time passes.
Fairness ==
    /\ WF_vars(\E f \in Flush : Claim(f) \/ Exhausts(f))
    /\ \A f \in Flush : WF_vars(flush[f].pc # "idle" /\ Flushes(f))
    /\ WF_vars(LeaseRunsOut)

Spec == Init /\ [][Next]_vars /\ Fairness

-----------------------------------------------------------------------------
(* Properties *)

\* Deliveries are reported in any order: whichever source came last, the row
\* has what the latest message in the conversation says of each column, and
\* nothing older over it.
RowShowsLatest ==
    \A s \in came :
       OrderOf[s] > 0 =>
          /\ row.order >= OrderOf[s]
          /\ row.order = OrderOf[s] =>
                \A f \in Gives[s] : row.payload[f] # None /\ OrderOf[row.payload[f]] = row.order

\* A row that counts as projected is one whose present payload the sheet has
\* shown since it was enqueued: no flush completes with its own, older write
\* what was enqueued meanwhile.
ProjectedWasShown == row.state = "projected" => shown

\* What was enqueued is projected or put aside for good: no death of a flush
\* leaves the row leased for ever.
RowIsSettled ==
    row.state \notin {"absent", "projected", "dead_letter"}
        ~> row.state \in {"projected", "dead_letter"}

=============================================================================
