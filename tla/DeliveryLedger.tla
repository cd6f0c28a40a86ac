--------------------------- MODULE DeliveryLedger ---------------------------
(***************************************************************************)
(* The delivery ledger: one row of outbound_deliveries with its outbox     *)
(* event, what the triggers let happen to it, and what the reconciler      *)
(* decides about it and does to it.                                        *)
(*                                                                         *)
(* The modules that send messages EXTEND this one and keep the rows in     *)
(* their own variables.  lease is the time left before lease_until, 0 also *)
(* when it is NULL; quiet is the time left before the row is older than    *)
(* the grace period of the reconciler.                                     *)
(***************************************************************************)
EXTENDS Naturals

CONSTANTS
    Sender,       \* whoever may hand the message to the channel; the message
                  \* id the channel answers with is named after the sender
    MaxAttempts,  \* max_attempts
    Grace,        \* grace_seconds of list_stale_outbound_deliveries
    None

ASSUME LedgerAssumption ==
    /\ MaxAttempts \in Nat \ {0}
    /\ Grace \in Nat
    /\ None \notin Sender

DeliveryState == {"absent", "pending", "leased", "submitted", "delivered",
                  "failed_retryable", "dead_letter", "cancelled"}
OutboxState == {"absent", "pending", "leased", "published",
                "failed_retryable", "dead_letter", "cancelled"}
\* reconciliation_state
Review == {"none", "resend_authorized", "confirmed_sent", "ambiguous_paused",
           "abandoned"}

Delivery == [state    : DeliveryState,
             outbox   : OutboxState,
             lease    : Nat,
             quiet    : Nat,
             attempts : Nat,                    \* attempt_count
             provider : Sender \cup {None},     \* provider_message_id
             review   : Review]

NoDelivery == [state |-> "absent", outbox |-> "absent", lease |-> 0, quiet |-> 0,
               attempts |-> 0, provider |-> None, review |-> "none"]

\* enqueue_outbound_delivery
Enqueued == [NoDelivery EXCEPT !.state = "pending", !.outbox = "pending",
                               !.quiet = Grace]

\* What enforce_outbound_delivery_transition and enforce_outbox_event_invariants
\* let an UPDATE do.
DeliveryMoves ==
    ({"pending"} \X {"leased", "dead_letter", "cancelled"})
    \cup ({"leased"} \X {"submitted", "failed_retryable", "dead_letter", "cancelled"})
    \cup ({"submitted"} \X {"delivered", "failed_retryable", "dead_letter"})
    \cup ({"failed_retryable"} \X {"leased", "dead_letter", "cancelled"})

OutboxMoves ==
    ({"pending"} \X {"leased", "dead_letter", "cancelled"})
    \cup ({"leased"} \X {"published", "failed_retryable", "dead_letter", "cancelled"})
    \cup ({"failed_retryable"} \X {"leased", "dead_letter", "cancelled"})

Moves(from, to, legal) == from = to \/ <<from, to>> \in legal

\* One or several UPDATEs of a transaction that pass through "leased" when the
\* move is not legal in one step.
Reaches(from, to, legal) ==
    \/ Moves(from, to, legal)
    \/ Moves(from, "leased", legal) /\ Moves("leased", to, legal)

-----------------------------------------------------------------------------
(* The reconciler's verdict on the facts it read: decideDeliveryReconciliation *)

Reported == {"none", "submitted", "failed"}
Verdicts == {"wait", "mark_sent", "authorize_resend", "abandon", "pause_ambiguous"}

OnBudget(r) == IF r.attempts < MaxAttempts THEN "authorize_resend" ELSE "abandon"

Settled(r) == r.state \in {"submitted", "delivered"}

\* A mistake: what the lease ran out on is left alone.
VerdictPatient(r, reported) ==
    IF r.provider # None \/ reported = "submitted" \/ Settled(r) THEN "mark_sent"
    ELSE IF reported = "failed" \/ (r.state = "pending" /\ r.attempts = 0) THEN OnBudget(r)
    ELSE "wait"

\* Proof of a send outranks the state; a pause is sticky; a live lease is left
\* alone; only a reported failure or a row nobody took is proof of no send.
Verdict(r, reported) ==
    IF r.provider # None \/ reported = "submitted" \/ Settled(r) THEN "mark_sent"
    ELSE IF \/ r.state \in {"dead_letter", "cancelled"}
            \/ r.review = "ambiguous_paused"
            \/ r.lease > 0 THEN "wait"
    ELSE IF \/ reported = "failed"
            \/ r.state = "pending" /\ r.attempts = 0 THEN OnBudget(r)
    ELSE "pause_ambiguous"

\* The rows list_stale_outbound_deliveries returns.
Stale(r) == /\ r.state \in {"pending", "leased", "failed_retryable"}
            /\ r.quiet = 0
            /\ r.lease = 0
            /\ r.review # "ambiguous_paused"

-----------------------------------------------------------------------------
(* apply_delivery_reconciliation: the verdict applied to the row as it is  *)
(* by then.  An UPDATE a trigger refuses leaves the row as it was.         *)

Reviewed(r, review) == [r EXCEPT !.review = review, !.lease = 0, !.quiet = Grace]

MarkSent(r) ==
    LET to == IF Settled(r) THEN r.state ELSE "submitted" IN
    IF Reaches(r.state, to, DeliveryMoves)
    THEN [Reviewed(r, "confirmed_sent") EXCEPT
             !.state = to,
             !.outbox = IF r.outbox \in {"pending", "leased", "failed_retryable"}
                        THEN "published" ELSE r.outbox]
    ELSE r

Abandon(r) ==
    IF Moves(r.state, "dead_letter", DeliveryMoves)
    THEN [Reviewed(r, "abandoned") EXCEPT
             !.state = "dead_letter",
             !.outbox = IF r.outbox \in {"published", "cancelled"}
                        THEN r.outbox ELSE "dead_letter"]
    ELSE r

\* Only the proof of a send moves a paused row.
Held(r, action) == /\ r.review = "ambiguous_paused"
                   /\ ~(action = "mark_sent" /\ r.provider # None)

Reconciled(r, action) ==
    IF Held(r, action) THEN r
    ELSE CASE action = "authorize_resend" ->
                 IF r.provider # None
                 THEN [r EXCEPT !.review = "confirmed_sent", !.quiet = Grace]
                 ELSE Reviewed(r, "resend_authorized")
           [] action = "pause_ambiguous"  -> Reviewed(r, "ambiguous_paused")
           [] action = "mark_sent"        -> MarkSent(r)
           [] action = "abandon"          -> Abandon(r)
           [] action = "wait"             -> r

-----------------------------------------------------------------------------

Less1(n) == IF n > 0 THEN n - 1 ELSE 0

\* A unit of time later.
Aged(r) == [r EXCEPT !.lease = Less1(r.lease), !.quiet = Less1(r.quiet)]

Ages(r) == r.lease > 0 \/ r.quiet > 0
=============================================================================
