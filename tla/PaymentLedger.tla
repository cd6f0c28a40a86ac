--------------------------- MODULE PaymentLedger ---------------------------
(***************************************************************************)
(* One payment and its Stripe checkout.  Calls of createCheckout claim the *)
(* payment, ask Stripe for a session and commit it; a claim that has gone  *)
(* stale is taken over.  Stripe's webhooks attach the session to a payment *)
(* whose creation stayed unknown, and record what became of the session.   *)
(*                                                                         *)
(* Each statement outside a transaction, and each transaction, is a step.  *)
(* Every creation has the payment's idempotency key, so Stripe has at most *)
(* one session for it; a customer can only open one whose address the      *)
(* payment shows.  Nothing in the code asks for a refund.                  *)
(***************************************************************************)
EXTENDS Naturals

CONSTANTS
    Creator,       \* calls of createCheckout under way at a time
    Delivery,      \* webhook requests under way at a time
    None,
    MaxTakeovers   \* how often a claim goes stale

\* checkout.session.* with the payment status it carries
Event == {"completed_paid", "completed_unpaid", "async_succeeded", "async_failed", "expired"}

ASSUME PaymentAssumption ==
    /\ None \notin Event
    /\ MaxTakeovers \in Nat

VARIABLES
    payment,     \* the row of payments, and whether it has a fulfilment job
    record,      \* the keys in payment_events that matter
    creator,     \* where each call of createCheckout is
    delivery,    \* where each webhook request is, and its event
    session,     \* Stripe's session for the payment
    sent,        \* the events Stripe has to deliver
    takeovers

vars == <<payment, record, creator, delivery, session, sent, takeovers>>

-----------------------------------------------------------------------------

Creating == {"creating_checkout", "creation_ambiguous"}
Terminal == {"paid", "failed", "expired"}

Payment == [status   : {"reserved", "pending"} \cup Creating \cup Terminal,
            attached : BOOLEAN,    \* provider_session_id is set
            url      : BOOLEAN,    \* checkout_url is set
            job      : BOOLEAN]    \* its row of fulfillment_jobs is there

Session == [state : {"none", "open", "processing", "paid", "failed", "expired"},
            right : BOOLEAN]       \* its amount and currency are the payment's

AtDelivery == [pc : {"idle", "attach", "created", "record"}, event : Event \cup {None}]
IdleDelivery == [pc |-> "idle", event |-> None]

TypeOK ==
    /\ payment \in Payment
    /\ record \in SUBSET (Event \cup {"attach"})
    /\ creator \in [Creator -> {"idle", "claim", "create", "commit", "rejected", "ambiguous"}]
    /\ delivery \in [Delivery -> AtDelivery]
    /\ session \in Session
    /\ sent \in SUBSET Event
    /\ takeovers \in 0 .. MaxTakeovers
    /\ payment.url => payment.attached
    /\ payment.attached => session.state # "none"
    /\ payment.status \in {"pending", "paid", "expired"} => payment.attached
    /\ \A d \in Delivery : delivery[d].pc # "idle" => delivery[d].event \in sent

Init ==
    /\ payment = [status |-> "reserved", attached |-> FALSE, url |-> FALSE, job |-> FALSE]
    /\ record = {}
    /\ creator = [c \in Creator |-> "idle"]
    /\ delivery = [d \in Delivery |-> IdleDelivery]
    /\ \E r \in BOOLEAN : session = [state |-> "none", right |-> r]
    /\ sent = {}
    /\ takeovers = 0

-----------------------------------------------------------------------------
(* createCheckout *)

Goes(c, pc) == creator' = [creator EXCEPT ![c] = pc]

\* loadPayment; a payment that is resolved is answered for without a step.
Load(c) ==
    /\ creator[c] = "idle"
    /\ ~payment.attached
    /\ payment.status \in {"reserved"} \cup Creating
    /\ Goes(c, "claim")
    /\ UNCHANGED <<payment, record, delivery, session, sent, takeovers>>

\* The guarded UPDATE, which does not look at the session again.
Claim(c) ==
    /\ creator[c] = "claim"
    /\ \/ /\ payment.status \in {"reserved", "creation_ambiguous"}
          /\ payment' = [payment EXCEPT !.status = "creating_checkout"]
          /\ Goes(c, "create")
          /\ UNCHANGED takeovers
       \/ /\ payment.status = "creating_checkout"     \* and 60 seconds old
          /\ takeovers < MaxTakeovers
          /\ takeovers' = takeovers + 1
          /\ Goes(c, "create")
          /\ UNCHANGED payment
       \/ /\ payment.status # "reserved"
          /\ Goes(c, "idle")
          /\ UNCHANGED <<payment, takeovers>>
    /\ UNCHANGED <<record, delivery, session, sent>>

\* createCheckoutSession: the session, new or the one the key has; an outcome
\* that stays unknown; or a refusal, which makes no session.
Create(c) ==
    /\ creator[c] = "create"
    /\ \/ /\ session' = [session EXCEPT !.state = IF @ = "none" THEN "open" ELSE @]
          /\ Goes(c, "commit") \/ Goes(c, "ambiguous")
       \/ /\ Goes(c, "ambiguous") \/ Goes(c, "rejected")
          /\ UNCHANGED session
    /\ UNCHANGED <<payment, record, delivery, sent, takeovers>>

\* A mistake: the payment is written whoever has it by now.
WrittenAnyway(new) == payment' = new

\* What the creation writes while the payment is being created.
WhileCreating(new) ==
    payment' = IF payment.status = "creating_checkout" THEN new ELSE payment

\* The transaction of the session; when it fails the outcome is unknown.
Commit(c) ==
    /\ creator[c] = "commit"
    /\ \/ /\ WhileCreating([payment EXCEPT !.status = "pending", !.attached = TRUE, !.url = TRUE])
          /\ Goes(c, "idle")
       \/ /\ Goes(c, "ambiguous")
          /\ UNCHANGED payment
    /\ UNCHANGED <<record, delivery, session, sent, takeovers>>

MarkFailed(c) ==
    /\ creator[c] = "rejected"
    /\ WhileCreating([payment EXCEPT !.status = "failed"])
    /\ Goes(c, "idle")
    /\ UNCHANGED <<record, delivery, session, sent, takeovers>>

MarkAmbiguous(c) ==
    /\ creator[c] = "ambiguous"
    /\ WhileCreating([payment EXCEPT !.status = "creation_ambiguous"])
    /\ Goes(c, "idle")
    /\ UNCHANGED <<record, delivery, session, sent, takeovers>>

CreatorDies(c) ==
    /\ creator[c] # "idle"
    /\ Goes(c, "idle")
    /\ UNCHANGED <<payment, record, delivery, session, sent, takeovers>>

-----------------------------------------------------------------------------
(* Stripe and the customer *)

\* The customer pays at once, or in a way that takes days to settle.
Pays ==
    /\ session.state = "open"
    /\ payment.url
    /\ \/ /\ session' = [session EXCEPT !.state = "paid"]
          /\ sent' = sent \cup {"completed_paid"}
       \/ /\ session' = [session EXCEPT !.state = "processing"]
          /\ sent' = sent \cup {"completed_unpaid"}
    /\ UNCHANGED <<payment, record, creator, delivery, takeovers>>

Settles ==
    /\ session.state = "processing"
    /\ \/ /\ session' = [session EXCEPT !.state = "paid"]
          /\ sent' = sent \cup {"async_succeeded"}
       \/ /\ session' = [session EXCEPT !.state = "failed"]
          /\ sent' = sent \cup {"async_failed"}
    /\ UNCHANGED <<payment, record, creator, delivery, takeovers>>

Expires ==
    /\ session.state = "open"
    /\ session' = [session EXCEPT !.state = "expired"]
    /\ sent' = sent \cup {"expired"}
    /\ UNCHANGED <<payment, record, creator, delivery, takeovers>>

-----------------------------------------------------------------------------
(* processStripeWebhook *)

At(d, pc, e) == delivery' = [delivery EXCEPT ![d] = [pc |-> pc, event |-> e]]

\* The SELECT, without a lock.
Receive(d, e) ==
    /\ delivery[d].pc = "idle"
    /\ e \in sent
    /\ At(d, IF payment.attached THEN "record" ELSE "attach", e)
    /\ UNCHANGED <<payment, record, creator, session, sent, takeovers>>

\* UPDATE ... WHERE provider_session_id IS NULL, a statement of its own
Attach(d) ==
    /\ delivery[d].pc = "attach"
    /\ payment' = [payment EXCEPT !.attached = TRUE]
    /\ At(d, "created", delivery[d].event)
    /\ UNCHANGED <<record, creator, session, sent, takeovers>>

\* What the event says of the state; an amount that is not the payment's, and
\* a checkout completed but not paid, change nothing.
StateEvent(e) ==
    IF e \in {"completed_paid", "async_succeeded"} /\ ~session.right
      THEN "checkout_amount_mismatch" ELSE e

\* A mistake: a payment that settles later is taken for one still unpaid.
TransitionsAtOnce(status, e) ==
    CASE status \in Creating /\ e = "attach" -> "pending"
      [] status = "pending" /\ e = "completed_paid" -> "paid"
      [] status = "pending" /\ e = "async_failed" -> "failed"
      [] status = "pending" /\ e = "expired" -> "expired"
      [] OTHER -> status

\* A mistake: the money is what counts, however far the creation has come.
TransitionsOfMoney(status, e) ==
    CASE status \in Creating /\ e = "attach" -> "pending"
      [] e \in {"completed_paid", "async_succeeded"} -> "paid"
      [] status = "pending" /\ e = "async_failed" -> "failed"
      [] e = "expired" -> "expired"
      [] OTHER -> status

\* TRANSITIONS and reducePaymentState; the attach is a checkout_created.
Transitions(status, e) ==
    CASE status \in Creating /\ e = "attach" -> "pending"
      [] status = "pending" /\ e \in {"completed_paid", "async_succeeded"} -> "paid"
      [] status = "pending" /\ e = "async_failed" -> "failed"
      [] status = "pending" /\ e = "expired" -> "expired"
      [] OTHER -> status

\* recordPaymentEvent, one transaction: an event on record is a duplicate,
\* whether or not it was applied when it came.
RecordPaymentEvent(key, e) ==
    IF key \in record THEN UNCHANGED <<payment, record>>
    ELSE LET next == Transitions(payment.status, e) IN
         /\ record' = record \cup {key}
         /\ payment' = [payment EXCEPT !.status = next, !.job = @ \/ next = "paid"]

RecordCreated(d) ==
    /\ delivery[d].pc = "created"
    /\ RecordPaymentEvent("attach", "attach")
    /\ At(d, "record", delivery[d].event)
    /\ UNCHANGED <<creator, session, sent, takeovers>>

Record(d) ==
    /\ delivery[d].pc = "record"
    /\ RecordPaymentEvent(delivery[d].event, StateEvent(delivery[d].event))
    /\ At(d, "idle", None)
    /\ UNCHANGED <<creator, session, sent, takeovers>>

DeliveryDies(d) ==
    /\ delivery[d].pc # "idle"
    /\ At(d, "idle", None)
    /\ UNCHANGED <<payment, record, creator, session, sent, takeovers>>

-----------------------------------------------------------------------------

CreateCheckout(c) ==
    Load(c) \/ Claim(c) \/ Create(c) \/ Commit(c) \/ MarkFailed(c) \/ MarkAmbiguous(c)
            \/ CreatorDies(c)

Webhook(d) ==
    \/ \E e \in Event : Receive(d, e)
    \/ Attach(d) \/ RecordCreated(d) \/ Record(d) \/ DeliveryDies(d)

Next ==
    \/ \E c \in Creator : CreateCheckout(c)
    \/ \E d \in Delivery : Webhook(d)
    \/ Pays \/ Settles \/ Expires

\* Stripe repeats what a customer paid until a request for it is answered,
\* however many others are under way (Delivery bounds the model, not the
\* backend); a request ends, and not every one of them is cut off.  Of the
\* creators, and that other events arrive, nothing is assumed.
Paid == {"completed_paid", "async_succeeded"}
Fairness ==
    /\ SF_vars(\E d \in Delivery, e \in Paid \ record : Receive(d, e))
    /\ SF_vars(\E d \in Delivery : delivery[d].event \in Paid /\ Record(d))
    /\ \A d \in Delivery : WF_vars(Attach(d) \/ RecordCreated(d) \/ Record(d) \/ DeliveryDies(d))

Spec == Init /\ [][Next]_vars /\ Fairness

-----------------------------------------------------------------------------
(* Properties *)

\* A payment given up as failed or expired is one the customer neither paid,
\* nor is paying, nor can still open: no creator that comes back late, refused
\* or not, takes a checkout away from the customer who has its address.
NothingPaidIsGivenUp ==
    payment.status \in {"failed", "expired"} =>
       /\ session.state \notin {"paid", "processing"}
       /\ session.state = "open" => ~payment.url

\* enforce_payment_invariants never has to refuse what the code writes: the
\* moves of the reducer and of the creators are among those it lets pass.
TriggerMoves ==
    {<<"reserved", "creating_checkout">>, <<"creating_checkout", "creation_ambiguous">>,
     <<"creation_ambiguous", "creating_checkout">>}
    \cup (Creating \X {"pending", "failed"})
    \cup ({"pending"} \X Terminal)
TriggerNeverRefuses ==
    [][/\ payment'.status # payment.status =>
             <<payment.status, payment'.status>> \in TriggerMoves
       /\ payment.attached => payment'.attached]_vars

\* What the customer paid, in the right amount, is on the ledger as paid and
\* has its fulfilment job, whatever late creators and repeated, overtaken or
\* interrupted webhooks do in between.
PaidIsRecorded ==
    session.state = "paid" /\ session.right ~> payment.status = "paid" /\ payment.job

=============================================================================
