------------------------- MODULE PaymentLedgerProofs -------------------------
(***************************************************************************)
(* Proofs about PaymentLedger for any number of creators, webhook requests *)
(* and takeovers.                                                          *)
(***************************************************************************)
EXTENDS PaymentLedger, TLAPS

-----------------------------------------------------------------------------
(* The inductive invariant. *)

\* What Stripe has to deliver tells where its session is.
Outcome(e) ==
    CASE e \in Paid -> {"paid"}
      [] e = "completed_unpaid" -> {"processing", "paid", "failed"}
      [] e = "async_failed" -> {"failed"}
      [] OTHER -> {"expired"}

SentIsTrue == \A e \in sent : session.state \in Outcome(e)

\* The address is shown once the creation is over, and nobody pays without it.
UrlShown ==
    /\ payment.url => payment.status \notin {"reserved"} \cup Creating
    /\ session.state \in {"processing", "paid", "failed"} => payment.url

\* Who commits a session has it; who records an event found it attached.
Underway ==
    /\ \A c \in Creator : creator[c] = "commit" => session.state # "none"
    /\ \A d \in Delivery : delivery[d].pc \in {"created", "record"} => payment.attached

\* A payment is paid when Stripe's session is, in the right amount, and then
\* it has its job.
PaidIsPaid ==
    payment.status = "paid" => session.state = "paid" /\ session.right /\ payment.job

IInv ==
    /\ TypeOK
    /\ SentIsTrue
    /\ UrlShown
    /\ Underway
    /\ PaidIsPaid
    /\ NothingPaidIsGivenUp

-----------------------------------------------------------------------------
(* The rows the code writes *)

Rec(st, a, u, j) == [status |-> st, attached |-> a, url |-> u, job |-> j]

LEMMA StatusSet ==
    ASSUME NEW r \in Payment, NEW st
    PROVE  [r EXCEPT !.status = st] = Rec(st, r.attached, r.url, r.job)
BY DEF Payment, Rec

LEMMA AttachedSet ==
    ASSUME NEW r \in Payment, NEW a
    PROVE  [r EXCEPT !.attached = a] = Rec(r.status, a, r.url, r.job)
BY DEF Payment, Rec

LEMMA CommitSet ==
    ASSUME NEW r \in Payment, NEW st, NEW a, NEW u
    PROVE  [r EXCEPT !.status = st, !.attached = a, !.url = u] = Rec(st, a, u, r.job)
<1> DEFINE q == [r EXCEPT !.status = st]
           p == [q EXCEPT !.attached = a]
<1>1. [r EXCEPT !.status = st, !.attached = a, !.url = u] = [p EXCEPT !.url = u]
  OBVIOUS
<1>2. q = Rec(st, r.attached, r.url, r.job)
  BY StatusSet
<1> HIDE DEF q
<1>3. p = Rec(st, a, r.url, r.job)
  BY <1>2 DEF Rec
<1> HIDE DEF p
<1>4. QED
  BY <1>1, <1>3 DEF Rec

LEMMA RecordedSet ==
    ASSUME NEW r \in Payment, NEW st, NEW j
    PROVE  [r EXCEPT !.status = st, !.job = j] = Rec(st, r.attached, r.url, j)
<1> DEFINE q == [r EXCEPT !.status = st]
<1>1. [r EXCEPT !.status = st, !.job = j] = [q EXCEPT !.job = j]
  OBVIOUS
<1>2. q = Rec(st, r.attached, r.url, r.job)
  BY StatusSet
<1> HIDE DEF q
<1>3. QED
  BY <1>1, <1>2 DEF Rec

Status == {"reserved", "pending"} \cup Creating \cup Terminal

LEMMA RecType ==
    ASSUME NEW st \in Status, NEW a \in BOOLEAN, NEW u \in BOOLEAN, NEW j \in BOOLEAN
    PROVE  /\ Rec(st, a, u, j) \in Payment
           /\ Rec(st, a, u, j).status = st
           /\ Rec(st, a, u, j).attached = a
           /\ Rec(st, a, u, j).url = u
           /\ Rec(st, a, u, j).job = j
BY DEF Rec, Payment, Status

LEMMA PaymentType ==
    ASSUME TypeOK
    PROVE  /\ payment \in Payment /\ payment.status \in Status /\ payment.attached \in BOOLEAN
           /\ payment.url \in BOOLEAN /\ payment.job \in BOOLEAN
BY DEF TypeOK, Payment, Status

LEMMA PaymentRecorded ==
    ASSUME payment \in Payment, NEW st \in Status, NEW j \in BOOLEAN,
           payment' = [payment EXCEPT !.status = st, !.job = j]
    PROVE  /\ payment' \in Payment /\ payment'.status = st /\ payment'.attached = payment.attached
           /\ payment'.url = payment.url /\ payment'.job = j
<1>1. payment' = Rec(st, payment.attached, payment.url, j)
  BY RecordedSet
<1>2. payment.attached \in BOOLEAN /\ payment.url \in BOOLEAN
  BY DEF Payment
<1>3. QED
  BY <1>1, <1>2, RecType

\* Initially the invariant holds.
LEMMA InitHolds == Init => IInv
<1> SUFFICES ASSUME Init PROVE IInv
  OBVIOUS
<1>1. payment = Rec("reserved", FALSE, FALSE, FALSE)
  BY DEF Init, Rec
<1>2. /\ payment \in Payment /\ payment.status = "reserved" /\ payment.attached = FALSE
      /\ payment.url = FALSE /\ payment.job = FALSE
  BY <1>1, RecType DEF Status
<1>3. session \in Session /\ session.state = "none"
  BY DEF Init, Session
<1>4. TypeOK
  BY <1>2, <1>3, PaymentAssumption DEF Init, TypeOK, AtDelivery, IdleDelivery, PaymentAssumption
<1>5. SentIsTrue /\ UrlShown /\ Underway /\ PaidIsPaid /\ NothingPaidIsGivenUp
  BY <1>2, <1>3 DEF Init, SentIsTrue, UrlShown, Underway, PaidIsPaid, NothingPaidIsGivenUp, IdleDelivery
<1>6. QED
  BY <1>4, <1>5 DEF IInv

-----------------------------------------------------------------------------
(* Steps of a creator *)

\* A step that leaves the payment and Stripe alone.
LEMMA CreatorMoves ==
    ASSUME IInv, NEW c \in Creator, NEW pc \in {"idle", "claim", "create", "rejected", "ambiguous"},
           Goes(c, pc), UNCHANGED <<payment, record, delivery, session, sent>>,
           takeovers' \in 0 .. MaxTakeovers
    PROVE  IInv'
<1>1. creator' \in [Creator -> {"idle", "claim", "create", "commit", "rejected", "ambiguous"}]
  BY DEF IInv, TypeOK, Goes
<1>2. TypeOK'
  BY <1>1 DEF IInv, TypeOK
<1>3. SentIsTrue' /\ UrlShown' /\ PaidIsPaid' /\ NothingPaidIsGivenUp'
  BY DEF IInv, SentIsTrue, UrlShown, PaidIsPaid, NothingPaidIsGivenUp
<1>4. Underway'
  BY DEF IInv, TypeOK, Underway, Goes
<1>5. QED
  BY <1>2, <1>3, <1>4 DEF IInv

\* A creator writes the payment it still has.
LEMMA CreatorWrites ==
    ASSUME IInv, NEW c \in Creator, NEW pc \in {"idle", "create"},
           NEW st \in Creating \cup {"pending", "failed"}, NEW a \in BOOLEAN, NEW u \in BOOLEAN,
           payment.status \in {"reserved"} \cup Creating,
           payment' = Rec(st, a, u, payment.job), st = "pending" <=> u,
           payment.attached => a, u => a, a => session.state # "none",
           Goes(c, pc), UNCHANGED <<record, delivery, session, sent>>, takeovers' \in 0 .. MaxTakeovers
    PROVE  IInv'
<1>a. st \in Status /\ payment.job \in BOOLEAN
  BY PaymentType DEF IInv, Status, Terminal, Creating
<1>0. /\ payment' \in Payment /\ payment'.status = st /\ payment'.attached = a /\ payment'.url = u
  BY <1>a, RecType
<1>1. creator' \in [Creator -> {"idle", "claim", "create", "commit", "rejected", "ambiguous"}]
  BY DEF IInv, TypeOK, Goes
<1>2. TypeOK'
  BY <1>0, <1>1 DEF IInv, TypeOK, Creating
<1>3. ~payment.url /\ session.state \notin {"processing", "paid", "failed"}
  BY DEF IInv, UrlShown
<1>4. SentIsTrue' /\ UrlShown' /\ PaidIsPaid' /\ NothingPaidIsGivenUp'
  BY <1>0, <1>3 DEF IInv, SentIsTrue, UrlShown, PaidIsPaid, NothingPaidIsGivenUp, Creating
<1>5. Underway'
  BY <1>0 DEF IInv, TypeOK, Underway, Goes
<1>6. QED
  BY <1>2, <1>4, <1>5 DEF IInv

LEMMA LoadStep ==
    ASSUME IInv, NEW c \in Creator, Load(c) \/ CreatorDies(c) PROVE IInv'
<1>1. takeovers' \in 0 .. MaxTakeovers
  BY DEF IInv, TypeOK, Load, CreatorDies
<1>2. QED
  BY <1>1, CreatorMoves DEF Load, CreatorDies

LEMMA ClaimStep ==
    ASSUME IInv, NEW c \in Creator, Claim(c) PROVE IInv'
<1>1. takeovers' \in 0 .. MaxTakeovers
  BY PaymentAssumption DEF IInv, TypeOK, Claim, PaymentAssumption
<1>2. CASE UNCHANGED payment
  BY <1>1, <1>2, CreatorMoves DEF Claim
<1>3. CASE /\ payment.status \in {"reserved", "creation_ambiguous"}
           /\ payment' = [payment EXCEPT !.status = "creating_checkout"]
           /\ Goes(c, "create")
  <2>1. payment' = Rec("creating_checkout", payment.attached, payment.url, payment.job)
    BY <1>3, StatusSet, PaymentType DEF IInv
  <2>2. /\ payment.attached \in BOOLEAN /\ payment.url \in BOOLEAN
        /\ payment.url => payment.attached /\ ~payment.url
        /\ payment.attached => session.state # "none"
    BY <1>3, PaymentType DEF IInv, TypeOK, UrlShown, Creating
  <2>3. QED
    BY <1>1, <1>3, <2>1, <2>2, CreatorWrites DEF Claim, Creating
<1>4. QED
  BY <1>2, <1>3 DEF Claim

LEMMA CreateStep ==
    ASSUME IInv, NEW c \in Creator, Create(c) PROVE IInv'
<1>0. UNCHANGED <<payment, record, delivery, sent, takeovers>> /\ session \in Session
  BY DEF Create, IInv, TypeOK
<1>1. PICK pc \in {"commit", "ambiguous", "rejected"} :
         Goes(c, pc) /\ (pc = "commit" => session'.state # "none")
         /\ \/ session' = session
            \/ session' = [session EXCEPT !.state = "open"] /\ session.state = "none"
  BY <1>0 DEF Create, Session
<1>2. CASE session' = session
  <2>1. creator' \in [Creator -> {"idle", "claim", "create", "commit", "rejected", "ambiguous"}]
    BY <1>1 DEF IInv, TypeOK, Goes
  <2>2. TypeOK'
    BY <1>0, <1>2, <2>1 DEF IInv, TypeOK
  <2>3. SentIsTrue' /\ UrlShown' /\ PaidIsPaid' /\ NothingPaidIsGivenUp'
    BY <1>0, <1>2 DEF IInv, SentIsTrue, UrlShown, PaidIsPaid, NothingPaidIsGivenUp
  <2>4. Underway'
    BY <1>0, <1>1, <1>2 DEF IInv, TypeOK, Underway, Goes
  <2>5. QED
    BY <2>2, <2>3, <2>4 DEF IInv
<1>3. CASE session' = [session EXCEPT !.state = "open"] /\ session.state = "none"
  <2>0. session' \in Session /\ session'.state = "open" /\ session'.right = session.right
    BY <1>0, <1>3 DEF Session
  <2>1. creator' \in [Creator -> {"idle", "claim", "create", "commit", "rejected", "ambiguous"}]
    BY <1>1 DEF IInv, TypeOK, Goes
  <2>2. TypeOK'
    BY <1>0, <1>3, <2>0, <2>1 DEF IInv, TypeOK
  <2>3. sent = {}
    BY <1>3 DEF IInv, SentIsTrue, Outcome
  <2>4. ~payment.url
    BY <1>3 DEF IInv, TypeOK
  <2>5. SentIsTrue' /\ UrlShown' /\ PaidIsPaid' /\ NothingPaidIsGivenUp'
    BY <1>0, <1>3, <2>0, <2>3, <2>4 DEF IInv, SentIsTrue, UrlShown, PaidIsPaid, NothingPaidIsGivenUp
  <2>6. Underway'
    BY <1>0, <1>1, <2>0 DEF IInv, TypeOK, Underway, Goes
  <2>7. QED
    BY <2>2, <2>5, <2>6 DEF IInv
<1>4. QED
  BY <1>1, <1>2, <1>3

LEMMA CommitStep ==
    ASSUME IInv, NEW c \in Creator, Commit(c) PROVE IInv'
<1>1. takeovers' \in 0 .. MaxTakeovers /\ session.state # "none"
  BY DEF IInv, TypeOK, Underway, Commit
<1>2. CASE UNCHANGED payment
  BY <1>1, <1>2, CreatorMoves DEF Commit
<1>3. CASE /\ payment.status = "creating_checkout" /\ Goes(c, "idle")
           /\ payment' = [payment EXCEPT !.status = "pending", !.attached = TRUE, !.url = TRUE]
  <2>a. payment \in Payment
    BY PaymentType DEF IInv
  <2>b. [payment EXCEPT !.status = "pending", !.attached = TRUE, !.url = TRUE]
          = Rec("pending", TRUE, TRUE, payment.job)
    BY <2>a, CommitSet, Zenon
  <2>1. payment' = Rec("pending", TRUE, TRUE, payment.job)
    BY <1>3, <2>b
  <2>2. QED
    BY <1>1, <1>3, <2>1, CreatorWrites DEF Commit, Creating
<1>4. QED
  BY <1>2, <1>3 DEF Commit, WhileCreating

LEMMA MarkStep ==
    ASSUME IInv, NEW c \in Creator, MarkFailed(c) \/ MarkAmbiguous(c) PROVE IInv'
<1>1. takeovers' \in 0 .. MaxTakeovers /\ Goes(c, "idle") /\ UNCHANGED <<record, delivery, session, sent>>
  BY DEF IInv, TypeOK, MarkFailed, MarkAmbiguous
<1>2. CASE UNCHANGED payment
  BY <1>1, <1>2, CreatorMoves DEF MarkFailed, MarkAmbiguous
<1>3. ASSUME payment.status = "creating_checkout",
             NEW st \in {"failed", "creation_ambiguous"},
             payment' = [payment EXCEPT !.status = st]
      PROVE  IInv'
  <2>1. payment' = Rec(st, payment.attached, payment.url, payment.job)
    BY <1>3, StatusSet, PaymentType DEF IInv
  <2>2. /\ payment.attached \in BOOLEAN /\ payment.url \in BOOLEAN
        /\ payment.url => payment.attached /\ ~payment.url
        /\ payment.attached => session.state # "none"
    BY <1>3, PaymentType DEF IInv, TypeOK, UrlShown, Creating
  <2>3. QED
    BY <1>1, <1>3, <2>1, <2>2, CreatorWrites DEF Creating
<1>4. QED
  BY <1>2, <1>3 DEF MarkFailed, MarkAmbiguous, WhileCreating

-----------------------------------------------------------------------------
(* Steps of Stripe and the customer *)

LEMMA StripeStep ==
    ASSUME IInv, Pays \/ Settles \/ Expires PROVE IInv'
<1>0. UNCHANGED <<payment, record, creator, delivery, takeovers>> /\ session \in Session
  BY DEF Pays, Settles, Expires, IInv, TypeOK
<1>1. PICK st \in {"paid", "processing", "failed", "expired"}, e \in Event :
         /\ session' = [session EXCEPT !.state = st] /\ sent' = sent \cup {e}
         /\ st \in Outcome(e)
         /\ \/ session.state = "open" /\ payment.url /\ st \in {"paid", "processing"}
            \/ session.state = "open" /\ st = "expired"
            \/ session.state = "processing" /\ st \in {"paid", "failed"}
  <2>1. /\ "paid" \in Outcome("completed_paid") /\ "processing" \in Outcome("completed_unpaid")
        /\ "paid" \in Outcome("async_succeeded") /\ "failed" \in Outcome("async_failed")
        /\ "expired" \in Outcome("expired")
    BY DEF Outcome, Paid
  <2>2. {"completed_paid", "completed_unpaid", "async_succeeded", "async_failed", "expired"} = Event
    BY DEF Event
  <2>3. CASE Pays
    BY <2>1, <2>2, <2>3 DEF Pays
  <2>4. CASE Settles
    BY <2>1, <2>2, <2>4 DEF Settles
  <2>5. CASE Expires
    BY <2>1, <2>2, <2>5 DEF Expires
  <2>6. QED
    BY <2>3, <2>4, <2>5
<1>2. session' \in Session /\ session'.state = st /\ session'.right = session.right
  BY <1>0, <1>1 DEF Session
<1>3. \A x \in sent : session.state \in Outcome(x)
  BY DEF IInv, SentIsTrue
<1>4. \A x \in sent : st \in Outcome(x)
  BY <1>1, <1>3 DEF Outcome
<1>5. SentIsTrue'
  BY <1>1, <1>2, <1>4 DEF SentIsTrue
<1>6. TypeOK'
  BY <1>0, <1>1, <1>2 DEF IInv, TypeOK
<1>7. UrlShown' /\ Underway' /\ PaidIsPaid' /\ NothingPaidIsGivenUp'
  BY <1>0, <1>1, <1>2 DEF IInv, UrlShown, Underway, PaidIsPaid, NothingPaidIsGivenUp
<1>8. QED
  BY <1>5, <1>6, <1>7 DEF IInv

-----------------------------------------------------------------------------
(* Steps of a webhook *)

LEMMA AtType ==
    ASSUME IInv, NEW d \in Delivery, NEW pc \in {"attach", "created", "record"},
           NEW e \in sent, At(d, pc, e)
    PROVE  /\ delivery' \in [Delivery -> AtDelivery]
           /\ delivery'[d].pc = pc /\ delivery'[d].event = e
           /\ \A x \in Delivery : x # d => delivery'[x] = delivery[x]
<1>1. [pc |-> pc, event |-> e] \in AtDelivery
  BY DEF AtDelivery, IInv, TypeOK
<1>2. QED
  BY <1>1 DEF IInv, TypeOK, At

LEMMA AtIdle ==
    ASSUME IInv, NEW d \in Delivery, At(d, "idle", None)
    PROVE  /\ delivery' \in [Delivery -> AtDelivery]
           /\ delivery'[d].pc = "idle"
           /\ \A x \in Delivery : x # d => delivery'[x] = delivery[x]
<1>1. [pc |-> "idle", event |-> None] \in AtDelivery
  BY DEF AtDelivery
<1>2. QED
  BY <1>1 DEF IInv, TypeOK, At

\* The request moves on, and the payment may be attached meanwhile.
LEMMA DeliveryMoves ==
    ASSUME IInv, delivery' \in [Delivery -> AtDelivery],
           \A d \in Delivery : delivery'[d].pc # "idle" => delivery'[d].event \in sent,
           \A d \in Delivery : delivery'[d].pc \in {"created", "record"} => payment.attached,
           UNCHANGED <<payment, record, creator, session, sent, takeovers>>
    PROVE  IInv'
<1>1. TypeOK'
  BY DEF IInv, TypeOK
<1>2. QED
  BY <1>1 DEF IInv, SentIsTrue, UrlShown, Underway, PaidIsPaid, NothingPaidIsGivenUp

LEMMA ReceiveStep ==
    ASSUME IInv, NEW d \in Delivery, NEW e \in Event, Receive(d, e) PROVE IInv'
<1>1. PICK pc \in {"attach", "record"} : At(d, pc, e) /\ (pc = "record" => payment.attached)
  BY DEF Receive
<1>2. e \in sent /\ UNCHANGED <<payment, record, creator, session, sent, takeovers>>
  BY DEF Receive
<1>3. /\ delivery' \in [Delivery -> AtDelivery]
      /\ delivery'[d].pc = pc /\ delivery'[d].event = e
      /\ \A x \in Delivery : x # d => delivery'[x] = delivery[x]
  BY <1>1, <1>2, AtType
<1>4. QED
  BY <1>1, <1>2, <1>3, DeliveryMoves DEF IInv, TypeOK, Underway

LEMMA DeliveryDiesStep ==
    ASSUME IInv, NEW d \in Delivery, DeliveryDies(d) PROVE IInv'
BY AtIdle, DeliveryMoves DEF IInv, TypeOK, Underway, DeliveryDies

LEMMA SentState ==
    ASSUME IInv, sent # {} PROVE session.state \notin {"none", "open"}
BY DEF IInv, SentIsTrue, Outcome

LEMMA AttachStep ==
    ASSUME IInv, NEW d \in Delivery, Attach(d) PROVE IInv'
<1>1. delivery[d].event \in sent
  BY DEF IInv, TypeOK, Attach
<1>2. /\ delivery' \in [Delivery -> AtDelivery]
      /\ delivery'[d].event = delivery[d].event
      /\ \A x \in Delivery : x # d => delivery'[x] = delivery[x]
  BY <1>1, AtType DEF Attach
<1>a. payment \in Payment
  BY PaymentType DEF IInv
<1>3. /\ payment' \in Payment /\ payment'.status = payment.status /\ payment'.attached = TRUE
      /\ payment'.url = payment.url /\ payment'.job = payment.job
  <2>1. PICK b \in BOOLEAN : b = TRUE
    OBVIOUS
  <2>2. payment' = [payment EXCEPT !.attached = b]
    BY <2>1 DEF Attach
  <2>3. payment' = Rec(payment.status, b, payment.url, payment.job)
    BY <1>a, <2>2, AttachedSet
  <2>4. /\ payment.status \in Status /\ payment.url \in BOOLEAN /\ payment.job \in BOOLEAN
    BY PaymentType DEF IInv
  <2>5. /\ payment' \in Payment /\ payment'.status = payment.status /\ payment'.attached = b
        /\ payment'.url = payment.url /\ payment'.job = payment.job
    BY <2>3, <2>4, RecType
  <2>6. QED
    BY <2>1, <2>5
<1>4. UNCHANGED <<record, creator, session, sent, takeovers>>
  BY DEF Attach
<1>5. session.state # "none"
  BY <1>1, SentState
<1>6. TypeOK'
  BY <1>1, <1>2, <1>3, <1>4, <1>5 DEF IInv, TypeOK
<1>7. SentIsTrue' /\ UrlShown' /\ Underway' /\ PaidIsPaid' /\ NothingPaidIsGivenUp'
  BY <1>3, <1>4 DEF IInv, SentIsTrue, UrlShown, Underway, PaidIsPaid, NothingPaidIsGivenUp
<1>8. QED
  BY <1>6, <1>7 DEF IInv

\* What an event does to a payment that is attached.
LEMMA TransitionFacts ==
    ASSUME IInv, payment.attached, NEW e,
           e \in {"completed_paid", "async_succeeded"} => session.state = "paid" /\ session.right,
           e = "async_failed" => session.state = "failed",
           e = "expired" => session.state = "expired"
    PROVE  LET next == Transitions(payment.status, e) IN
           /\ next \in Status
           /\ \/ next = payment.status
              \/ payment.status \in Creating /\ next = "pending"
              \/ payment.status = "pending" /\ next = "paid" /\ session.state = "paid" /\ session.right
              \/ payment.status = "pending" /\ next \in {"failed", "expired"}
                    /\ session.state \notin {"paid", "processing", "open"}
BY PaymentType DEF IInv, Transitions, Status, Creating, Terminal

LEMMA RecordStep ==
    ASSUME IInv, NEW d \in Delivery, NEW key \in Event \cup {"attach"}, NEW e,
           RecordPaymentEvent(key, e), payment.attached,
           e \in {"completed_paid", "async_succeeded"} => session.state = "paid" /\ session.right,
           e = "async_failed" => session.state = "failed",
           e = "expired" => session.state = "expired",
           delivery' \in [Delivery -> AtDelivery],
           \A x \in Delivery : delivery'[x].pc # "idle" => delivery'[x].event \in sent,
           UNCHANGED <<creator, session, sent, takeovers>>
    PROVE  IInv'
<1>1. CASE UNCHANGED <<payment, record>>
  BY <1>1, DeliveryMoves DEF IInv
<1>2. CASE ~(UNCHANGED <<payment, record>>)
  <2> DEFINE next == Transitions(payment.status, e)
  <2>0. PICK job \in BOOLEAN : job = (payment.job \/ next = "paid")
    OBVIOUS
  <2>1. /\ record' = record \cup {key}
        /\ payment' = [payment EXCEPT !.status = next, !.job = job]
    BY <1>2, <2>0 DEF RecordPaymentEvent
  <2>2. /\ next \in Status
        /\ \/ next = payment.status
           \/ payment.status \in Creating /\ next = "pending"
           \/ payment.status = "pending" /\ next = "paid" /\ session.state = "paid" /\ session.right
           \/ payment.status = "pending" /\ next \in {"failed", "expired"}
                 /\ session.state \notin {"paid", "processing", "open"}
    BY TransitionFacts
  <2>3. next = "paid" => job
    BY <2>0
  <2> HIDE DEF next
  <2>4. /\ payment \in Payment /\ payment.status \in Status /\ payment.url \in BOOLEAN
        /\ payment.attached \in BOOLEAN
    BY PaymentType DEF IInv
  <2>6. /\ payment' \in Payment /\ payment'.status = next /\ payment'.attached = payment.attached
        /\ payment'.url = payment.url /\ payment'.job = job
    BY <2>1, <2>2, <2>4, PaymentRecorded, Zenon
  <2>7. TypeOK'
    BY <2>1, <2>2, <2>6 DEF IInv, TypeOK
  <2>8. SentIsTrue' /\ Underway'
    BY <2>6 DEF IInv, SentIsTrue, Underway
  <2>9. UrlShown'
    BY <2>2, <2>6 DEF IInv, UrlShown, Creating
  <2>10. PaidIsPaid' /\ NothingPaidIsGivenUp'
    BY <2>2, <2>3, <2>6 DEF IInv, PaidIsPaid, NothingPaidIsGivenUp, Creating
  <2>11. QED
    BY <2>7, <2>8, <2>9, <2>10 DEF IInv
<1>3. QED
  BY <1>1, <1>2

LEMMA RecordCreatedStep ==
    ASSUME IInv, NEW d \in Delivery, RecordCreated(d) PROVE IInv'
<1>1. delivery[d].event \in sent /\ payment.attached
  BY DEF IInv, TypeOK, Underway, RecordCreated
<1>2. /\ delivery' \in [Delivery -> AtDelivery]
      /\ delivery'[d].event = delivery[d].event
      /\ \A x \in Delivery : x # d => delivery'[x] = delivery[x]
  BY <1>1, AtType DEF RecordCreated
<1>3. \A x \in Delivery : delivery'[x].pc # "idle" => delivery'[x].event \in sent
  BY <1>1, <1>2 DEF IInv, TypeOK
<1>4. QED
  BY <1>1, <1>2, <1>3, RecordStep DEF RecordCreated

LEMMA RecordEventStep ==
    ASSUME IInv, NEW d \in Delivery, Record(d) PROVE IInv'
<1> DEFINE key == delivery[d].event
           e == StateEvent(key)
<1>1. key \in sent /\ payment.attached /\ key \in Event
  BY DEF IInv, TypeOK, Underway, Record
<1>2. session.state \in Outcome(key)
  BY <1>1 DEF IInv, SentIsTrue
<1>3. e \in {"completed_paid", "async_succeeded"} => session.state = "paid" /\ session.right
  BY <1>2 DEF StateEvent, Outcome, Paid
<1>4. /\ e = "async_failed" => session.state = "failed"
      /\ e = "expired" => session.state = "expired"
  BY <1>2 DEF StateEvent, Outcome, Paid
<1>5. /\ delivery' \in [Delivery -> AtDelivery]
      /\ \A x \in Delivery : delivery'[x].pc # "idle" => delivery'[x].event \in sent
  BY AtIdle DEF IInv, TypeOK, Record
<1>6. RecordPaymentEvent(key, e) /\ UNCHANGED <<creator, session, sent, takeovers>>
  BY DEF Record
<1> HIDE DEF key, e
<1>7. QED
  BY <1>1, <1>3, <1>4, <1>5, <1>6, RecordStep

LEMMA StepHolds == IInv /\ [Next]_vars => IInv'
<1> SUFFICES ASSUME IInv, [Next]_vars PROVE IInv'
  OBVIOUS
<1>1. ASSUME NEW c \in Creator, CreateCheckout(c) PROVE IInv'
  BY <1>1, LoadStep, ClaimStep, CreateStep, CommitStep, MarkStep DEF CreateCheckout
<1>2. ASSUME NEW d \in Delivery, Webhook(d) PROVE IInv'
  BY <1>2, ReceiveStep, AttachStep, RecordCreatedStep, RecordEventStep, DeliveryDiesStep DEF Webhook
<1>3. CASE Pays \/ Settles \/ Expires
  BY <1>3, StripeStep
<1>4. CASE UNCHANGED vars
  BY <1>4 DEF vars, IInv, TypeOK, SentIsTrue, UrlShown, Underway, PaidIsPaid, NothingPaidIsGivenUp
<1>5. QED
  BY <1>1, <1>2, <1>3, <1>4 DEF Next

-----------------------------------------------------------------------------
(* Theorems *)

\* The invariant holds in every reachable state.
THEOREM Inductive == Spec => []IInv
<1>1. QED
  BY InitHolds, StepHolds, PTL DEF Spec

\* Every variable keeps its type.
THEOREM TypeCorrect == Spec => []TypeOK
<1>1. IInv => TypeOK
  BY DEF IInv
<1>2. QED
  BY <1>1, Inductive, PTL

\* A payment is on the ledger as paid (recordPaymentEvent) only when Stripe's
\* session was paid in the right amount, and then its fulfilment job is there.
THEOREM PaidOnlyIfPaid == Spec => []PaidIsPaid
<1>1. IInv => PaidIsPaid
  BY DEF IInv
<1>2. QED
  BY <1>1, Inductive, PTL

\* Nothing the customer paid, is paying, or can still open is given up
\* (createCheckout and its guarded UPDATEs).
THEOREM NothingPaidLost == Spec => []NothingPaidIsGivenUp
<1>1. IInv => NothingPaidIsGivenUp
  BY DEF IInv
<1>2. QED
  BY <1>1, Inductive, PTL

-----------------------------------------------------------------------------
(* The moves of the payment *)

Moves(old, new) == old = new \/ <<old, new>> \in TriggerMoves

LEMMA StepMoves ==
    ASSUME IInv, [Next]_vars
    PROVE  Moves(payment.status, payment'.status) /\ (payment.attached => payment'.attached)
<1> DEFINE Fine == Moves(payment.status, payment'.status) /\ (payment.attached => payment'.attached)
<1>0. payment \in Payment
  BY PaymentType DEF IInv
<1>1. ASSUME UNCHANGED payment PROVE Fine
  BY <1>1 DEF Moves
<1>2. ASSUME NEW st, payment' = [payment EXCEPT !.status = st], <<payment.status, st>> \in TriggerMoves
      PROVE  Fine
  BY <1>0, <1>2 DEF Moves, Payment
<1>3. ASSUME NEW c \in Creator, Claim(c) PROVE Fine
  BY <1>1, <1>2, <1>3 DEF Claim, TriggerMoves
<1>4. ASSUME NEW c \in Creator, MarkFailed(c) \/ MarkAmbiguous(c) PROVE Fine
  BY <1>1, <1>2, <1>4 DEF MarkFailed, MarkAmbiguous, WhileCreating, TriggerMoves, Creating
<1>5. ASSUME NEW c \in Creator, Commit(c) PROVE Fine
  <2>1. CASE UNCHANGED payment
    BY <1>1, <2>1
  <2>2. CASE /\ payment.status = "creating_checkout"
             /\ payment' = [payment EXCEPT !.status = "pending", !.attached = TRUE, !.url = TRUE]
    <3>1. payment' = Rec("pending", TRUE, TRUE, payment.job)
      BY <1>0, <2>2, CommitSet, Zenon
    <3>2. payment'.status = "pending" /\ payment'.attached
      BY <3>1 DEF Rec
    <3>3. QED
      BY <2>2, <3>2 DEF Moves, TriggerMoves, Creating
  <2>3. QED
    BY <1>5, <2>1, <2>2 DEF Commit, WhileCreating
<1>6. ASSUME NEW d \in Delivery, Attach(d) PROVE Fine
  BY <1>0, <1>6 DEF Attach, Moves, Payment
<1>7. ASSUME NEW d \in Delivery, NEW key, NEW e, RecordPaymentEvent(key, e) PROVE Fine
  <2>1. CASE UNCHANGED payment
    BY <1>1, <2>1
  <2>2. CASE payment' # payment
    <3>1. Transitions(payment.status, e) \in Status
          /\ Moves(payment.status, Transitions(payment.status, e))
      BY PaymentType DEF IInv, Transitions, Moves, TriggerMoves, Status, Creating, Terminal
    <3>2. PICK j \in BOOLEAN : payment' = [payment EXCEPT !.status = Transitions(payment.status, e), !.job = j]
      BY <1>7, <2>2 DEF RecordPaymentEvent
    <3>3. payment'.status = Transitions(payment.status, e) /\ payment'.attached = payment.attached
      BY <1>0, <3>1, <3>2, PaymentRecorded, Zenon
    <3>4. QED
      BY <3>1, <3>3
  <2>3. QED
    BY <2>1, <2>2
<1>8. ASSUME NEW d \in Delivery, RecordCreated(d) \/ Record(d) PROVE Fine
  BY <1>7, <1>8 DEF RecordCreated, Record
<1>9. ASSUME \/ \E c \in Creator : Load(c) \/ Create(c) \/ CreatorDies(c)
             \/ \E d \in Delivery : DeliveryDies(d) \/ \E e \in Event : Receive(d, e)
             \/ Pays \/ Settles \/ Expires \/ UNCHANGED vars
      PROVE  Fine
  BY <1>1, <1>9 DEF Load, Create, CreatorDies, DeliveryDies, Receive, Pays, Settles, Expires, vars
<1> HIDE DEF Fine
<1>10. ASSUME NEW c \in Creator, CreateCheckout(c) PROVE Fine
  BY <1>3, <1>4, <1>5, <1>9, <1>10 DEF CreateCheckout
<1>11. ASSUME NEW d \in Delivery, Webhook(d) PROVE Fine
  BY <1>6, <1>8, <1>9, <1>11 DEF Webhook
<1>12. Fine
  BY <1>9, <1>10, <1>11 DEF Next
<1>13. QED
  BY <1>12 DEF Fine

\* Every move of a payment is one enforce_payment_invariants lets pass, and a
\* session once attached stays so.
THEOREM TriggerIsNeverMet == Spec => TriggerNeverRefuses
<1>1. IInv /\ [Next]_vars =>
        [/\ payment'.status # payment.status =>
              <<payment.status, payment'.status>> \in TriggerMoves
         /\ payment.attached => payment'.attached]_vars
  BY StepMoves DEF Moves
<1>2. QED
  BY <1>1, Inductive, PTL DEF Spec, TriggerNeverRefuses

=============================================================================
