-------------------------- MODULE SheetOutboxProofs --------------------------
(***************************************************************************)
(* Proofs about SheetOutbox for any sources, columns and flushes.          *)
(***************************************************************************)
EXTENDS SheetOutbox, TLAPS

-----------------------------------------------------------------------------
(* What is asked of the constants, beyond SheetAssumption. *)

\* No two flushes under way at a time have one worker_id.
WorkersDistinct == \A f, g \in Flush : WorkerOf[f] = WorkerOf[g] => f = g

\* A position in the conversation is one producer's, and it brings its key.
OneProducerPerOrder ==
    \A s, t \in Source :
       OrderOf[s] > 0 /\ OrderOf[s] = OrderOf[t] => KeyOf[s] = KeyOf[t] /\ KeyOf[s] # None

-----------------------------------------------------------------------------
(* The inductive invariants. *)

\* A flush that still holds the lease of its claim has what the row has, and
\* once its write has landed the sheet has shown it.
HolderIsCurrent ==
    \A f \in Flush :
       Holds(f) /\ flush[f].pc # "idle" =>
          /\ flush[f].payload = row.payload
          /\ flush[f].pc = "landed" => shown

LeaseInv == TypeOK /\ HolderIsCurrent /\ ProjectedWasShown

\* The row has a position when a source brought one, with that source's key.
KeyOfOrder ==
    /\ row.state = "absent" => came = {} /\ row.order = 0
    /\ row.order > 0 => \E s \in Source : OrderOf[s] = row.order /\ KeyOf[s] = row.key

OrderInv == TypeOK /\ KeyOfOrder /\ RowShowsLatest

-----------------------------------------------------------------------------
(* The rows the code writes *)

Rec(st, p, o, k, a, h, l) ==
    [state |-> st, payload |-> p, order |-> o, key |-> k, attempts |-> a, holder |-> h, timely |-> l]

LEMMA ExhaustSet ==
    ASSUME NEW r \in Row, NEW st, NEW h
    PROVE  [r EXCEPT !.state = st, !.holder = h]
             = Rec(st, r.payload, r.order, r.key, r.attempts, h, r.timely)
<1> DEFINE q == [r EXCEPT !.state = st]
<1>1. [r EXCEPT !.state = st, !.holder = h] = [q EXCEPT !.holder = h]
  OBVIOUS
<1>2. q = Rec(st, r.payload, r.order, r.key, r.attempts, r.holder, r.timely)
  BY DEF Row, Rec
<1> HIDE DEF q
<1>3. QED
  BY <1>1, <1>2 DEF Rec

LEMMA LeaseSet ==
    ASSUME NEW r \in Row, NEW l
    PROVE  [r EXCEPT !.timely = l] = Rec(r.state, r.payload, r.order, r.key, r.attempts, r.holder, l)
BY DEF Row, Rec

State == {"absent", "pending", "leased", "projected", "failed_retryable", "dead_letter"}
Order == {OrderOf[s] : s \in Source} \cup {0}
Key == {KeyOf[s] : s \in Source} \cup {None}

LEMMA RowType ==
    ASSUME NEW r \in Row
    PROVE  /\ r.state \in State /\ r.payload \in Payload /\ r.order \in Order /\ r.key \in Key
           /\ r.attempts \in 0 .. MaxAttempts /\ r.holder \in Worker \cup {None} /\ r.timely \in BOOLEAN
BY DEF Row, State, Order, Key

\* A row with those fields.
Has(q, st, p, o, k, a, h, l) ==
    /\ q \in Row /\ q.state = st /\ q.payload = p /\ q.order = o /\ q.key = k
    /\ q.attempts = a /\ q.holder = h /\ q.timely = l

LEMMA RecType ==
    ASSUME NEW st \in State, NEW p \in Payload, NEW o \in Order, NEW k \in Key,
           NEW a \in 0 .. MaxAttempts, NEW h \in Worker \cup {None}, NEW l \in BOOLEAN
    PROVE  Has(Rec(st, p, o, k, a, h, l), st, p, o, k, a, h, l)
BY DEF Rec, Row, Has, State, Order, Key

-----------------------------------------------------------------------------
(* Types *)

LEMMA FlushType ==
    ASSUME TypeOK, NEW f \in Flush
    PROVE  /\ flush[f] \in Run /\ flush[f].payload \in Payload /\ flush[f].attempts \in 0 .. MaxAttempts
           /\ Idle \in Run /\ Empty \in Payload /\ 0 \in 0 .. MaxAttempts
BY SheetAssumption DEF TypeOK, Run, Idle, Empty, Payload, SheetAssumption

LEMMA WorkerFacts ==
    ASSUME NEW f \in Flush PROVE WorkerOf[f] \in Worker /\ WorkerOf[f] # None
BY SheetAssumption DEF Worker, SheetAssumption

LEMMA TypeInit == Init => TypeOK
<1> SUFFICES ASSUME Init PROVE TypeOK
  OBVIOUS
<1>1. Empty \in Payload /\ 0 \in 0 .. MaxAttempts /\ 0 \in 0 .. MaxEnqueues
  BY SheetAssumption DEF Empty, Payload, SheetAssumption
<1>2. NoRow \in Row
  BY <1>1 DEF NoRow, Row
<1>3. Idle \in Run
  BY <1>1 DEF Idle, Run
<1>4. QED
  BY <1>1, <1>2, <1>3 DEF Init, TypeOK, NoRow

\* What each step makes of the row.
LEMMA EnqueueRow ==
    ASSUME TypeOK, NEW s \in Source
    PROVE  Has(Opened(s), "pending", Merged(s),
               IF OrderOf[s] > 0 THEN OrderOf[s] ELSE row.order,
               IF OrderOf[s] > 0 THEN KeyOf[s] ELSE row.key, 0, None, FALSE)
<1>1. row.payload \in Payload /\ row.order \in Order /\ row.key \in Key
  BY RowType DEF TypeOK
<1>2. Merged(s) \in Payload
  BY <1>1 DEF Merged, Payload
<1>3. 0 \in 0 .. MaxAttempts /\ "pending" \in State /\ FALSE \in BOOLEAN
  BY SheetAssumption DEF SheetAssumption, State
<1>4. OrderOf[s] \in Order /\ KeyOf[s] \in Key
  BY DEF Order, Key
<1> DEFINE o == IF OrderOf[s] > 0 THEN OrderOf[s] ELSE row.order
           k == IF OrderOf[s] > 0 THEN KeyOf[s] ELSE row.key
<1>5. o \in Order /\ k \in Key
  BY <1>1, <1>4
<1>6. Opened(s) = Rec("pending", Merged(s), o, k, 0, None, FALSE)
  BY DEF Opened, Rec
<1> HIDE DEF o, k
<1>7. Has(Opened(s), "pending", Merged(s), o, k, 0, None, FALSE)
  BY <1>2, <1>3, <1>5, <1>6, RecType
<1>8. QED
  BY <1>7 DEF o, k

LEMMA ClaimRow ==
    ASSUME NEW r \in Row, NEW h \in Worker, r.attempts < MaxAttempts
    PROVE  Has([r EXCEPT !.attempts = @ + 1, !.state = "leased", !.holder = h, !.timely = TRUE],
               "leased", r.payload, r.order, r.key, r.attempts + 1, h, TRUE)
<1>1. /\ r \in Row /\ r.payload \in Payload /\ r.order \in Order /\ r.key \in Key
      /\ r.attempts + 1 \in 0 .. MaxAttempts /\ "leased" \in State /\ h \in Worker \cup {None}
  BY RowType, SheetAssumption DEF SheetAssumption, State
<1> DEFINE p == [r EXCEPT !.attempts = @ + 1]
           q == [p EXCEPT !.state = "leased"]
           u == [q EXCEPT !.holder = h]
<1>a. p = Rec(r.state, r.payload, r.order, r.key, r.attempts + 1, r.holder, r.timely)
  BY DEF Row, Rec
<1>b. [r EXCEPT !.attempts = @ + 1, !.state = "leased", !.holder = h, !.timely = TRUE] = [u EXCEPT !.timely = TRUE]
  OBVIOUS
<1> HIDE DEF p
<1>c. q = Rec("leased", r.payload, r.order, r.key, r.attempts + 1, r.holder, r.timely)
  BY <1>a DEF Rec
<1> HIDE DEF q
<1>d. u = Rec("leased", r.payload, r.order, r.key, r.attempts + 1, h, r.timely)
  BY <1>c DEF Rec
<1> HIDE DEF u
<1>2. ASSUME NEW b \in BOOLEAN
      PROVE  Has([u EXCEPT !.timely = b], "leased", r.payload, r.order, r.key, r.attempts + 1, h, b)
  <2>1. [u EXCEPT !.timely = b] = Rec("leased", r.payload, r.order, r.key, r.attempts + 1, h, b)
    BY <1>d DEF Rec
  <2>2. Has(Rec("leased", r.payload, r.order, r.key, r.attempts + 1, h, b), "leased", r.payload, r.order, r.key, r.attempts + 1, h, b)
    BY <1>1, RecType
  <2>3. QED
    BY <2>1, <2>2
<1>3. QED
  BY <1>b, <1>2

LEMMA EndRow ==
    ASSUME NEW r \in Row, NEW st \in State
    PROVE  Has([r EXCEPT !.state = st, !.holder = None, !.timely = FALSE],
               st, r.payload, r.order, r.key, r.attempts, None, FALSE)
<1>1. /\ r \in Row /\ r.payload \in Payload /\ r.order \in Order /\ r.key \in Key
      /\ r.attempts \in 0 .. MaxAttempts /\ None \in Worker \cup {None}
  BY RowType
<1> DEFINE u == [r EXCEPT !.state = st, !.holder = None]
<1>a. u = Rec(st, r.payload, r.order, r.key, r.attempts, None, r.timely)
  BY ExhaustSet
<1>b. [r EXCEPT !.state = st, !.holder = None, !.timely = FALSE] = [u EXCEPT !.timely = FALSE]
  OBVIOUS
<1> HIDE DEF u
<1>2. ASSUME NEW b \in BOOLEAN
      PROVE  Has([u EXCEPT !.timely = b], st, r.payload, r.order, r.key, r.attempts, None, b)
  <2>1. [u EXCEPT !.timely = b] = Rec(st, r.payload, r.order, r.key, r.attempts, None, b)
    BY <1>a DEF Rec
  <2>2. Has(Rec(st, r.payload, r.order, r.key, r.attempts, None, b), st, r.payload, r.order, r.key, r.attempts, None, b)
    BY <1>1, RecType
  <2>3. QED
    BY <2>1, <2>2
<1>3. QED
  BY <1>b, <1>2

LEMMA ExhaustRow ==
    ASSUME TypeOK, row' = [row EXCEPT !.state = "dead_letter", !.holder = None]
    PROVE  Has(row', "dead_letter", row.payload, row.order, row.key, row.attempts, None, row.timely)
<1>1. /\ row \in Row /\ row.payload \in Payload /\ row.order \in Order /\ row.key \in Key
      /\ row.attempts \in 0 .. MaxAttempts /\ row.timely \in BOOLEAN /\ None \in Worker \cup {None}
  BY RowType DEF TypeOK
<1>2. row' = Rec("dead_letter", row.payload, row.order, row.key, row.attempts, None, row.timely)
  BY <1>1, ExhaustSet
<1>3. QED
  <2>1. "dead_letter" \in State
    BY DEF State
  <2>2. Has(Rec("dead_letter", row.payload, row.order, row.key, row.attempts, None, row.timely),
            "dead_letter", row.payload, row.order, row.key, row.attempts, None, row.timely)
    BY <1>1, <2>1, RecType
  <2>3. QED
    BY <1>2, <2>2

LEMMA LeaseRow ==
    ASSUME TypeOK, row' = [row EXCEPT !.timely = FALSE]
    PROVE  Has(row', row.state, row.payload, row.order, row.key, row.attempts, row.holder, FALSE)
<1>1. /\ row \in Row /\ row.state \in State /\ row.payload \in Payload /\ row.order \in Order /\ row.key \in Key
      /\ row.attempts \in 0 .. MaxAttempts /\ row.holder \in Worker \cup {None}
  BY RowType DEF TypeOK
<1>2. PICK b \in BOOLEAN : b = FALSE
  OBVIOUS
<1>3. row' = Rec(row.state, row.payload, row.order, row.key, row.attempts, row.holder, b)
  BY <1>1, <1>2, LeaseSet
<1>4. Has(Rec(row.state, row.payload, row.order, row.key, row.attempts, row.holder, b),
          row.state, row.payload, row.order, row.key, row.attempts, row.holder, b)
  BY <1>1, RecType
<1>5. QED
  BY <1>2, <1>3, <1>4

\* A step of a flush that leaves the row alone.
LEMMA AtFacts ==
    ASSUME TypeOK, NEW f \in Flush, NEW pc \in {"idle", "claimed", "writing", "landed", "failed"}, At(f, pc)
    PROVE  /\ flush' \in [Flush -> Run]
           /\ flush'[f].pc = pc /\ flush'[f].payload = flush[f].payload
           /\ \A g \in Flush : g # f => flush'[g] = flush[g]
<1>1. flush \in [Flush -> Run] /\ flush[f] \in Run
  BY DEF TypeOK
<1> DEFINE w == [flush[f] EXCEPT !.pc = pc]
<1>2. w \in Run /\ w.pc = pc /\ w.payload = flush[f].payload
  BY <1>1 DEF Run
<1>3. flush' = [flush EXCEPT ![f] = w]
  BY <1>1 DEF At
<1> HIDE DEF w
<1>4. QED
  BY <1>1, <1>2, <1>3

LEMMA ClaimFacts ==
    ASSUME TypeOK, NEW f \in Flush, Claim(f)
    PROVE  /\ Has(row', "leased", row.payload, row.order, row.key, row.attempts + 1, WorkerOf[f], TRUE)
           /\ flush' \in [Flush -> Run]
           /\ flush'[f].pc = "claimed" /\ flush'[f].payload = row.payload
           /\ \A g \in Flush : g # f => flush'[g] = flush[g]
<1>0. row \in Row /\ row.attempts < MaxAttempts /\ WorkerOf[f] \in Worker
  BY WorkerFacts DEF TypeOK, Claim, Claimable
<1>1. Has(row', "leased", row.payload, row.order, row.key, row.attempts + 1, WorkerOf[f], TRUE)
  <2>1. row' = [row EXCEPT !.attempts = @ + 1, !.state = "leased", !.holder = WorkerOf[f], !.timely = TRUE]
    BY DEF Claim
  <2>2. Has([row EXCEPT !.attempts = @ + 1, !.state = "leased", !.holder = WorkerOf[f], !.timely = TRUE],
            "leased", row.payload, row.order, row.key, row.attempts + 1, WorkerOf[f], TRUE)
    BY <1>0, ClaimRow
  <2>3. QED
    BY <2>1, <2>2, Zenon
<1> DEFINE w == [pc |-> "claimed", payload |-> row.payload, attempts |-> row.attempts + 1]
<1>2. w \in Run /\ w.pc = "claimed" /\ w.payload = row.payload
  BY <1>0, RowType, SheetAssumption DEF Run, SheetAssumption
<1>3. flush' = [flush EXCEPT ![f] = w]
  BY DEF Claim
<1> HIDE DEF w
<1>4. QED
  BY <1>1, <1>2, <1>3 DEF TypeOK

LEMMA EndsFacts ==
    ASSUME TypeOK, NEW f \in Flush, NEW st \in State, Ends(f, st)
    PROVE  /\ IF Holds(f)
                THEN Has(row', st, row.payload, row.order, row.key, row.attempts, None, FALSE)
                ELSE row' = row
           /\ flush' \in [Flush -> Run]
           /\ flush'[f].pc = "idle"
           /\ \A g \in Flush : g # f => flush'[g] = flush[g]
<1>1. Has([row EXCEPT !.state = st, !.holder = None, !.timely = FALSE],
          st, row.payload, row.order, row.key, row.attempts, None, FALSE)
  BY EndRow DEF TypeOK
<1>2. IF Holds(f) THEN row' = [row EXCEPT !.state = st, !.holder = None, !.timely = FALSE] ELSE row' = row
  BY DEF Ends
<1>3. IF Holds(f) THEN Has(row', st, row.payload, row.order, row.key, row.attempts, None, FALSE) ELSE row' = row
  BY <1>1, <1>2, Zenon
<1>4. Idle \in Run /\ Idle.pc = "idle"
  BY FlushType DEF Idle
<1>5. flush' = [flush EXCEPT ![f] = Idle]
  BY DEF Ends
<1>6. QED
  BY <1>3, <1>4, <1>5 DEF TypeOK

LEMMA IdleFacts ==
    ASSUME TypeOK, NEW f \in Flush, flush' = [flush EXCEPT ![f] = Idle]
    PROVE  /\ flush' \in [Flush -> Run]
           /\ flush'[f].pc = "idle"
           /\ \A g \in Flush : g # f => flush'[g] = flush[g]
<1>1. Idle \in Run /\ Idle.pc = "idle"
  BY FlushType DEF Idle
<1>2. QED
  BY <1>1 DEF TypeOK

-----------------------------------------------------------------------------
(* Every step keeps the types *)

LEMMA TypeStep == TypeOK /\ [Next]_vars => TypeOK'
<1> SUFFICES ASSUME TypeOK, [Next]_vars PROVE TypeOK'
  OBVIOUS
<1>0. /\ row \in Row /\ flush \in [Flush -> Run] /\ adrift \in SUBSET Payload /\ sheet \in Payload
      /\ row.payload \in Payload /\ row.attempts \in Nat
      /\ \A f \in Flush : flush[f].payload \in Payload
  BY RowType, FlushType, SheetAssumption DEF TypeOK, SheetAssumption
<1>1. ASSUME NEW s \in Source, EnqueueLeadProjection(s) PROVE TypeOK'
  <2>1. CASE UNCHANGED <<row, opened, shown>>
    BY <1>1, <2>1 DEF TypeOK, EnqueueLeadProjection
  <2>2. CASE row' = Opened(s) /\ opened < MaxEnqueues /\ opened' = opened + 1 /\ shown' = FALSE
    <3>1. Has(row', "pending", Merged(s),
               IF OrderOf[s] > 0 THEN OrderOf[s] ELSE row.order,
               IF OrderOf[s] > 0 THEN KeyOf[s] ELSE row.key, 0, None, FALSE)
      BY <2>2, EnqueueRow, Zenon
    <3>2. opened' \in 0 .. MaxEnqueues
      BY <2>2, SheetAssumption DEF TypeOK, SheetAssumption
    <3>3. row' \in Row /\ row'.state = "pending" /\ row'.holder = None /\ row'.timely = FALSE
      BY <3>1 DEF Has
    <3>4. QED
      BY <1>1, <2>2, <3>2, <3>3 DEF TypeOK, EnqueueLeadProjection
  <2>3. QED
    BY <1>1, <2>1, <2>2 DEF EnqueueLeadProjection
<1>2. ASSUME NEW f \in Flush, Claim(f) PROVE TypeOK'
  <2>1. /\ Has(row', "leased", row.payload, row.order, row.key, row.attempts + 1, WorkerOf[f], TRUE)
        /\ flush' \in [Flush -> Run]
    BY <1>2, ClaimFacts
  <2>2. row' \in Row /\ row'.state = "leased" /\ row'.holder # None /\ row'.attempts > 0
    BY <1>0, <2>1, WorkerFacts DEF Has
  <2>3. QED
    BY <1>2, <2>1, <2>2 DEF TypeOK, Claim
<1>3. ASSUME NEW f \in Flush, Exhausts(f) PROVE TypeOK'
  <2>1. Has(row', "dead_letter", row.payload, row.order, row.key, row.attempts, None, row.timely)
    BY <1>3, ExhaustRow DEF Exhausts
  <2>2. row' \in Row /\ row'.state = "dead_letter" /\ row'.holder = None /\ row'.timely = row.timely
    BY <2>1 DEF Has
  <2>3. ~row.timely
    BY <1>3 DEF Exhausts, LeaseIsOver
  <2>4. QED
    BY <1>3, <2>2, <2>3 DEF TypeOK, Exhausts
<1>4. ASSUME LeaseRunsOut PROVE TypeOK'
  <2>1. Has(row', row.state, row.payload, row.order, row.key, row.attempts, row.holder, FALSE)
    BY <1>4, LeaseRow DEF LeaseRunsOut
  <2>2. /\ row' \in Row /\ row'.state = row.state /\ row'.holder = row.holder /\ row'.timely = FALSE
        /\ row'.attempts = row.attempts
    BY <2>1 DEF Has
  <2>3. QED
    BY <1>4, <2>2 DEF TypeOK, LeaseRunsOut
<1>5. ASSUME NEW f \in Flush, Writes(f) \/ Lands(f) \/ WriteFails(f) PROVE TypeOK'
  <2>1. flush' \in [Flush -> Run]
    BY <1>5, AtFacts DEF Writes, Lands, WriteFails
  <2>2. row' = row /\ adrift' \in SUBSET Payload /\ sheet' \in Payload /\ shown' \in BOOLEAN
    BY <1>0, <1>5 DEF Writes, Lands, WriteFails, Shows, TypeOK
  <2>3. QED
    BY <1>5, <2>1, <2>2 DEF TypeOK, Writes, Lands, WriteFails
<1>6. ASSUME NEW f \in Flush, NEW st \in {"projected", "dead_letter", "failed_retryable"}, Ends(f, st)
      PROVE  TypeOK'
  <2>1. /\ flush' \in [Flush -> Run]
        /\ IF Holds(f)
             THEN Has(row', st, row.payload, row.order, row.key, row.attempts, None, FALSE)
             ELSE row' = row
    BY <1>6, EndsFacts DEF State
  <2>2. UNCHANGED <<adrift, sheet, came, opened, shown>>
    BY <1>6 DEF Ends
  <2>3. CASE ~Holds(f)
    BY <2>1, <2>2, <2>3 DEF TypeOK
  <2>4. CASE Holds(f)
    <3>1. /\ row' \in Row /\ row'.state = st /\ row'.holder = None /\ row'.timely = FALSE
          /\ row'.attempts = row.attempts
      BY <2>1, <2>4 DEF Has
    <3>2. row.attempts > 0
      BY <2>4 DEF Holds, TypeOK
    <3>3. QED
      BY <2>1, <2>2, <3>1, <3>2 DEF TypeOK
  <2>5. QED
    BY <2>3, <2>4
<1>7. ASSUME NEW f \in Flush, GivesUp(f) PROVE TypeOK'
  <2>1. flush' \in [Flush -> Run]
    BY <1>7, IdleFacts DEF GivesUp
  <2>2. adrift' \in SUBSET Payload
    BY <1>0, <1>7 DEF GivesUp
  <2>3. QED
    BY <1>7, <2>1, <2>2 DEF TypeOK, GivesUp
<1>8. ASSUME LandsLate PROVE TypeOK'
  BY <1>0, <1>8 DEF TypeOK, LandsLate, Shows
<1>9. CASE UNCHANGED vars
  BY <1>9 DEF TypeOK, vars
<1>10. ASSUME NEW f \in Flush, Completes(f) \/ Fails(f) PROVE TypeOK'
  BY <1>6, <1>10 DEF Completes, Fails
<1>11. ASSUME NEW f \in Flush, Flushes(f) PROVE TypeOK'
  BY <1>2, <1>3, <1>5, <1>7, <1>10, <1>11 DEF Flushes
<1>12. QED
  BY <1>1, <1>4, <1>8, <1>9, <1>11 DEF Next

\* Every field of the row, of the flushes and of the sheet stays in its type.
THEOREM TypeCorrect == Spec => []TypeOK
  BY TypeInit, TypeStep, PTL DEF Spec

-----------------------------------------------------------------------------
(* The lease: whoever completes the row wrote what the row has *)

LEMMA LeaseInit == Init => LeaseInv
<1> SUFFICES ASSUME Init PROVE LeaseInv
  OBVIOUS
<1>1. TypeOK
  BY TypeInit
<1>2. row.state = "absent" /\ ~row.timely
  BY DEF Init, NoRow
<1>3. QED
  BY <1>1, <1>2 DEF LeaseInv, HolderIsCurrent, Holds, ProjectedWasShown

\* Nothing is said of a row that nobody holds.
LEMMA NotLeased ==
    ASSUME row'.timely = FALSE \/ row'.state # "leased" PROVE HolderIsCurrent'
BY DEF HolderIsCurrent, Holds

\* A flush that stays where it is keeps its part when the row's holder and
\* payload do and nothing that was shown is forgotten.
LEMMA OthersKept ==
    ASSUME HolderIsCurrent, NEW g \in Flush, flush'[g] = flush[g], Holds(g)' => Holds(g),
           row'.payload = row.payload, shown => shown'
    PROVE  (Holds(g) /\ flush[g].pc # "idle" =>
              /\ flush[g].payload = row.payload
              /\ flush[g].pc = "landed" => shown)'
<1>1. Holds(g) /\ flush[g].pc # "idle" =>
        flush[g].payload = row.payload /\ (flush[g].pc = "landed" => shown)
  BY DEF HolderIsCurrent
<1>2. QED
  BY <1>1

LEMMA LeaseStep ==
    ASSUME WorkersDistinct
    PROVE  LeaseInv /\ [Next]_vars => LeaseInv'
<1> SUFFICES ASSUME LeaseInv, [Next]_vars PROVE LeaseInv'
  OBVIOUS
<1>0. TypeOK /\ HolderIsCurrent /\ ProjectedWasShown /\ TypeOK'
  BY TypeStep DEF LeaseInv
<1> DEFINE Kept == HolderIsCurrent' /\ ProjectedWasShown'
<1>1. ASSUME NEW s \in Source, EnqueueLeadProjection(s) PROVE Kept
  <2>1. CASE UNCHANGED <<row, opened, shown>>
    BY <1>0, <1>1, <2>1 DEF EnqueueLeadProjection, HolderIsCurrent, Holds, ProjectedWasShown
  <2>2. CASE row' = Opened(s)
    <3>1. row'.state = "pending"
      BY <2>2 DEF Opened
    <3>2. QED
      BY <3>1, NotLeased DEF ProjectedWasShown
  <2>3. QED
    BY <1>1, <2>1, <2>2 DEF EnqueueLeadProjection
<1>2. ASSUME NEW f \in Flush, Claim(f) PROVE Kept
  <2>1. /\ Has(row', "leased", row.payload, row.order, row.key, row.attempts + 1, WorkerOf[f], TRUE)
        /\ flush'[f].pc = "claimed" /\ flush'[f].payload = row.payload
    BY <1>0, <1>2, ClaimFacts
  <2>2. row'.state = "leased" /\ row'.payload = row.payload /\ row'.holder = WorkerOf[f]
    BY <2>1 DEF Has
  <2>3. ASSUME NEW g \in Flush, g # f PROVE ~Holds(g)'
    <3>1. WorkerOf[g] # WorkerOf[f]
      BY <2>3 DEF WorkersDistinct
    <3>2. QED
      BY <2>2, <3>1 DEF Holds
  <2>4. HolderIsCurrent'
    BY <2>1, <2>2, <2>3 DEF HolderIsCurrent
  <2>5. QED
    BY <2>2, <2>4 DEF ProjectedWasShown
<1>3. ASSUME NEW f \in Flush, Exhausts(f) PROVE Kept
  <2>1. Has(row', "dead_letter", row.payload, row.order, row.key, row.attempts, None, row.timely)
    BY <1>0, <1>3, ExhaustRow DEF Exhausts
  <2>2. row'.state = "dead_letter"
    BY <2>1 DEF Has
  <2>3. QED
    BY <2>2, NotLeased DEF ProjectedWasShown
<1>4. ASSUME LeaseRunsOut PROVE Kept
  <2>1. Has(row', row.state, row.payload, row.order, row.key, row.attempts, row.holder, FALSE)
    BY <1>0, <1>4, LeaseRow DEF LeaseRunsOut
  <2>2. row'.state = row.state /\ row'.timely = FALSE /\ shown' = shown
    BY <1>4, <2>1 DEF Has, LeaseRunsOut
  <2>3. QED
    BY <1>0, <2>2, NotLeased DEF ProjectedWasShown
<1>5. ASSUME NEW f \in Flush, Writes(f) PROVE Kept
  <2>1. row' = row /\ shown' = shown /\ flush[f].pc = "claimed"
    BY <1>5 DEF Writes
  <2>2. /\ flush'[f].pc = "writing" /\ flush'[f].payload = flush[f].payload
        /\ \A g \in Flush : g # f => flush'[g] = flush[g]
    BY <1>0, <1>5, AtFacts DEF Writes
  <2>3. QED
    BY <1>0, <2>1, <2>2 DEF HolderIsCurrent, Holds, ProjectedWasShown
<1>6. ASSUME NEW f \in Flush, Lands(f) PROVE Kept
  <2>1. row' = row /\ flush[f].pc = "writing" /\ shown' = (shown \/ flush[f].payload = row.payload)
    BY <1>6 DEF Lands, Shows
  <2>2. /\ flush'[f].payload = flush[f].payload
        /\ \A g \in Flush : g # f => flush'[g] = flush[g]
    BY <1>0, <1>6, AtFacts DEF Lands
  <2>3. Holds(f)' => flush'[f].payload = row'.payload /\ shown'
    BY <1>0, <2>1, <2>2 DEF HolderIsCurrent, Holds
  <2>4. ASSUME NEW g \in Flush, g # f
        PROVE  (Holds(g) /\ flush[g].pc # "idle" =>
                  flush[g].payload = row.payload /\ (flush[g].pc = "landed" => shown))'
    <3>1. flush'[g] = flush[g]
      BY <2>2, <2>4
    <3>2. Holds(g)' => Holds(g)
      BY <2>1 DEF Holds
    <3>3. row'.payload = row.payload /\ (shown => shown')
      BY <2>1
    <3>4. QED
      BY <1>0, <3>1, <3>2, <3>3, OthersKept
  <2>5. HolderIsCurrent'
    BY <2>3, <2>4 DEF HolderIsCurrent
  <2>6. QED
    BY <1>0, <2>1, <2>5 DEF ProjectedWasShown
<1>7. ASSUME NEW f \in Flush, WriteFails(f) PROVE Kept
  <2>1. row' = row /\ shown' = shown /\ flush[f].pc = "writing"
    BY <1>7 DEF WriteFails
  <2>2. /\ flush'[f].pc = "failed" /\ flush'[f].payload = flush[f].payload
        /\ \A g \in Flush : g # f => flush'[g] = flush[g]
    BY <1>0, <1>7, AtFacts DEF WriteFails
  <2>3. QED
    BY <1>0, <2>1, <2>2 DEF HolderIsCurrent, Holds, ProjectedWasShown
<1>8. ASSUME NEW f \in Flush, NEW st \in {"projected", "dead_letter", "failed_retryable"}, Ends(f, st),
             st = "projected" => flush[f].pc = "landed", flush[f].pc # "idle"
      PROVE  Kept
  <2>1. /\ flush'[f].pc = "idle"
        /\ \A g \in Flush : g # f => flush'[g] = flush[g]
        /\ IF Holds(f)
             THEN Has(row', st, row.payload, row.order, row.key, row.attempts, None, FALSE)
             ELSE row' = row
    BY <1>0, <1>8, EndsFacts DEF State
  <2>2. shown' = shown
    BY <1>8 DEF Ends
  <2>3. CASE ~Holds(f)
    BY <1>0, <2>1, <2>2, <2>3 DEF HolderIsCurrent, Holds, ProjectedWasShown
  <2>4. CASE Holds(f)
    <3>1. row'.state = st
      BY <2>1, <2>4 DEF Has
    <3>2. st = "projected" => shown'
      BY <1>0, <1>8, <2>2, <2>4 DEF HolderIsCurrent
    <3>3. HolderIsCurrent'
      BY <3>1, NotLeased
    <3>4. QED
      BY <3>1, <3>2, <3>3 DEF ProjectedWasShown
  <2>5. QED
    BY <2>3, <2>4
<1>9. ASSUME NEW f \in Flush, Completes(f) \/ Fails(f) PROVE Kept
  BY <1>8, <1>9 DEF Completes, Fails
<1>10. ASSUME NEW f \in Flush, GivesUp(f) PROVE Kept
  <2>1. row' = row /\ shown' = shown
    BY <1>10 DEF GivesUp
  <2>2. flush'[f].pc = "idle" /\ \A g \in Flush : g # f => flush'[g] = flush[g]
    BY <1>0, <1>10, IdleFacts DEF GivesUp
  <2>3. QED
    BY <1>0, <2>1, <2>2 DEF HolderIsCurrent, Holds, ProjectedWasShown
<1>11. ASSUME LandsLate PROVE Kept
  <2>1. row' = row /\ flush' = flush /\ (shown => shown')
    BY <1>11 DEF LandsLate, Shows
  <2>2. QED
    BY <1>0, <2>1 DEF HolderIsCurrent, Holds, ProjectedWasShown
<1>12. ASSUME UNCHANGED vars PROVE Kept
  BY <1>0, <1>12 DEF vars, HolderIsCurrent, Holds, ProjectedWasShown
<1>13. ASSUME NEW f \in Flush, Flushes(f) PROVE Kept
  BY <1>2, <1>3, <1>5, <1>6, <1>7, <1>9, <1>10, <1>13 DEF Flushes
<1>14. Kept
  BY <1>1, <1>4, <1>11, <1>12, <1>13 DEF Next
<1>15. QED
  BY <1>0, <1>14 DEF LeaseInv

\* When no two flushes share a worker_id, a row is completed only by a flush
\* that wrote what the row has now: the sheet has shown its present payload.
THEOREM CompletedWasShown == ASSUME WorkersDistinct PROVE Spec => []ProjectedWasShown
<1>1. LeaseInv => ProjectedWasShown
  BY DEF LeaseInv
<1>2. LeaseInv /\ [Next]_vars => LeaseInv'
  BY LeaseStep
<1>3. QED
  BY LeaseInit, <1>1, <1>2, PTL DEF Spec

-----------------------------------------------------------------------------
(* The order: no delivery reported late takes back a newer one *)

LEMMA OrderInit == Init => OrderInv
<1> SUFFICES ASSUME Init PROVE OrderInv
  OBVIOUS
<1>1. TypeOK /\ came = {} /\ row.order = 0
  BY TypeInit DEF Init, NoRow
<1>2. QED
  BY <1>1 DEF OrderInv, KeyOfOrder, RowShowsLatest

\* A row that stays in its order, key and payload keeps what is said of it.
LEMMA OrderKept ==
    ASSUME OrderInv, row'.order = row.order, row'.key = row.key, row'.payload = row.payload,
           row'.state = "absent" => row.state = "absent", came' = came
    PROVE  KeyOfOrder' /\ RowShowsLatest'
BY DEF OrderInv, KeyOfOrder, RowShowsLatest

LEMMA OrderIsNat ==
    ASSUME TypeOK PROVE row.order \in Nat /\ \A s \in Source : OrderOf[s] \in Nat
<1>1. row.order \in Order
  BY RowType DEF TypeOK
<1>2. \A s \in Source : OrderOf[s] \in Nat
  BY SheetAssumption DEF SheetAssumption
<1>3. QED
  BY <1>1, <1>2 DEF Order

LEMMA EnqueueOrder ==
    ASSUME OneProducerPerOrder, OrderInv, NEW s \in Source, EnqueueLeadProjection(s)
    PROVE  KeyOfOrder' /\ RowShowsLatest'
<1>0. TypeOK /\ KeyOfOrder /\ RowShowsLatest /\ came' = came \cup {s} /\ came \in SUBSET Source
  BY DEF OrderInv, TypeOK, EnqueueLeadProjection
<1>1. row.order \in Nat /\ \A t \in Source : OrderOf[t] \in Nat
  BY <1>0, OrderIsNat
<1>2. \A f \in Gives[s] : f \in Field
  BY SheetAssumption DEF SheetAssumption
<1>3. \A f \in Field : Merged(s)[f] = IF f \in Gives[s] THEN s ELSE row.payload[f]
  BY DEF Merged
<1>4. ASSUME IsStale(s) PROVE KeyOfOrder' /\ RowShowsLatest'
  <2>1. row' = row /\ row.state # "absent"
    BY <1>4 DEF EnqueueLeadProjection, IsStale
  <2>2. KeyOfOrder'
    BY <1>0, <2>1 DEF KeyOfOrder
  <2>3. ASSUME OrderOf[s] > 0
        PROVE  /\ row.order >= OrderOf[s]
               /\ row.order = OrderOf[s] =>
                     \A f \in Gives[s] : row.payload[f] # None /\ OrderOf[row.payload[f]] = row.order
    <3>1. CASE row.order > OrderOf[s]
      BY <1>1, <3>1
    <3>2. CASE row.order = OrderOf[s] /\ (Merged(s) = row.payload \/ KeyOf[s] = None \/ row.key # KeyOf[s])
      <4>1. PICK t \in Source : OrderOf[t] = row.order /\ KeyOf[t] = row.key
        BY <1>0, <2>3, <3>2 DEF KeyOfOrder
      <4>2. KeyOf[s] # None /\ KeyOf[s] = row.key
        BY <2>3, <3>2, <4>1 DEF OneProducerPerOrder
      <4>3. Merged(s) = row.payload
        BY <3>2, <4>2
      <4>4. \A f \in Gives[s] : row.payload[f] = s
        BY <1>2, <1>3, <4>3
      <4>5. s # None
        BY SheetAssumption DEF SheetAssumption
      <4>6. QED
        BY <1>1, <3>2, <4>4, <4>5
    <3>3. QED
      BY <1>4, <2>1, <2>3, <3>1, <3>2 DEF IsStale
  <2>4. RowShowsLatest'
    BY <1>0, <2>1, <2>3 DEF RowShowsLatest
  <2>5. QED
    BY <2>2, <2>4
<1>5. ASSUME ~IsStale(s) PROVE KeyOfOrder' /\ RowShowsLatest'
  <2>1. row' = Opened(s)
    BY <1>5 DEF EnqueueLeadProjection
  <2>2. /\ row'.state = "pending" /\ row'.payload = Merged(s)
        /\ row'.order = (IF OrderOf[s] > 0 THEN OrderOf[s] ELSE row.order)
        /\ row'.key = (IF OrderOf[s] > 0 THEN KeyOf[s] ELSE row.key)
    BY <2>1 DEF Opened
  <2>3. KeyOfOrder'
    <3>1. CASE OrderOf[s] > 0
      BY <2>2, <3>1 DEF KeyOfOrder
    <3>2. CASE ~(OrderOf[s] > 0)
      BY <1>0, <2>2, <3>2 DEF KeyOfOrder
    <3>3. QED
      BY <3>1, <3>2
  <2>4. CASE ~(OrderOf[s] > 0)
    <3>1. row.order = 0
      BY <1>0, <1>1, <1>5, <2>4 DEF IsStale, KeyOfOrder
    <3>2. \A t \in came : ~(OrderOf[t] > 0)
      BY <1>0, <1>1, <3>1 DEF RowShowsLatest
    <3>3. \A t \in came' : ~(OrderOf[t] > 0)
      BY <1>0, <2>4, <3>2
    <3>4. QED
      BY <2>3, <3>3 DEF RowShowsLatest
  <2>5. CASE OrderOf[s] > 0
    <3>1. row'.order = OrderOf[s] /\ OrderOf[s] >= row.order
      BY <1>0, <1>1, <1>5, <2>2, <2>5 DEF IsStale, KeyOfOrder
    <3>2. \A f \in Gives[s] : row'.payload[f] = s /\ s # None
      BY <1>2, <1>3, <2>2, SheetAssumption DEF SheetAssumption
    <3>3. ASSUME NEW t \in came, OrderOf[t] > 0
          PROVE  /\ row'.order >= OrderOf[t]
                 /\ row'.order = OrderOf[t] =>
                       \A f \in Gives[t] : row'.payload[f] # None /\ OrderOf[row'.payload[f]] = row'.order
      <4>1. /\ row.order >= OrderOf[t]
            /\ row.order = OrderOf[t] =>
                  \A f \in Gives[t] : row.payload[f] # None /\ OrderOf[row.payload[f]] = row.order
        BY <1>0, <3>3 DEF RowShowsLatest
      <4>2. t \in Source /\ row'.order >= OrderOf[t]
        BY <1>0, <1>1, <3>1, <4>1
      <4>3. ASSUME row'.order = OrderOf[t], NEW f \in Gives[t]
            PROVE  row'.payload[f] # None /\ OrderOf[row'.payload[f]] = row'.order
        <5>1. row.order = OrderOf[t]
          BY <1>1, <3>1, <4>1, <4>2, <4>3
        <5>2. f \in Field
          BY <4>2, SheetAssumption DEF SheetAssumption
        <5>3. row'.payload[f] = s \/ row'.payload[f] = row.payload[f]
          BY <1>3, <2>2, <5>2
        <5>4. QED
          BY <3>1, <4>1, <4>3, <5>1, <5>3, SheetAssumption DEF SheetAssumption
      <4>4. QED
        BY <4>2, <4>3
    <3>4. RowShowsLatest'
      BY <1>0, <1>1, <3>1, <3>2, <3>3 DEF RowShowsLatest
    <3>5. QED
      BY <2>3, <3>4
  <2>6. QED
    BY <2>4, <2>5
<1>6. QED
  BY <1>4, <1>5

LEMMA OrderStep ==
    ASSUME OneProducerPerOrder
    PROVE  OrderInv /\ [Next]_vars => OrderInv'
<1> SUFFICES ASSUME OrderInv, [Next]_vars PROVE OrderInv'
  OBVIOUS
<1>0. TypeOK /\ TypeOK'
  BY TypeStep DEF OrderInv
<1> DEFINE Kept == KeyOfOrder' /\ RowShowsLatest'
<1>1. ASSUME NEW s \in Source, EnqueueLeadProjection(s) PROVE Kept
  BY <1>1, EnqueueOrder
<1>2. ASSUME NEW f \in Flush, Claim(f) PROVE Kept
  <2>1. Has(row', "leased", row.payload, row.order, row.key, row.attempts + 1, WorkerOf[f], TRUE)
    BY <1>0, <1>2, ClaimFacts
  <2>2. QED
    BY <1>2, <2>1, OrderKept DEF Has, Claim
<1>3. ASSUME NEW f \in Flush, Exhausts(f) PROVE Kept
  <2>1. Has(row', "dead_letter", row.payload, row.order, row.key, row.attempts, None, row.timely)
    BY <1>0, <1>3, ExhaustRow DEF Exhausts
  <2>2. QED
    BY <1>3, <2>1, OrderKept DEF Has, Exhausts
<1>4. ASSUME LeaseRunsOut PROVE Kept
  <2>1. Has(row', row.state, row.payload, row.order, row.key, row.attempts, row.holder, FALSE)
    BY <1>0, <1>4, LeaseRow DEF LeaseRunsOut
  <2>2. QED
    BY <1>4, <2>1, OrderKept DEF Has, LeaseRunsOut
<1>5. ASSUME NEW f \in Flush, Writes(f) \/ Lands(f) \/ WriteFails(f) \/ GivesUp(f) PROVE Kept
  BY <1>5, OrderKept DEF Writes, Lands, WriteFails, GivesUp
<1>6. ASSUME NEW f \in Flush, NEW st \in {"projected", "dead_letter", "failed_retryable"}, Ends(f, st)
      PROVE  Kept
  <2>1. IF Holds(f)
          THEN Has(row', st, row.payload, row.order, row.key, row.attempts, None, FALSE)
          ELSE row' = row
    BY <1>0, <1>6, EndsFacts DEF State
  <2>2. came' = came
    BY <1>6 DEF Ends
  <2>3. CASE Holds(f)
    BY <2>1, <2>2, <2>3, OrderKept DEF Has
  <2>4. CASE ~Holds(f)
    BY <2>1, <2>2, <2>4, OrderKept
  <2>5. QED
    BY <2>3, <2>4
<1>7. ASSUME NEW f \in Flush, Completes(f) \/ Fails(f) PROVE Kept
  BY <1>6, <1>7 DEF Completes, Fails
<1>8. ASSUME LandsLate PROVE Kept
  BY <1>8, OrderKept DEF LandsLate
<1>9. ASSUME UNCHANGED vars PROVE Kept
  BY <1>9, OrderKept DEF vars
<1>10. ASSUME NEW f \in Flush, Flushes(f) PROVE Kept
  BY <1>2, <1>3, <1>5, <1>7, <1>10 DEF Flushes
<1>11. Kept
  BY <1>1, <1>4, <1>8, <1>9, <1>10 DEF Next
<1>12. QED
  BY <1>0, <1>11 DEF OrderInv

\* When a position in the conversation is one producer's, the row shows, in
\* whatever order deliveries are reported, what the latest message says.
THEOREM LatestIsShown == ASSUME OneProducerPerOrder PROVE Spec => []RowShowsLatest
<1>1. OrderInv => RowShowsLatest
  BY DEF OrderInv
<1>2. OrderInv /\ [Next]_vars => OrderInv'
  BY OrderStep
<1>3. QED
  BY OrderInit, <1>1, <1>2, PTL DEF Spec

=============================================================================
