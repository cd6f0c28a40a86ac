----------------------- MODULE ConversationStateProofs -----------------------
(***************************************************************************)
(* Proofs about ConversationState for any finite set of turns and any      *)
(* calls.                                                                  *)
(***************************************************************************)
EXTENDS ConversationState, FiniteSetTheorems, TLAPS

-----------------------------------------------------------------------------
(* The inductive invariant. *)

HistoryInv == IsFiniteSet(history) /\ HistoryIsComplete

\* A turn without a decision has left no trace.
Untouched(t) ==
    decision[t] = NoDecision =>
        /\ delivery[t] = NoDelivery
        /\ ~ sent[t] /\ ~ refused[t]
        /\ \A e \in history : e.turn # t

\* What a decision leaves to the report is on its delivery, meant for a version
\* that was once the state's.
Deferring(t) ==
    decision[t] # NoDecision =>
        /\ delivery[t].state # "none"
        /\ delivery[t].patch.fields = decision[t].fields \cap Deferred
        /\ decision[t].kind = "fallback" => decision[t].fields = {}
        /\ decision[t].kind = "reply" => delivery[t].patch.base > 0
        /\ delivery[t].applied => delivery[t].state = "submitted"

\* Nothing is meant for a version to come.
Behind(t) ==
    /\ delivery[t].patch.base <= row.version
    /\ decision[t].base <= row.version
    /\ \A d \in drafts[t] : d.base <= row.version

\* A turn writes nothing between its commit and the report of its reply.
SilentSinceCommit(t) ==
    decision[t].kind = "reply" /\ delivery[t].state # "submitted" =>
        \A e \in history : e.turn = t => e.version <= delivery[t].patch.base

\* Once turned away, a report is turned away for good, because of another turn
\* or a call.
RefusedFor(t) ==
    refused[t] =>
        /\ decision[t] # NoDecision /\ Awaits(t) /\ Owed(t)
        /\ \E e \in history : e.turn # t /\ e.version > delivery[t].patch.base

InOrder(t) ==
    Untouched(t) /\ Deferring(t) /\ Behind(t) /\ SilentSinceCommit(t) /\ RefusedFor(t)

TurnInv == \A t \in Turn : InOrder(t)

IInv == TypeOK /\ HistoryInv /\ TurnInv

-----------------------------------------------------------------------------
(* The records the code writes. *)

Del(s, p, b) == [state |-> s, patch |-> p, applied |-> b]

LEMMA DelFacts ==
    ASSUME NEW CONSTANT s \in {"none", "leased", "failed_retryable", "submitted"},
           NEW CONSTANT p \in Patch, NEW CONSTANT b \in BOOLEAN
    PROVE  Del(s, p, b) \in Delivery /\ Del(s, p, b).state = s /\ Del(s, p, b).patch = p
           /\ Del(s, p, b).applied = b
BY DEF Del, Delivery

LEMMA DeliveryFacts ==
    ASSUME NEW CONSTANT d \in Delivery
    PROVE  /\ d.state \in {"none", "leased", "failed_retryable", "submitted"}
           /\ d.patch \in Patch /\ d.applied \in BOOLEAN
           /\ d.patch.base \in Nat /\ d.patch.fields \in SUBSET Field
BY DEF Delivery, Patch

LEMMA NoneFacts ==
    /\ NoPatch \in Patch /\ NoPatch.base = 0 /\ NoPatch.fields = {}
    /\ NoDelivery \in Delivery /\ NoDelivery.state = "none" /\ NoDelivery.patch = NoPatch
    /\ ~ NoDelivery.applied
    /\ Fallback \in Draft /\ Fallback.kind = "fallback" /\ Fallback.base = 0 /\ Fallback.fields = {}
    /\ NoDecision.kind = "none" /\ NoDecision.base = 0 /\ NoDecision.fields = {}
    /\ NoDecision \notin Draft
<1>1. NoPatch \in Patch /\ NoPatch.base = 0 /\ NoPatch.fields = {}
  BY DEF NoPatch, Patch
<1>2. PICK b \in BOOLEAN : b = FALSE
  OBVIOUS
<1>3. NoDelivery \in Delivery /\ NoDelivery.state = "none" /\ NoDelivery.patch = NoPatch
      /\ ~ NoDelivery.applied
  <2>1. NoDelivery = Del("none", NoPatch, b)
    BY <1>2 DEF NoDelivery, Del
  <2>2. /\ Del("none", NoPatch, b) \in Delivery /\ Del("none", NoPatch, b).state = "none"
        /\ Del("none", NoPatch, b).patch = NoPatch /\ Del("none", NoPatch, b).applied = b
    BY <1>1, DelFacts
  <2>3. QED
    BY <1>2, <2>1, <2>2
<1>4. Fallback \in Draft /\ Fallback.kind = "fallback" /\ Fallback.base = 0 /\ Fallback.fields = {}
  BY DEF Fallback, Draft
<1>5. NoDecision.kind = "none" /\ NoDecision.base = 0 /\ NoDecision.fields = {} /\ NoDecision \notin Draft
  BY DEF NoDecision, Draft
<1>6. QED
  BY <1>1, <1>3, <1>4, <1>5

LEMMA RowFacts ==
    ASSUME NEW CONSTANT r \in Row
    PROVE  /\ r.version \in Nat \ {0} /\ r.by \in [Field -> Turn \cup Call \cup {None}]
           /\ r.offers \in 0..2 /\ r.fallbacks \in 0..2 /\ r.review \in Turn \cup {None}
BY DEF Row, Writer

Rec(v, by, o, n, w) ==
    [version |-> v, by |-> by, offers |-> o, fallbacks |-> n, review |-> w]

LEMMA PatchedFacts ==
    ASSUME NEW CONSTANT r \in Row, NEW CONSTANT t \in Turn \cup Call, NEW CONSTANT fields,
           NEW CONSTANT fallbacks \in 0..2
    PROVE  /\ Patched(r, t, fields, fallbacks) \in Row
           /\ Patched(r, t, fields, fallbacks).version = r.version + 1
           /\ \A f \in Field : Patched(r, t, fields, fallbacks).by[f] = (IF f \in fields THEN t ELSE r.by[f])
           /\ Patched(r, t, fields, fallbacks).offers =
                (IF "offer" \in fields /\ r.offers < 2 THEN r.offers + 1 ELSE r.offers)
           /\ Patched(r, t, fields, fallbacks).fallbacks = fallbacks
           /\ Patched(r, t, fields, fallbacks).review = r.review
<1> DEFINE by == [f \in Field |-> IF f \in fields THEN t ELSE r.by[f]]
           offers == IF "offer" \in fields /\ r.offers < 2 THEN r.offers + 1 ELSE r.offers
           new == [version |-> r.version + 1, by |-> by, offers |-> offers,
                   fallbacks |-> fallbacks, review |-> r.review]
<1>0. r.version + 1 \in Nat \ {0} /\ r.review \in Turn \cup {None}
  BY RowFacts
<1>1. by \in [Field -> Turn \cup Call \cup {None}]
  BY RowFacts
<1>2. offers \in 0..2 /\ fallbacks \in 0..2
  BY RowFacts
<1>3. Patched(r, t, fields, fallbacks) = new
  <2> DEFINE q1 == [r EXCEPT !.version = @ + 1]
             q2 == [q1 EXCEPT !.by = by]
             q3 == [q2 EXCEPT !.offers = offers]
  <2>1. Patched(r, t, fields, fallbacks) = [q3 EXCEPT !.fallbacks = fallbacks]
    BY DEF Patched
  <2> HIDE DEF by, offers
  <2>2. q1 = Rec(r.version + 1, r.by, r.offers, r.fallbacks, r.review)
    BY DEF Row, Rec
  <2> HIDE DEF q1
  <2>3. q2 = Rec(r.version + 1, by, r.offers, r.fallbacks, r.review)
    BY <2>2 DEF Rec
  <2> HIDE DEF q2
  <2>4. q3 = Rec(r.version + 1, by, offers, r.fallbacks, r.review)
    BY <2>3 DEF Rec
  <2> HIDE DEF q3
  <2>5. QED
    BY <2>1, <2>4 DEF Rec
<1> HIDE DEF by, offers
<1>4. new \in Row /\ new.version = r.version + 1 /\ new.by = by /\ new.offers = offers
      /\ new.fallbacks = fallbacks /\ new.review = r.review
  BY <1>0, <1>1, <1>2 DEF Row, Writer
<1>5. QED
  BY <1>3, <1>4 DEF by, offers

LEMMA FellBackFacts ==
    ASSUME NEW CONSTANT r \in Row, NEW CONSTANT t \in Turn
    PROVE  /\ FellBack(r, t) \in Row
           /\ FellBack(r, t).version = r.version + 1
           /\ FellBack(r, t).by = r.by /\ FellBack(r, t).offers = r.offers
           /\ FellBack(r, t).fallbacks = (IF r.fallbacks = 0 THEN 1 ELSE 2)
           /\ FellBack(r, t).review =
                (IF r.fallbacks > 0 /\ r.review = None THEN t ELSE r.review)
<1> DEFINE fallbacks == IF r.fallbacks = 0 THEN 1 ELSE 2
           review == IF r.fallbacks > 0 /\ r.review = None THEN t ELSE r.review
           new == [version |-> r.version + 1, by |-> r.by, offers |-> r.offers,
                   fallbacks |-> fallbacks, review |-> review]
<1>0. /\ r.version + 1 \in Nat \ {0} /\ r.by \in [Field -> Turn \cup Call \cup {None}] /\ r.offers \in 0..2
      /\ fallbacks \in 0..2 /\ review \in Turn \cup {None}
  BY RowFacts
<1>1. FellBack(r, t) = new
  <2> DEFINE q1 == [r EXCEPT !.version = @ + 1]
             q2 == [q1 EXCEPT !.fallbacks = fallbacks]
  <2>1. FellBack(r, t) = [q2 EXCEPT !.review = review]
    BY DEF FellBack
  <2> HIDE DEF fallbacks, review
  <2>2. q1 = Rec(r.version + 1, r.by, r.offers, r.fallbacks, r.review)
    BY DEF Row, Rec
  <2> HIDE DEF q1
  <2>3. q2 = Rec(r.version + 1, r.by, r.offers, fallbacks, r.review)
    BY <2>2 DEF Rec
  <2> HIDE DEF q2
  <2>4. QED
    BY <2>1, <2>3 DEF Rec
<1> HIDE DEF fallbacks, review
<1>2. new \in Row /\ new.version = r.version + 1 /\ new.by = r.by /\ new.offers = r.offers
      /\ new.fallbacks = fallbacks /\ new.review = review
  BY <1>0 DEF Row, Writer
<1>3. QED
  BY <1>1, <1>2 DEF fallbacks, review

-----------------------------------------------------------------------------
(* What the actions do *)

\* One event more, for the version just written.
Moves(t, write) ==
    row' \in Row /\ row'.version = row.version + 1 /\ history' = Recorded(t, write, row')

Stays == row' = row /\ history' = history

\* Turn t's delivery is set to those values, and no other.
Sets(t, s, p, b) ==
    /\ delivery' \in [Turn -> Delivery]
    /\ delivery'[t].state = s /\ delivery'[t].patch = p /\ delivery'[t].applied = b
    /\ \A u \in Turn : u # t => delivery'[u] = delivery[u]

LEMMA SetsFacts ==
    ASSUME TypeOK, NEW t \in Turn, NEW s \in {"none", "leased", "failed_retryable", "submitted"},
           NEW p \in Patch, NEW b \in BOOLEAN,
           delivery' = [delivery EXCEPT ![t] = Del(s, p, b)]
    PROVE  Sets(t, s, p, b)
<1>1. Del(s, p, b) \in Delivery /\ Del(s, p, b).state = s /\ Del(s, p, b).patch = p /\ Del(s, p, b).applied = b
  BY DelFacts
<1>2. delivery \in [Turn -> Delivery]
  BY DEF TypeOK
<1>3. QED
  BY <1>1, <1>2 DEF Sets

LEMMA CommitReplyFacts ==
    ASSUME TypeOK, NEW t \in Turn, CommitReply(t)
    PROVE  \E d \in Draft :
              /\ d \in drafts[t] /\ d.kind = "reply" /\ d.base = row.version /\ d # NoDecision
              /\ decision[t] = NoDecision /\ decision' = [decision EXCEPT ![t] = d]
              /\ drafts' = [drafts EXCEPT ![t] = {}]
              /\ \/ Stays /\ row.fallbacks = 0
                 \/ /\ Moves(t, "reply")
                    /\ row' = Patched(row, t, AtOnce(d.fields), 0)
              /\ row'.version \in Nat \ {0} /\ d.fields \in SUBSET Field
              /\ Sets(t, "leased", [base |-> row'.version, fields |-> d.fields \cap Deferred], FALSE)
<1>1. PICK d \in drafts[t] :
          /\ d.kind = "reply"
          /\ Current(d)
          /\ decision' = [decision EXCEPT ![t] = d]
          /\ LET writes == Applies(row, AtOnce(d.fields))
                 new == IF writes
                        THEN Patched(row, t, AtOnce(d.fields), 0)
                        ELSE row IN
             /\ row' = new
             /\ history' = IF writes THEN Recorded(t, "reply", new) ELSE history
             /\ delivery' = [delivery EXCEPT ![t] =
                    [state |-> "leased", patch |-> Stored(d, new.version), applied |-> FALSE]]
  BY DEF CommitReply
<1>2. d \in Draft /\ d # NoDecision /\ row \in Row /\ d.fields \in SUBSET Field
  BY NoneFacts DEF TypeOK, Draft
<1> DEFINE writes == Applies(row, AtOnce(d.fields))
           new == Patched(row, t, AtOnce(d.fields), 0)
<1>3. 0 \in 0..2 /\ new \in Row /\ new.version = row.version + 1
  <2>1. 0 \in 0..2 /\ row \in Row
    BY <1>2
  <2>2. ASSUME NEW fs, NEW n \in 0..2
        PROVE  Patched(row, t, fs, n) \in Row /\ Patched(row, t, fs, n).version = row.version + 1
    BY <2>1, PatchedFacts
  <2>3. QED
    BY <2>1, <2>2
<1>4. writes => Moves(t, "reply") /\ row' = new
  BY <1>1, <1>3 DEF Moves
<1>5. \/ Stays /\ row.fallbacks = 0
      \/ Moves(t, "reply") /\ row' = new
  BY <1>1, <1>2, <1>4, RowFacts DEF Applies, Stays
<1>6. row' \in Row /\ row'.version \in Nat \ {0}
  BY <1>2, <1>5, RowFacts DEF Moves, Stays
<1> DEFINE p == [base |-> row'.version, fields |-> d.fields \cap Deferred]
<1>7. p \in Patch /\ "leased" \in {"none", "leased", "failed_retryable", "submitted"} /\ FALSE \in BOOLEAN
  BY <1>2, <1>6 DEF Patch, Field
<1>8. delivery' = [delivery EXCEPT ![t] = Del("leased", p, FALSE)]
  BY <1>1 DEF Stored, OnAcceptance, Del
<1> HIDE DEF p
<1>9. Sets(t, "leased", p, FALSE)
  BY <1>7, <1>8, SetsFacts, Zenon
<1>10. decision[t] = NoDecision /\ drafts' = [drafts EXCEPT ![t] = {}] /\ d.base = row.version
  BY <1>1 DEF CommitReply, Current
<1>11. QED
  BY <1>1, <1>2, <1>5, <1>6, <1>9, <1>10 DEF p

LEMMA CommitFallbackFacts ==
    ASSUME TypeOK, NEW t \in Turn, CommitFallback(t)
    PROVE  /\ decision[t] = NoDecision /\ decision' = [decision EXCEPT ![t] = Fallback]
           /\ drafts' = [drafts EXCEPT ![t] = {}]
           /\ Moves(t, "fallback") /\ row' = FellBack(row, t)
           /\ Sets(t, "leased", NoPatch, FALSE)
<1>1. row \in Row /\ row' = FellBack(row, t) /\ history' = Recorded(t, "fallback", row')
  BY DEF TypeOK, CommitFallback
<1>2. Moves(t, "fallback")
  BY <1>1, FellBackFacts DEF Moves
<1>3. /\ "leased" \in {"none", "leased", "failed_retryable", "submitted"} /\ FALSE \in BOOLEAN
      /\ NoPatch \in Patch
  BY NoneFacts
<1>4. delivery' = [delivery EXCEPT ![t] = Del("leased", NoPatch, FALSE)]
  BY DEF CommitFallback, Del
<1>5. Sets(t, "leased", NoPatch, FALSE)
  BY <1>3, <1>4, SetsFacts, Zenon
<1>6. QED
  BY <1>1, <1>2, <1>5 DEF CommitFallback

LEMMA OwedFacts ==
    ASSUME TypeOK, NEW t \in Turn
    PROVE  /\ delivery[t] \in Delivery /\ Owed(t) \in BOOLEAN
           /\ delivery[t].patch \in Patch /\ delivery[t].patch.base \in Nat
           /\ delivery[t].patch.fields \in SUBSET Field
           /\ delivery[t].state \in {"none", "leased", "failed_retryable", "submitted"}
<1>1. delivery[t] \in Delivery
  BY DEF TypeOK
<1>2. QED
  BY <1>1, DeliveryFacts DEF Owed

LEMMA ReportSubmittedFacts ==
    ASSUME TypeOK, NEW t \in Turn, ReportSubmitted(t)
    PROVE  /\ Sets(t, "submitted", delivery[t].patch, Owed(t))
           /\ ~ Owed(t) => Stays
           /\ Owed(t) => /\ Moves(t, "accepted")
                         /\ delivery[t].patch.base = row.version
                         /\ row' = Patched(row, t, delivery[t].patch.fields, row.fallbacks)
<1>1. /\ "submitted" \in {"none", "leased", "failed_retryable", "submitted"} /\ Owed(t) \in BOOLEAN
      /\ delivery[t].patch \in Patch
  BY OwedFacts
<1>2. delivery' = [delivery EXCEPT ![t] = Del("submitted", delivery[t].patch, Owed(t))]
  BY DEF ReportSubmitted, TypeOK, Del
<1>3. Sets(t, "submitted", delivery[t].patch, Owed(t))
  BY <1>1, <1>2, SetsFacts, Zenon
<1>4. ~ Owed(t) => Stays
  BY DEF ReportSubmitted, Stays
<1>5. ASSUME Owed(t)
      PROVE  /\ Moves(t, "accepted") /\ delivery[t].patch.base = row.version
             /\ row' = Patched(row, t, delivery[t].patch.fields, row.fallbacks)
  <2>1. /\ delivery[t].patch.base = row.version
        /\ row' = Patched(row, t, delivery[t].patch.fields, row.fallbacks)
        /\ history' = Recorded(t, "accepted", row')
    BY <1>5 DEF ReportSubmitted, Current
  <2>2. row \in Row /\ row.fallbacks \in 0..2
    BY RowFacts DEF TypeOK
  <2>3. row' \in Row /\ row'.version = row.version + 1
    BY <2>1, <2>2, PatchedFacts
  <2>4. QED
    BY <2>1, <2>3 DEF Moves
<1>6. QED
  BY <1>3, <1>4, <1>5

LEMMA FailSet ==
    ASSUME NEW CONSTANT d \in Delivery
    PROVE  [d EXCEPT !.state = "failed_retryable"] = Del("failed_retryable", d.patch, d.applied)
BY DEF Delivery, Del

LEMMA ReportFailedFacts ==
    ASSUME TypeOK, NEW t \in Turn, ReportFailed(t)
    PROVE  Sets(t, "failed_retryable", delivery[t].patch, delivery[t].applied)
<1>1. /\ "failed_retryable" \in {"none", "leased", "failed_retryable", "submitted"}
      /\ delivery[t] \in Delivery /\ delivery[t].patch \in Patch /\ delivery[t].applied \in BOOLEAN
  BY OwedFacts, DeliveryFacts
<1>2. delivery' = [delivery EXCEPT ![t] = Del("failed_retryable", delivery[t].patch, delivery[t].applied)]
  <2>1. delivery' = [delivery EXCEPT ![t] = [delivery[t] EXCEPT !.state = "failed_retryable"]]
    BY DEF ReportFailed
  <2>2. QED
    BY <1>1, <2>1, FailSet, Zenon
<1>3. QED
  BY <1>1, <1>2, SetsFacts

\* A call's link leaves everything but the row and its history alone.
TurnsLeft == UNCHANGED <<drafts, decision, delivery, sent, refused>>

LEMMA LinkFacts ==
    ASSUME TypeOK, NEW c \in Call, RecordLink(c)
    PROVE  /\ c \in linked /\ linked' = linked /\ TurnsLeft
           /\ Moves(c, "link") /\ row' = Patched(row, c, Linking, row.fallbacks)
<1>1. row \in Row /\ row.fallbacks \in 0..2
  BY RowFacts DEF TypeOK
<1>2. /\ row' = Patched(row, c, Linking, row.fallbacks) /\ history' = Recorded(c, "link", row')
      /\ c \in linked /\ linked' = linked /\ TurnsLeft
  BY DEF RecordLink, TurnsLeft
<1>3. row' \in Row /\ row'.version = row.version + 1
  BY <1>1, <1>2, PatchedFacts
<1>4. QED
  BY <1>2, <1>3 DEF Moves

LEMMA SendLinkFacts ==
    ASSUME NEW c \in Call, SendLink(c)
    PROVE  linked' = linked \cup {c} /\ TurnsLeft /\ Stays
BY DEF SendLink, TurnsLeft, Stays

\* What a step makes of the row and the history.
LEMMA StaysOrMoves ==
    ASSUME TypeOK, [Next]_vars
    PROVE  Stays \/ \E u \in Turn \cup Call, write \in {"reply", "fallback", "accepted", "link"} : Moves(u, write)
<1>1. ASSUME NEW t \in Turn, CommitReply(t)
      PROVE  Stays \/ \E u \in Turn \cup Call, write \in {"reply", "fallback", "accepted", "link"} : Moves(u, write)
  BY <1>1, CommitReplyFacts
<1>2. ASSUME NEW t \in Turn, CommitFallback(t)
      PROVE  \E u \in Turn \cup Call, write \in {"reply", "fallback", "accepted", "link"} : Moves(u, write)
  BY <1>2, CommitFallbackFacts
<1>3. ASSUME NEW t \in Turn, ReportSubmitted(t)
      PROVE  Stays \/ \E u \in Turn \cup Call, write \in {"reply", "fallback", "accepted", "link"} : Moves(u, write)
  BY <1>3, ReportSubmittedFacts
<1>4. ASSUME NEW t \in Turn, Think(t) \/ Send(t) \/ ReportRefused(t) \/ ReportFailed(t)
      PROVE  Stays
  BY <1>4 DEF Think, Send, ReportRefused, ReportFailed, Stays
<1>5. ASSUME UNCHANGED vars PROVE Stays
  BY <1>5 DEF vars, Stays
<1>6. ASSUME NEW c \in Call, SendLink(c) \/ RecordLink(c)
      PROVE  Stays \/ \E u \in Turn \cup Call, write \in {"reply", "fallback", "accepted", "link"} :
                         Moves(u, write)
  BY <1>6, LinkFacts, SendLinkFacts
<1>7. QED
  BY <1>1, <1>2, <1>3, <1>4, <1>5, <1>6 DEF Next

-----------------------------------------------------------------------------
(* Types *)

LEMMA TypeInit == Init => TypeOK
<1> SUFFICES ASSUME Init PROVE TypeOK
  OBVIOUS
<1>1. row \in Row
  BY DEF Init, Row
<1>2. NoDelivery \in Delivery
  BY NoneFacts
<1>3. QED
  BY <1>1, <1>2 DEF Init, TypeOK

LEMMA RecordedType ==
    ASSUME TypeOK, NEW t \in Turn \cup Call, NEW write \in {"reply", "fallback", "accepted", "link"},
           Moves(t, write)
    PROVE  history' \subseteq Event
<1>1. [version |-> row'.version, turn |-> t, write |-> write, row |-> row'] \in Event
  BY DEF Moves, Event, Row, Writer
<1>2. QED
  BY <1>1 DEF TypeOK, Moves, Recorded

LEMMA TypeStep == TypeOK /\ [Next]_vars => TypeOK'
<1> SUFFICES ASSUME TypeOK, [Next]_vars PROVE TypeOK'
  OBVIOUS
<1>1. row' \in Row /\ history' \subseteq Event
  BY StaysOrMoves, RecordedType DEF TypeOK, Stays, Moves
<1>2. ASSUME NEW t \in Turn, Think(t) PROVE TypeOK'
  <2>1. \A fs \in SUBSET Field : Reply(row.version, fs) \in Draft
    BY RowFacts DEF TypeOK, Reply, Draft
  <2>2. drafts' \in [Turn -> SUBSET Draft]
    BY <1>2, <2>1, NoneFacts DEF Think, TypeOK
  <2>3. QED
    BY <1>1, <1>2, <2>2 DEF Think, TypeOK
<1>3. ASSUME NEW t \in Turn, CommitReply(t) PROVE TypeOK'
  <2>1. delivery' \in [Turn -> Delivery] /\ decision' \in [Turn -> Draft \cup {NoDecision}]
        /\ drafts' \in [Turn -> SUBSET Draft]
    <3>1. PICK d \in Draft :
              /\ decision' = [decision EXCEPT ![t] = d] /\ drafts' = [drafts EXCEPT ![t] = {}]
              /\ delivery' \in [Turn -> Delivery]
      BY <1>3, CommitReplyFacts DEF Sets
    <3>2. QED
      BY <3>1 DEF TypeOK
  <2>2. QED
    BY <1>1, <1>3, <2>1 DEF TypeOK, CommitReply
<1>4. ASSUME NEW t \in Turn, CommitFallback(t) PROVE TypeOK'
  <2>1. delivery' \in [Turn -> Delivery] /\ decision' \in [Turn -> Draft \cup {NoDecision}]
        /\ drafts' \in [Turn -> SUBSET Draft]
    BY <1>4, CommitFallbackFacts, NoneFacts DEF TypeOK, Sets
  <2>2. QED
    BY <1>1, <1>4, <2>1 DEF TypeOK, CommitFallback
<1>5. ASSUME NEW t \in Turn, ReportSubmitted(t) PROVE TypeOK'
  <2>1. delivery' \in [Turn -> Delivery]
    BY <1>5, ReportSubmittedFacts DEF Sets
  <2>2. QED
    BY <1>1, <1>5, <2>1 DEF TypeOK, ReportSubmitted
<1>6. ASSUME NEW t \in Turn, ReportFailed(t) PROVE TypeOK'
  <2>1. delivery' \in [Turn -> Delivery]
    BY <1>6, ReportFailedFacts DEF Sets
  <2>2. QED
    BY <1>1, <1>6, <2>1 DEF TypeOK, ReportFailed
<1>7. ASSUME NEW t \in Turn, Send(t) \/ ReportRefused(t) PROVE TypeOK'
  BY <1>1, <1>7 DEF TypeOK, Send, ReportRefused
<1>8. ASSUME NEW c \in Call, SendLink(c) \/ RecordLink(c) PROVE TypeOK'
  BY <1>1, <1>8, LinkFacts, SendLinkFacts DEF TypeOK, TurnsLeft
<1>9. ASSUME UNCHANGED vars PROVE TypeOK'
  BY <1>9 DEF TypeOK, vars
<1>10. QED
  BY <1>2, <1>3, <1>4, <1>5, <1>6, <1>7, <1>8, <1>9 DEF Next

-----------------------------------------------------------------------------
(* The history *)

LEMMA HistoryInit == Init => HistoryInv
<1> SUFFICES ASSUME Init PROVE HistoryInv
  OBVIOUS
<1>1. history = {} /\ row.version = 1
  BY DEF Init
<1>2. {e.version : e \in history} = {} /\ 2..row.version = {}
  BY <1>1
<1>3. QED
  BY <1>1, <1>2, FS_EmptySet DEF HistoryInv, HistoryIsComplete

LEMMA EventVersions ==
    ASSUME TypeOK, HistoryInv
    PROVE  /\ row.version \in Nat \ {0}
           /\ \A e \in history : e.version \in 2..row.version
           /\ row.version > 1 => \E e \in history : e.version = row.version
<1>1. row.version \in Nat \ {0}
  BY RowFacts DEF TypeOK
<1>2. {e.version : e \in history} = 2..row.version
  BY DEF HistoryInv, HistoryIsComplete
<1>3. QED
  BY <1>1, <1>2

\* Every write comes into the history: no event of its version is there yet.
LEMMA Grows ==
    ASSUME TypeOK, HistoryInv, NEW t \in Turn \cup Call,
           NEW write \in {"reply", "fallback", "accepted", "link"},
           Moves(t, write)
    PROVE  \E ev \in Event :
              /\ ev.version = row'.version /\ ev.turn = t /\ ev.write = write /\ ev.row = row'
              /\ ev \notin history /\ history' = history \cup {ev}
<1> DEFINE ev == [version |-> row'.version, turn |-> t, write |-> write, row |-> row']
<1>1. ev \in Event
  BY DEF Moves, Event, Row, Writer
<1>2. \A e \in history : e.version # row'.version
  BY EventVersions DEF Moves
<1>3. history' = history \cup {ev}
  BY <1>2 DEF Moves, Recorded
<1>4. QED
  BY <1>1, <1>2, <1>3

LEMMA HistoryStep == TypeOK /\ HistoryInv /\ [Next]_vars => HistoryInv'
<1> SUFFICES ASSUME TypeOK, HistoryInv, [Next]_vars PROVE HistoryInv'
  OBVIOUS
<1>1. ASSUME Stays PROVE HistoryInv'
  BY <1>1 DEF Stays, HistoryInv, HistoryIsComplete
<1>2. ASSUME NEW t \in Turn \cup Call, NEW write \in {"reply", "fallback", "accepted", "link"}, Moves(t, write)
      PROVE  HistoryInv'
  <2>1. PICK ev \in Event :
              /\ ev.version = row'.version /\ ev.turn = t /\ ev.write = write /\ ev.row = row'
              /\ ev \notin history /\ history' = history \cup {ev}
    BY <1>2, Grows
  <2>2. row.version \in Nat \ {0} /\ row'.version = row.version + 1
    BY <1>2, EventVersions DEF Moves
  <2>3. IsFiniteSet(history') /\ Cardinality(history') = Cardinality(history) + 1
    BY <2>1, FS_AddElement DEF HistoryInv
  <2>4. Cardinality(history') = row'.version - 1
    BY <2>2, <2>3 DEF HistoryInv, HistoryIsComplete
  <2>5. {e.version : e \in history'} = 2..row'.version
    <3>1. {e.version : e \in history'} = {e.version : e \in history} \cup {row'.version}
      BY <2>1
    <3>2. {e.version : e \in history} = 2..row.version
      BY DEF HistoryInv, HistoryIsComplete
    <3>3. 2..row'.version = (2..row.version) \cup {row'.version}
      BY <2>2
    <3>4. QED
      BY <3>1, <3>2, <3>3
  <2>6. \A e \in history' : e.version = row'.version => e.row = row'
    BY <2>1, <2>2, EventVersions
  <2>7. QED
    BY <2>3, <2>4, <2>5, <2>6 DEF HistoryInv, HistoryIsComplete
<1>3. QED
  BY <1>1, <1>2, StaysOrMoves

-----------------------------------------------------------------------------
(* Each turn, as the others go on *)

LEMMA TurnInit == Init => TurnInv
<1> SUFFICES ASSUME Init, NEW t \in Turn PROVE InOrder(t)
  BY DEF TurnInv
<1>1. /\ decision[t] = NoDecision /\ delivery[t] = NoDelivery /\ ~ sent[t] /\ ~ refused[t]
      /\ history = {} /\ drafts[t] = {} /\ row.version = 1
  BY DEF Init
<1>2. QED
  BY <1>1, NoneFacts DEF InOrder, Untouched, Deferring, Behind, SilentSinceCommit, RefusedFor

\* What a turn or a call does leaves the others in order.
LEMMA OthersInOrder ==
    ASSUME IInv, NEW t \in Turn, InOrder(t), NEW u \in Turn \cup Call, u # t,
           decision'[t] = decision[t], delivery'[t] = delivery[t], drafts'[t] = drafts[t],
           sent'[t] = sent[t], refused'[t] = refused[t],
           Stays \/ \E write \in {"reply", "fallback", "accepted", "link"} : Moves(u, write)
    PROVE  InOrder(t)'
<1>0. /\ delivery[t].patch.base \in Nat /\ decision[t].base \in Nat /\ row.version \in Nat
      /\ \A d \in drafts[t] : d.base \in Nat
  BY OwedFacts, EventVersions, NoneFacts DEF IInv, TypeOK, Draft
<1>1. /\ history \subseteq history' /\ \A e \in history' : e \in history \/ e.turn = u
      /\ row'.version >= row.version /\ row'.version \in Nat
  <2>1. CASE Stays
    BY <1>0, <2>1 DEF Stays
  <2>2. ASSUME NEW write \in {"reply", "fallback", "accepted", "link"}, Moves(u, write)
        PROVE  /\ history \subseteq history' /\ \A e \in history' : e \in history \/ e.turn = u
               /\ row'.version >= row.version /\ row'.version \in Nat
    BY <1>0, <2>2, Grows DEF Moves, IInv
  <2>3. QED
    BY <2>1, <2>2
<1>2. Untouched(t)'
  BY <1>1 DEF InOrder, Untouched
<1>3. Deferring(t)'
  BY DEF InOrder, Deferring
<1>4. Behind(t)'
  BY <1>0, <1>1 DEF InOrder, Behind
<1>5. SilentSinceCommit(t)'
  BY <1>1 DEF InOrder, SilentSinceCommit
<1>6. RefusedFor(t)'
  BY <1>1 DEF InOrder, RefusedFor, Awaits, Owed
<1>7. QED
  BY <1>2, <1>3, <1>4, <1>5, <1>6 DEF InOrder

\* A delivery there is belongs to a turn that was decided.
LEMMA IsDecided ==
    ASSUME IInv, NEW t \in Turn, delivery[t].state # "none" \/ sent[t]
    PROVE  decision[t] # NoDecision /\ decision[t] \in Draft
BY NoneFacts DEF IInv, TurnInv, InOrder, Untouched, TypeOK

LEMMA ThinkInOrder ==
    ASSUME IInv, NEW t \in Turn, Think(t) PROVE InOrder(t)'
<1>1. /\ decision[t] = NoDecision /\ row' = row /\ history' = history
      /\ decision' = decision /\ delivery' = delivery /\ sent' = sent /\ refused' = refused
  BY DEF Think
<1>2. \A d \in drafts'[t] : d \in drafts[t] \/ d.base = row.version \/ d.base = 0
  BY NoneFacts DEF Think, IInv, TypeOK, Reply
<1>3. Behind(t)'
  BY <1>1, <1>2, EventVersions DEF Behind, IInv, TurnInv, InOrder
<1>4. QED
  BY <1>1, <1>3 DEF IInv, TurnInv, InOrder, Untouched, Deferring, SilentSinceCommit, RefusedFor, Awaits, Owed

LEMMA CommitReplyInOrder ==
    ASSUME IInv, NEW t \in Turn, CommitReply(t) PROVE InOrder(t)'
<1>1. PICK d \in Draft :
          /\ d \in drafts[t] /\ d.kind = "reply" /\ d.base = row.version /\ d # NoDecision
          /\ decision[t] = NoDecision /\ decision' = [decision EXCEPT ![t] = d]
          /\ drafts' = [drafts EXCEPT ![t] = {}]
          /\ Stays \/ Moves(t, "reply")
          /\ row'.version \in Nat \ {0}
          /\ Sets(t, "leased", [base |-> row'.version, fields |-> d.fields \cap Deferred], FALSE)
  BY CommitReplyFacts DEF IInv
<1>2. decision'[t] = d /\ drafts'[t] = {}
  BY <1>1 DEF IInv, TypeOK
<1>3. /\ delivery'[t].state = "leased" /\ ~ delivery'[t].applied
      /\ delivery'[t].patch.base = row'.version /\ delivery'[t].patch.fields = d.fields \cap Deferred
  BY <1>1 DEF Sets
<1>4. /\ ~ refused'[t] /\ \A e \in history : e.turn # t
  BY <1>1 DEF CommitReply, IInv, TurnInv, InOrder, Untouched
<1>5. row.version <= row'.version
  BY <1>1, EventVersions DEF Stays, Moves, IInv
<1>6. \A e \in history' : e.turn = t => e.version <= row'.version
  <2>1. CASE Stays
    BY <1>4, <2>1 DEF Stays
  <2>2. CASE Moves(t, "reply")
    <3>1. PICK ev \in Event : ev.version = row'.version /\ history' = history \cup {ev}
      BY <2>2, Grows DEF IInv
    <3>2. QED
      BY <1>1, <1>4, <3>1
  <2>3. QED
    BY <1>1, <2>1, <2>2
<1>7. Untouched(t)' /\ RefusedFor(t)'
  BY <1>1, <1>2, <1>4 DEF Untouched, RefusedFor
<1>8. Deferring(t)'
  BY <1>1, <1>2, <1>3 DEF Deferring
<1>9. Behind(t)'
  BY <1>1, <1>2, <1>3, <1>5 DEF Behind
<1>10. SilentSinceCommit(t)'
  BY <1>3, <1>6 DEF SilentSinceCommit
<1>11. QED
  BY <1>7, <1>8, <1>9, <1>10 DEF InOrder

LEMMA CommitFallbackInOrder ==
    ASSUME IInv, NEW t \in Turn, CommitFallback(t) PROVE InOrder(t)'
<1>1. /\ decision[t] = NoDecision /\ decision' = [decision EXCEPT ![t] = Fallback]
      /\ drafts' = [drafts EXCEPT ![t] = {}]
      /\ Moves(t, "fallback") /\ Sets(t, "leased", NoPatch, FALSE)
  BY CommitFallbackFacts DEF IInv
<1>2. decision'[t] = Fallback /\ drafts'[t] = {} /\ Fallback # NoDecision
  BY <1>1, NoneFacts DEF IInv, TypeOK
<1>3. /\ delivery'[t].state = "leased" /\ ~ delivery'[t].applied /\ delivery'[t].patch = NoPatch
  BY <1>1 DEF Sets
<1>4. ~ refused'[t]
  BY <1>1 DEF CommitFallback, IInv, TurnInv, InOrder, Untouched
<1>5. row'.version \in Nat
  BY <1>1, EventVersions DEF Moves, IInv
<1>6. QED
  BY <1>2, <1>3, <1>4, <1>5, NoneFacts
     DEF InOrder, Untouched, Deferring, Behind, SilentSinceCommit, RefusedFor

LEMMA SubmittedInOrder ==
    ASSUME IInv, NEW t \in Turn, ReportSubmitted(t) PROVE InOrder(t)'
<1>1. /\ Sets(t, "submitted", delivery[t].patch, Owed(t))
      /\ ~ Owed(t) => Stays
      /\ Owed(t) => Moves(t, "accepted") /\ delivery[t].patch.base = row.version
  BY ReportSubmittedFacts DEF IInv
<1>2. /\ decision[t] # NoDecision /\ decision' = decision /\ drafts' = drafts /\ refused' = refused
  BY IsDecided DEF ReportSubmitted
<1>3. delivery'[t].state = "submitted" /\ delivery'[t].patch = delivery[t].patch
  BY <1>1 DEF Sets
<1>4. /\ row.version \in Nat /\ row'.version \in Nat /\ row.version <= row'.version
      /\ decision[t].base \in Nat /\ delivery[t].patch.base \in Nat /\ \A d \in drafts[t] : d.base \in Nat
  BY <1>1, EventVersions, OwedFacts, NoneFacts DEF Stays, Moves, IInv, TypeOK, Draft
<1>5. ~ refused[t]
  <2>1. SUFFICES ASSUME refused[t] PROVE FALSE
    OBVIOUS
  <2>2. Owed(t) /\ \E e \in history : e.version > delivery[t].patch.base
    BY <2>1 DEF IInv, TurnInv, InOrder, RefusedFor
  <2>3. QED
    BY <1>1, <1>4, <2>2, EventVersions DEF IInv
<1>6. Behind(t)'
  BY <1>2, <1>3, <1>4 DEF Behind, IInv, TurnInv, InOrder
<1>7. QED
  BY <1>2, <1>3, <1>5, <1>6
     DEF IInv, TurnInv, InOrder, Untouched, Deferring, SilentSinceCommit, RefusedFor

LEMMA RefusedInOrder ==
    ASSUME IInv, NEW t \in Turn, ReportRefused(t) PROVE InOrder(t)'
<1>1. /\ UNCHANGED <<row, history, drafts, decision, delivery, sent>> /\ refused'[t]
      /\ Awaits(t) /\ Owed(t) /\ delivery[t].patch.base # row.version
  BY DEF ReportRefused, Current, IInv, TypeOK
<1>2. decision[t] # NoDecision /\ decision[t] \in Draft
  BY IsDecided DEF ReportRefused
<1>3. decision[t].kind = "reply" /\ delivery[t].patch.base > 0
  BY <1>1, <1>2 DEF IInv, TurnInv, InOrder, Deferring, Owed, Draft
<1>4. delivery[t].patch.base < row.version /\ row.version > 1
  BY <1>1, <1>3, OwedFacts, EventVersions DEF IInv, TurnInv, InOrder, Behind
<1>5. PICK e \in history : e.version = row.version
  BY <1>4, EventVersions DEF IInv
<1>6. delivery[t].state # "submitted"
  BY <1>1 DEF Awaits
<1>7. e.turn # t /\ e.version > delivery[t].patch.base
  BY <1>3, <1>4, <1>5, <1>6, OwedFacts, EventVersions DEF IInv, TurnInv, InOrder, SilentSinceCommit
<1>8. RefusedFor(t)'
  BY <1>1, <1>2, <1>7 DEF RefusedFor, Awaits, Owed
<1>9. QED
  BY <1>1, <1>2, <1>8 DEF IInv, TurnInv, InOrder, Untouched, Deferring, Behind, SilentSinceCommit

LEMMA FailedInOrder ==
    ASSUME IInv, NEW t \in Turn, ReportFailed(t) PROVE InOrder(t)'
<1>1. /\ delivery[t].state = "leased" /\ UNCHANGED <<row, history, drafts, decision, sent, refused>>
      /\ Sets(t, "failed_retryable", delivery[t].patch, delivery[t].applied)
  BY ReportFailedFacts DEF ReportFailed, IInv
<1>2. /\ delivery'[t].state = "failed_retryable" /\ delivery'[t].patch = delivery[t].patch
      /\ delivery'[t].applied = delivery[t].applied
  BY <1>1 DEF Sets
<1>3. decision[t] # NoDecision
  BY <1>1, IsDecided
<1>4. QED
  BY <1>1, <1>2, <1>3
     DEF IInv, TurnInv, InOrder, Untouched, Deferring, Behind, SilentSinceCommit, RefusedFor, Awaits, Owed

LEMMA SendInOrder ==
    ASSUME IInv, NEW t \in Turn, Send(t) PROVE InOrder(t)'
<1>1. delivery[t].state # "none" /\ UNCHANGED <<row, history, drafts, decision, delivery, refused>>
  BY DEF Send
<1>2. decision[t] # NoDecision
  BY <1>1, IsDecided
<1>3. QED
  BY <1>1, <1>2
     DEF IInv, TurnInv, InOrder, Untouched, Deferring, Behind, SilentSinceCommit, RefusedFor, Awaits, Owed

\* An action of turn t.
Acts(t) ==
    \/ Think(t) \/ CommitReply(t) \/ CommitFallback(t)
    \/ Send(t) \/ ReportSubmitted(t) \/ ReportRefused(t) \/ ReportFailed(t)

LEMMA ActsOnItsOwn ==
    ASSUME IInv, NEW u \in Turn, Acts(u), NEW t \in Turn, u # t
    PROVE  /\ decision'[t] = decision[t] /\ delivery'[t] = delivery[t] /\ drafts'[t] = drafts[t]
           /\ sent'[t] = sent[t] /\ refused'[t] = refused[t]
           /\ Stays \/ \E write \in {"reply", "fallback", "accepted", "link"} : Moves(u, write)
<1> DEFINE Own == /\ decision'[t] = decision[t] /\ delivery'[t] = delivery[t] /\ drafts'[t] = drafts[t]
                  /\ sent'[t] = sent[t] /\ refused'[t] = refused[t]
                  /\ Stays \/ \E write \in {"reply", "fallback", "accepted", "link"} : Moves(u, write)
<1>0. TypeOK
  BY DEF IInv
<1>1. ASSUME Think(u) PROVE Own
  BY <1>0, <1>1 DEF Think, TypeOK, Stays
<1>2. ASSUME CommitReply(u) PROVE Own
  <2>1. PICK d \in Draft :
            /\ decision' = [decision EXCEPT ![u] = d] /\ drafts' = [drafts EXCEPT ![u] = {}]
            /\ Stays \/ Moves(u, "reply")
            /\ delivery'[t] = delivery[t]
    BY <1>0, <1>2, CommitReplyFacts DEF Sets
  <2>2. QED
    BY <1>0, <1>2, <2>1 DEF CommitReply, TypeOK
<1>3. ASSUME CommitFallback(u) PROVE Own
  <2>1. Moves(u, "fallback") /\ delivery'[t] = delivery[t]
    BY <1>0, <1>3, CommitFallbackFacts DEF Sets
  <2>2. QED
    BY <1>0, <1>3, <2>1 DEF CommitFallback, TypeOK
<1>4. ASSUME ReportSubmitted(u) PROVE Own
  <2>1. delivery'[t] = delivery[t] /\ (Stays \/ Moves(u, "accepted"))
    BY <1>0, <1>4, ReportSubmittedFacts DEF Sets
  <2>2. QED
    BY <1>0, <1>4, <2>1 DEF ReportSubmitted, TypeOK
<1>5. ASSUME Send(u) \/ ReportRefused(u) PROVE Own
  BY <1>0, <1>5 DEF Send, ReportRefused, TypeOK, Stays
<1>6. ASSUME ReportFailed(u) PROVE Own
  BY <1>0, <1>6 DEF ReportFailed, TypeOK, Stays
<1>7. QED
  BY <1>1, <1>2, <1>3, <1>4, <1>5, <1>6 DEF Acts

LEMMA TurnStep == IInv /\ [Next]_vars => TurnInv'
<1> SUFFICES ASSUME IInv, [Next]_vars, NEW t \in Turn PROVE InOrder(t)'
  BY DEF TurnInv
<1>1. InOrder(t)
  BY DEF IInv, TurnInv
<1>2. ASSUME Acts(t) PROVE InOrder(t)'
  BY <1>2, ThinkInOrder, CommitReplyInOrder, CommitFallbackInOrder, SendInOrder, SubmittedInOrder,
     RefusedInOrder, FailedInOrder DEF Acts
<1>3. ASSUME NEW u \in Turn, u # t, Acts(u) PROVE InOrder(t)'
  BY <1>1, <1>3, ActsOnItsOwn, OthersInOrder
<1>4. ASSUME UNCHANGED vars PROVE InOrder(t)'
  BY <1>1, <1>4
     DEF vars, InOrder, Untouched, Deferring, Behind, SilentSinceCommit, RefusedFor, Awaits, Owed
<1>5. ASSUME NEW c \in Call, SendLink(c) \/ RecordLink(c) PROVE InOrder(t)'
  <2>1. c # t
    BY ConversationAssumption DEF ConversationAssumption
  <2>2. TurnsLeft /\ (Stays \/ Moves(c, "link"))
    BY <1>5, LinkFacts, SendLinkFacts DEF IInv
  <2>3. QED
    BY <1>1, <2>1, <2>2, OthersInOrder DEF TurnsLeft
<1>6. QED
  BY <1>2, <1>3, <1>4, <1>5 DEF Next, Acts

\* The invariant that the properties below rest on.
THEOREM Inductive == Spec => []IInv
<1>1. Init => IInv
  BY TypeInit, HistoryInit, TurnInit DEF IInv
<1>2. IInv /\ [Next]_vars => IInv'
  BY TypeStep, HistoryStep, TurnStep DEF IInv
<1>3. QED
  BY <1>1, <1>2, PTL DEF Spec

\* The state, its history, the decisions and the deliveries stay in their types.
THEOREM TypeCorrect == Spec => []TypeOK
<1>1. IInv => TypeOK
  BY DEF IInv
<1>2. QED
  BY <1>1, Inductive, PTL

\* Both writes of a turn, at its commit and at its acceptance, come into the
\* history, whatever the other turns write in between.
THEOREM NothingWrittenIsLost == Spec => []HistoryIsComplete
<1>1. IInv => HistoryIsComplete
  BY DEF IInv, HistoryInv
<1>2. QED
  BY <1>1, Inductive, PTL

\* A true report of a reply is turned away only because another turn, or the
\* link of a call, wrote after this one's commit, and then for good.
THEOREM RefusedByAnother == Spec => []RefusedOnlyIfMoved
<1>1. IInv => RefusedOnlyIfMoved
  BY DEF IInv, TurnInv, InOrder, RefusedFor, Awaits, RefusedOnlyIfMoved
<1>2. QED
  BY <1>1, Inductive, PTL

-----------------------------------------------------------------------------
(* What the customer was shown *)

Offered == {t \in Turn : delivery[t].state = "submitted" /\ "offer" \in decision[t].fields}

SaidWasShown == \A f \in Deferred : row.by[f] \in Shown \cup {None}

OffersCounted ==
    row.offers = IF Cardinality(Offered) > 2 THEN 2 ELSE Cardinality(Offered)

LEMMA SaidParts == NothingSaidIsAssumed <=> SaidWasShown /\ OffersCounted
BY DEF NothingSaidIsAssumed, SaidWasShown, OffersCounted, Offered

LEMMA SaidPartsNext == NothingSaidIsAssumed' <=> SaidWasShown' /\ OffersCounted'
BY DEF NothingSaidIsAssumed, SaidWasShown, OffersCounted, Offered

\* A step that leaves what was said, and takes no submission back.
LEMMA SaidKept ==
    ASSUME TypeOK, SaidWasShown, OffersCounted,
           \A f \in Deferred : row'.by[f] = row.by[f], row'.offers = row.offers,
           linked \subseteq linked',
           \A t \in Turn : /\ delivery'[t].state = "submitted" <=> delivery[t].state = "submitted"
                           /\ delivery[t].state = "submitted" => decision'[t] = decision[t]
    PROVE  SaidWasShown' /\ OffersCounted'
<1>1. SaidWasShown'
  BY DEF SaidWasShown, Shown
<1>2. Offered' = Offered
  BY DEF Offered
<1>3. QED
  BY <1>1, <1>2 DEF OffersCounted

LEMMA SubmittedSays ==
    ASSUME IInv, SaidWasShown, OffersCounted, NEW t \in Turn, ReportSubmitted(t)
    PROVE  SaidWasShown' /\ OffersCounted'
<1>0. TypeOK /\ InOrder(t) /\ Awaits(t)
  BY DEF IInv, TurnInv, ReportSubmitted
<1>1. /\ Sets(t, "submitted", delivery[t].patch, Owed(t))
      /\ ~ Owed(t) => Stays
      /\ Owed(t) => row' = Patched(row, t, delivery[t].patch.fields, row.fallbacks)
  BY <1>0, ReportSubmittedFacts
<1>2. /\ delivery'[t].state = "submitted" /\ \A u \in Turn : u # t => delivery'[u] = delivery[u]
      /\ decision' = decision /\ t \notin Offered
  BY <1>0, <1>1 DEF Sets, ReportSubmitted, Awaits, Offered
<1>3. /\ delivery[t].patch.fields = decision[t].fields \cap Deferred
      /\ ~ delivery[t].applied
  BY <1>0, IsDecided DEF InOrder, Deferring, ReportSubmitted, Awaits
<1>4. "offer" \in delivery[t].patch.fields <=> "offer" \in decision[t].fields
  BY <1>3 DEF Deferred
<1>5. "offer" \in decision[t].fields => Owed(t)
  BY <1>3, <1>4 DEF Owed
<1>6. row \in Row /\ row.fallbacks \in 0..2 /\ row.offers \in 0..2
  BY <1>0, RowFacts DEF TypeOK
<1>7. \A f \in Deferred : row'.by[f] = row.by[f] \/ row'.by[f] = t
  BY <1>1, <1>6, PatchedFacts DEF Stays, Field
<1>p. \A fs : Patched(row, t, fs, row.fallbacks).offers =
             (IF "offer" \in fs /\ row.offers < 2 THEN row.offers + 1 ELSE row.offers)
  BY <1>6, PatchedFacts
<1>8. SaidWasShown'
  BY <1>2, <1>7 DEF SaidWasShown, Shown, ReportSubmitted
<1>9. IsFiniteSet(Offered) /\ Cardinality(Offered) \in Nat
  <2>1. Offered \in SUBSET Turn /\ IsFiniteSet(Turn)
    BY ConversationAssumption DEF Offered, ConversationAssumption
  <2>2. IsFiniteSet(Offered)
    BY <2>1, FS_Subset
  <2>3. QED
    BY <2>2, FS_CardinalityType
<1>10. CASE "offer" \in decision[t].fields
  <2>1. Offered' = Offered \cup {t}
    BY <1>2, <1>10 DEF Offered
  <2>2. Cardinality(Offered') = Cardinality(Offered) + 1
    BY <1>2, <1>9, <2>1, FS_AddElement
  <2>3. row'.offers = IF row.offers < 2 THEN row.offers + 1 ELSE row.offers
    BY <1>1, <1>4, <1>5, <1>10, <1>p
  <2>4. QED
    BY <1>6, <1>8, <1>9, <2>2, <2>3 DEF OffersCounted
<1>11. CASE "offer" \notin decision[t].fields
  <2>1. Offered' = Offered
    BY <1>2, <1>11 DEF Offered
  <2>2. row'.offers = row.offers
    BY <1>1, <1>4, <1>11, <1>p DEF Stays
  <2>3. QED
    BY <1>8, <2>1, <2>2 DEF OffersCounted
<1>12. QED
  BY <1>10, <1>11

LEMMA CommitSays ==
    ASSUME IInv, SaidWasShown, OffersCounted, NEW t \in Turn, CommitReply(t) \/ CommitFallback(t)
    PROVE  SaidWasShown' /\ OffersCounted'
<1>0. TypeOK /\ decision[t] = NoDecision /\ delivery[t].state = "none"
  BY NoneFacts DEF IInv, TurnInv, InOrder, Untouched, CommitReply, CommitFallback
<1>1. row \in Row
  BY <1>0 DEF TypeOK
<1>2. /\ delivery'[t].state = "leased" /\ \A u \in Turn : u # t => delivery'[u] = delivery[u]
      /\ \A u \in Turn : u # t => decision'[u] = decision[u]
      /\ \A f \in Deferred : row'.by[f] = row.by[f]
      /\ row'.offers = row.offers /\ linked' = linked
  <2>1. ASSUME CommitReply(t) PROVE <1>2!:
    <3>1. PICK d \in Draft :
              /\ decision' = [decision EXCEPT ![t] = d]
              /\ Stays \/ row' = Patched(row, t, AtOnce(d.fields), 0)
              /\ delivery'[t].state = "leased" /\ \A u \in Turn : u # t => delivery'[u] = delivery[u]
      BY <1>0, <2>1, CommitReplyFacts DEF Sets
    <3>2. \A u \in Turn : u # t => decision'[u] = decision[u]
      BY <1>0, <3>1 DEF TypeOK
    <3>3. "offer" \notin AtOnce(d.fields) /\ \A f \in Deferred : f \in Field /\ f \notin AtOnce(d.fields)
      BY DEF AtOnce, Immediate, Deferred, Field
    <3>4. 0 \in 0..2
      OBVIOUS
    <3>5. (\A f \in Deferred : row'.by[f] = row.by[f]) /\ row'.offers = row.offers
      BY <1>1, <3>1, <3>3, <3>4, PatchedFacts DEF Stays
    <3>6. QED
      BY <2>1, <3>1, <3>2, <3>5 DEF CommitReply
  <2>2. ASSUME CommitFallback(t) PROVE <1>2!:
    <3>1. /\ decision' = [decision EXCEPT ![t] = Fallback] /\ row' = FellBack(row, t)
          /\ delivery'[t].state = "leased" /\ \A u \in Turn : u # t => delivery'[u] = delivery[u]
      BY <1>0, <2>2, CommitFallbackFacts DEF Sets
    <3>2. \A u \in Turn : u # t => decision'[u] = decision[u]
      BY <1>0, <3>1 DEF TypeOK
    <3>3. row'.by = row.by /\ row'.offers = row.offers
      BY <1>1, <3>1, FellBackFacts
    <3>4. QED
      BY <2>2, <3>1, <3>2, <3>3 DEF CommitFallback
  <2>3. QED
    BY <2>1, <2>2
<1>3. \A u \in Turn : /\ delivery'[u].state = "submitted" <=> delivery[u].state = "submitted"
                      /\ delivery[u].state = "submitted" => decision'[u] = decision[u]
  BY <1>0, <1>2
<1>4. QED
  BY <1>0, <1>2, <1>3, SaidKept

LEMMA LinkSays ==
    ASSUME IInv, SaidWasShown, OffersCounted, NEW c \in Call, RecordLink(c)
    PROVE  SaidWasShown' /\ OffersCounted'
<1>1. /\ c \in linked /\ linked' = linked /\ TurnsLeft
      /\ row' = Patched(row, c, Linking, row.fallbacks)
  BY LinkFacts DEF IInv
<1>2. row \in Row /\ row.fallbacks \in 0..2
  BY RowFacts DEF IInv, TypeOK
<1>3. /\ \A f \in Deferred : row'.by[f] = row.by[f] \/ row'.by[f] = c
      /\ row'.offers = row.offers
  BY <1>1, <1>2, PatchedFacts DEF Linking, Field
<1>4. SaidWasShown'
  BY <1>1, <1>3 DEF SaidWasShown, Shown, TurnsLeft
<1>5. Offered' = Offered
  BY <1>1 DEF Offered, TurnsLeft
<1>6. QED
  BY <1>3, <1>4, <1>5 DEF OffersCounted

LEMMA SaidStep == IInv /\ NothingSaidIsAssumed /\ [Next]_vars => NothingSaidIsAssumed'
<1> SUFFICES ASSUME IInv, SaidWasShown, OffersCounted, [Next]_vars PROVE SaidWasShown' /\ OffersCounted'
  BY SaidParts, SaidPartsNext
<1>0. TypeOK
  BY DEF IInv
<1>1. ASSUME NEW t \in Turn, Think(t) \/ Send(t) \/ ReportRefused(t)
      PROVE  SaidWasShown' /\ OffersCounted'
  BY <1>0, <1>1, SaidKept DEF Think, Send, ReportRefused
<1>2. ASSUME NEW t \in Turn, ReportFailed(t) PROVE SaidWasShown' /\ OffersCounted'
  <2>1. /\ delivery[t].state = "leased" /\ row' = row /\ decision' = decision /\ linked' = linked
        /\ delivery'[t].state = "failed_retryable" /\ \A u \in Turn : u # t => delivery'[u] = delivery[u]
    BY <1>0, <1>2, ReportFailedFacts DEF ReportFailed, Sets
  <2>2. \A u \in Turn : delivery'[u].state = "submitted" <=> delivery[u].state = "submitted"
    BY <2>1
  <2>3. QED
    BY <1>0, <2>1, <2>2, SaidKept
<1>3. ASSUME UNCHANGED vars PROVE SaidWasShown' /\ OffersCounted'
  BY <1>0, <1>3, SaidKept DEF vars
<1>4. ASSUME NEW c \in Call, SendLink(c) PROVE SaidWasShown' /\ OffersCounted'
  BY <1>0, <1>4, SaidKept, SendLinkFacts DEF TurnsLeft, Stays
<1>5. ASSUME NEW c \in Call, RecordLink(c) PROVE SaidWasShown' /\ OffersCounted'
  BY <1>5, LinkSays
<1>6. QED
  BY <1>1, <1>2, <1>3, <1>4, <1>5, CommitSays, SubmittedSays DEF Next

LEMMA SaidInit == Init => NothingSaidIsAssumed
<1> SUFFICES ASSUME Init PROVE SaidWasShown /\ OffersCounted
  BY SaidParts
<1>1. Offered = {}
  BY NoneFacts DEF Init, Offered
<1>2. Cardinality(Offered) = 0
  BY <1>1, FS_EmptySet
<1>3. QED
  BY <1>2 DEF Init, SaidWasShown, OffersCounted, Field

\* Whatever the order of decisions, failures, reports and links, the state holds
\* as asked or offered only what was in a message the channel accepted, and
\* counts every accepted offer once.
THEOREM OnlyShownIsSaid == Spec => []NothingSaidIsAssumed
  BY Inductive, SaidInit, SaidStep, PTL DEF Spec

-----------------------------------------------------------------------------
(* The row of technical fallbacks *)

\* Where the replies stood, and the fallbacks after the last of them.
Bases == {0} \cup {decision[t].base : t \in Replied}
Recent == {e \in history : e.write = "fallback" /\ e.version > LastReply}

HasLast == \E m \in Bases : \A b \in Bases : m >= b

Counted ==
    /\ row.fallbacks = IF Cardinality(Recent) > 2 THEN 2 ELSE Cardinality(Recent)
    /\ row.fallbacks = 2 => row.review # None

FallbackInv == HasLast /\ Counted

LEMMA CountedParts == (Counted <=> FallbacksInARow) /\ (Counted' <=> FallbacksInARow')
BY DEF Counted, FallbacksInARow, Recent, Since

LEMMA BasesFacts ==
    ASSUME IInv
    PROVE  /\ \A b \in Bases : b \in Nat /\ b <= row.version
           /\ row.version \in Nat
<1>1. \A t \in Turn : decision[t].base \in Nat /\ decision[t].base <= row.version
  BY NoneFacts DEF IInv, TypeOK, TurnInv, InOrder, Behind, Draft
<1>2. row.version \in Nat
  BY EventVersions DEF IInv
<1>3. QED
  BY <1>1, <1>2 DEF Bases, Replied

LEMMA LastFacts ==
    ASSUME IInv, HasLast
    PROVE  LastReply \in Bases /\ \A b \in Bases : LastReply >= b
<1>1. LastReply = CHOOSE m \in Bases : \A b \in Bases : m >= b
  BY DEF LastReply, Max, Bases
<1>2. QED
  BY <1>1 DEF HasLast

LEMMA RecentFinite ==
    ASSUME IInv PROVE IsFiniteSet(Recent) /\ Cardinality(Recent) \in Nat
<1>1. IsFiniteSet(history) /\ Recent \in SUBSET history
  BY DEF IInv, HistoryInv, Recent
<1>2. IsFiniteSet(Recent)
  BY <1>1, FS_Subset
<1>3. QED
  BY <1>2, FS_CardinalityType

\* A step that decides no reply and writes no fallback.
LEMMA CountKept ==
    ASSUME IInv, IInv', FallbackInv, Bases' = Bases, row'.fallbacks = row.fallbacks,
           row'.review = row.review,
           \A e \in history' : e \in history \/ e.write # "fallback", history \subseteq history'
    PROVE  FallbackInv'
<1>1. LastReply' = LastReply
  BY DEF LastReply, Bases
<1>2. Recent' = Recent
  BY <1>1 DEF Recent
<1>3. QED
  BY <1>2 DEF FallbackInv, HasLast, Counted

LEMMA ReplyCounts ==
    ASSUME IInv, IInv', FallbackInv, NEW t \in Turn, CommitReply(t)
    PROVE  FallbackInv'
<1>1. PICK d \in Draft :
          /\ d.kind = "reply" /\ d.base = row.version
          /\ decision[t] = NoDecision /\ decision' = [decision EXCEPT ![t] = d]
          /\ \/ Stays /\ row.fallbacks = 0
             \/ Moves(t, "reply") /\ row' = Patched(row, t, AtOnce(d.fields), 0)
  BY CommitReplyFacts DEF IInv
<1>2. decision'[t] = d /\ \A u \in Turn : u # t => decision'[u] = decision[u]
  BY <1>1 DEF IInv, TypeOK
<1>3. Bases' = Bases \cup {row.version}
  BY <1>1, <1>2, NoneFacts DEF Bases, Replied
<1>4. HasLast' /\ LastReply' = row.version
  <2>1. \A b \in Bases' : row.version >= b /\ b \in Nat
    BY <1>3, BasesFacts
  <2>2. HasLast'
    BY <1>3, <2>1 DEF HasLast
  <2>3. LastReply' \in Bases' /\ \A b \in Bases' : LastReply' >= b
    <3>1. LastReply' = CHOOSE m \in Bases' : \A b \in Bases' : m >= b
      BY DEF LastReply, Max, Bases
    <3>2. QED
      BY <2>2, <3>1 DEF HasLast
  <2>4. QED
    BY <1>3, <2>1, <2>2, <2>3
<1>5. \A e \in history' : e.write = "fallback" => e.version <= row.version
  <2>1. CASE Stays
    BY <2>1, EventVersions DEF Stays, IInv
  <2>2. CASE Moves(t, "reply")
    <3>1. PICK ev \in Event : ev.write = "reply" /\ history' = history \cup {ev}
      BY <2>2, Grows DEF IInv
    <3>2. QED
      BY <3>1, EventVersions DEF IInv
  <2>3. QED
    BY <1>1, <2>1, <2>2
<1>6. Cardinality(Recent') = 0
  <2>1. Recent' = {}
    BY <1>4, <1>5, EventVersions, BasesFacts DEF Recent, IInv, TypeOK, Event
  <2>2. QED
    BY <2>1, FS_EmptySet
<1>7. row'.fallbacks = 0
  <2>1. row \in Row /\ 0 \in 0..2
    BY DEF IInv, TypeOK
  <2>2. \A fs : Patched(row, t, fs, 0).fallbacks = 0
    BY <2>1, PatchedFacts
  <2>3. QED
    BY <1>1, <2>2 DEF Stays
<1>8. QED
  BY <1>4, <1>6, <1>7 DEF FallbackInv, Counted

LEMMA FallbackCounts ==
    ASSUME IInv, IInv', FallbackInv, NEW t \in Turn, CommitFallback(t)
    PROVE  FallbackInv'
<1>1. /\ decision[t] = NoDecision /\ decision' = [decision EXCEPT ![t] = Fallback]
      /\ Moves(t, "fallback") /\ row' = FellBack(row, t)
  BY CommitFallbackFacts DEF IInv
<1>2. decision'[t] = Fallback /\ \A u \in Turn : u # t => decision'[u] = decision[u]
  BY <1>1 DEF IInv, TypeOK
<1>3. Bases' = Bases
  BY <1>1, <1>2, NoneFacts DEF Bases, Replied
<1>4. LastReply' = LastReply /\ LastReply \in Nat /\ LastReply <= row.version
  BY <1>3, LastFacts, BasesFacts DEF LastReply, Bases, FallbackInv
<1>5. PICK ev \in Event : /\ ev.version = row'.version /\ ev.write = "fallback"
                          /\ ev \notin history /\ history' = history \cup {ev}
  BY <1>1, Grows DEF IInv
<1>6. Recent' = Recent \cup {ev} /\ ev \notin Recent
  BY <1>1, <1>4, <1>5, BasesFacts DEF Recent, Moves
<1>7. Cardinality(Recent') = Cardinality(Recent) + 1 /\ Cardinality(Recent) \in Nat
  BY <1>6, RecentFinite, FS_AddElement
<1>8. /\ row \in Row /\ row.fallbacks \in 0..2
      /\ row'.fallbacks = (IF row.fallbacks = 0 THEN 1 ELSE 2)
      /\ row'.review = (IF row.fallbacks > 0 /\ row.review = None THEN t ELSE row.review)
  BY <1>1, RowFacts, FellBackFacts DEF IInv, TypeOK
<1>9. t # None
  BY ConversationAssumption DEF ConversationAssumption
<1>10. Counted'
  BY <1>7, <1>8, <1>9 DEF FallbackInv, Counted
<1>11. HasLast'
  BY <1>3 DEF FallbackInv, HasLast
<1>12. QED
  BY <1>10, <1>11 DEF FallbackInv

LEMMA FallbackStep == IInv /\ IInv' /\ FallbackInv /\ [Next]_vars => FallbackInv'
<1> SUFFICES ASSUME IInv, IInv', FallbackInv, [Next]_vars PROVE FallbackInv'
  OBVIOUS
<1>1. ASSUME NEW t \in Turn, Think(t) \/ Send(t) \/ ReportRefused(t) \/ ReportFailed(t)
      PROVE  FallbackInv'
  <2>1. UNCHANGED <<row, history, decision>>
    BY <1>1 DEF Think, Send, ReportRefused, ReportFailed
  <2>2. Bases' = Bases
    BY <2>1 DEF Bases, Replied
  <2>3. QED
    BY <2>1, <2>2, CountKept
<1>2. ASSUME NEW t \in Turn, ReportSubmitted(t) PROVE FallbackInv'
  <2>1. decision' = decision
    BY <1>2 DEF ReportSubmitted
  <2>2. Bases' = Bases
    BY <2>1 DEF Bases, Replied
  <2>3. CASE ~ Owed(t)
    <3>1. Stays
      BY <1>2, <2>3, ReportSubmittedFacts DEF IInv
    <3>2. QED
      BY <2>2, <3>1, CountKept DEF Stays
  <2>4. CASE Owed(t)
    <3>1. Moves(t, "accepted") /\ row' = Patched(row, t, delivery[t].patch.fields, row.fallbacks)
      BY <1>2, <2>4, ReportSubmittedFacts DEF IInv
    <3>2. PICK ev \in Event : ev.write = "accepted" /\ history' = history \cup {ev}
      BY <3>1, Grows DEF IInv
    <3>3. row \in Row /\ row.fallbacks \in 0..2
      BY RowFacts DEF IInv, TypeOK
    <3>4. row'.fallbacks = row.fallbacks /\ row'.review = row.review
      BY <3>1, <3>3, PatchedFacts
    <3>5. QED
      BY <2>2, <3>2, <3>4, CountKept
  <2>5. QED
    BY <2>3, <2>4
<1>3. ASSUME UNCHANGED vars PROVE FallbackInv'
  <2>1. Bases' = Bases
    BY <1>3 DEF vars, Bases, Replied
  <2>2. QED
    BY <1>3, <2>1, CountKept DEF vars
<1>4. ASSUME NEW c \in Call, RecordLink(c) PROVE FallbackInv'
  <2>1. /\ TurnsLeft /\ Moves(c, "link") /\ row' = Patched(row, c, Linking, row.fallbacks)
    BY <1>4, LinkFacts DEF IInv
  <2>2. Bases' = Bases
    BY <2>1 DEF TurnsLeft, Bases, Replied
  <2>3. PICK ev \in Event : ev.write = "link" /\ history' = history \cup {ev}
    BY <2>1, Grows DEF IInv
  <2>4. row \in Row /\ row.fallbacks \in 0..2
    BY RowFacts DEF IInv, TypeOK
  <2>5. row'.fallbacks = row.fallbacks /\ row'.review = row.review
    BY <2>1, <2>4, PatchedFacts
  <2>6. QED
    BY <2>2, <2>3, <2>5, CountKept
<1>5. ASSUME NEW c \in Call, SendLink(c) PROVE FallbackInv'
  <2>1. TurnsLeft /\ Stays
    BY <1>5, SendLinkFacts
  <2>2. Bases' = Bases
    BY <2>1 DEF TurnsLeft, Bases, Replied
  <2>3. QED
    BY <2>1, <2>2, CountKept DEF Stays
<1>6. QED
  BY <1>1, <1>2, <1>3, <1>4, <1>5, ReplyCounts, FallbackCounts DEF Next

LEMMA FallbackInit == Init => FallbackInv
<1> SUFFICES ASSUME Init PROVE FallbackInv
  OBVIOUS
<1>1. Bases = {0} /\ history = {} /\ row.fallbacks = 0
  BY NoneFacts DEF Init, Bases, Replied
<1>2. HasLast
  BY <1>1 DEF HasLast
<1>3. Recent = {} /\ Cardinality({}) = 0
  BY <1>1, FS_EmptySet DEF Recent
<1>4. QED
  BY <1>1, <1>2, <1>3 DEF FallbackInv, Counted

\* The fallbacks on record are those since the last reply, also when replies
\* with nothing to write came between, and two in a row ask for a person.
THEOREM FallbacksCounted == Spec => []FallbacksInARow
<1>1. FallbackInv => FallbacksInARow
  BY CountedParts DEF FallbackInv
<1>2. QED
  BY <1>1, Inductive, FallbackInit, FallbackStep, PTL DEF Spec

=============================================================================
