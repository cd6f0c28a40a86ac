------------------------ MODULE DirectDeliveryProofs ------------------------
(***************************************************************************)
(* Proofs about DirectDelivery for any channels in any order of            *)
(* preference, any number of requests and passes of the reconciler, every  *)
(* lease, grace and budget of attempts; and, in the last part, about the   *)
(* sweep that sends through it, PostCallFollowup.                          *)
(***************************************************************************)
EXTENDS DirectDelivery, PostCallFollowup, FiniteSetTheorems, WellFoundedInduction, TLAPS

-----------------------------------------------------------------------------
(* The invariant *)

Underway == {"sending", "correct", "settle"}

\* A row has a message id exactly while it is submitted, that of a message the
\* provider took.
RowOK(ch) ==
    /\ row[ch].state # "delivered"
    /\ row[ch].provider # None <=> row[ch].state = "submitted"
    /\ row[ch].provider \in sent[ch] \cup {None}

\* A request that talks to the provider holds the lease, and what it goes on to
\* record is what became of its call.
RequestOK(s) ==
    /\ req[s].pc \in Underway => row[Current(s)].state = "leased"
    /\ req[s].pc = "settle" => req[s].result # "none"
    /\ req[s].pc = "correct" => req[s].result \in {"permanent", "shut"}
    /\ req[s].pc = "settle" /\ req[s].result = "accepted" => s \in sent[Current(s)]

\* Without reports the reconciler only pauses rows or marks them for a resend.
TodoShape ==
    \A c \in Reconciler : todo[c] \subseteq Channel \X {"authorize_resend", "pause_ambiguous"}

IInv ==
    /\ TypeOK
    /\ \A ch \in Channel : RowOK(ch)
    /\ \A s \in Sender : RequestOK(s)
    /\ OneAtATime
    /\ SentIsTrue
    /\ TodoShape

\* Who sent a message on the channel or is sending one: an attempt each.
Takers(ch) == sent[ch] \cup {s \in Sender : req[s].pc = "sending" /\ Current(s) = ch}

WithinBudget ==
    \A ch \in Channel :
        /\ IsFiniteSet(Takers(ch))
        /\ Cardinality(Takers(ch)) <= row[ch].attempts
        /\ row[ch].attempts <= MaxAttempts
        /\ row[ch].state = "absent" => row[ch].attempts = 0

-----------------------------------------------------------------------------
(* The channel a request is at *)

LEMMA MinIn ==
    ASSUME NEW S \in SUBSET Nat, S # {}
    PROVE  Min(S) \in S
<1>1. PICK x \in S : \A y \in S : ~ (<<y, x>> \in OpToRel(<, Nat))
  BY WFMin, NatLessThanWellFounded
<1>2. ASSUME NEW y \in S PROVE x =< y
  <2>1. ~ (<<y, x>> \in OpToRel(<, Nat))
    BY <1>1
  <2>2. <<y, x>> \in Nat \X Nat
    OBVIOUS
  <2>3. ~ (y < x)
    BY <2>1, <2>2 DEF OpToRel
  <2>4. QED
    BY <2>3
<1>3. QED
  BY <1>1, <1>2 DEF Min

LEMMA CurrentIn ==
    ASSUME TypeOK, NEW s \in Sender, req[s].rest # {}
    PROVE  /\ Min(req[s].rest) \in Place
           /\ Current(s) \in Channel
<1>1. Place \subseteq Nat
  BY DirectAssumption DEF DirectAssumption, Place
<1>2. req[s].rest \in SUBSET Place
  BY DEF TypeOK, Request
<1>3. Min(req[s].rest) \in Place
  BY <1>1, <1>2, MinIn
<1>4. QED
  BY <1>3 DEF Current, Channel

-----------------------------------------------------------------------------
(* A step of one request keeps the invariant when the request may know what *)
(* it knows, no submission is undone and no row is taken from the request   *)
(* that holds it.                                                           *)

LEMMA StepIInv ==
    ASSUME IInv, NEW s \in Sender,
           req' \in [Sender -> Request], row' \in [Channel -> Delivery],
           sent' \in [Channel -> SUBSET Sender],
           open' \in SUBSET Windowed, usable' \in SUBSET Channel, UNCHANGED todo,
           \A v \in Sender \ {s} : req'[v] = req[v],
           req'[s].pc \notin {"idle", "answered", "dead"} => req'[s].rest # {},
           RequestOK(s)',
           \A ch \in Channel : RowOK(ch)' /\ sent[ch] \subseteq sent'[ch],
           \A ch \in Channel : row[ch].state = "submitted" => row'[ch] = row[ch],
           \A v \in Sender \ {s}, ch \in Channel :
               Holding(v, ch) => row'[ch].state = row[ch].state /\ ~Holding(s, ch)',
           req'[s].answer = "sent" =>
               \/ req[s].answer = "sent"
               \/ \E ch \in Channel : row'[ch].state = "submitted"
    PROVE  IInv'
<1> USE DEF IInv
<1>1. \A v \in Sender \ {s} : Current(v)' = Current(v)
  BY DEF Current
<1>2. \A v \in Sender \ {s}, ch \in Channel : Holding(v, ch)' = Holding(v, ch)
  BY <1>1 DEF Holding
<1>3. TypeOK'
  BY DEF TypeOK
<1>4. \A v \in Sender : RequestOK(v)'
  <2>1. SUFFICES ASSUME NEW v \in Sender \ {s} PROVE RequestOK(v)'
    OBVIOUS
  <2>2. req'[v] = req[v] /\ Current(v)' = Current(v) /\ RequestOK(v)
    BY <1>1
  <2>3. ASSUME req[v].pc \in Underway
        PROVE  /\ Current(v) \in Channel
               /\ row'[Current(v)].state = row[Current(v)].state
               /\ sent[Current(v)] \subseteq sent'[Current(v)]
    <3>1. Current(v) \in Channel
      BY <2>3, CurrentIn DEF Underway, TypeOK
    <3>2. QED
      BY <2>3, <3>1 DEF Holding, Underway
  <2>4. QED
    BY <2>2, <2>3 DEF RequestOK, Underway
<1>5. OneAtATime'
  BY <1>2 DEF OneAtATime
<1>6. SentIsTrue'
  <2>1. SUFFICES ASSUME NEW v \in Sender, req'[v].answer = "sent"
                 PROVE  \E ch \in Channel : row'[ch].state = "submitted"
    <3>1. \A ch \in Channel :
             row'[ch].state = "submitted" => row'[ch].provider \in sent'[ch]
      BY DEF RowOK
    <3>2. QED
      BY <2>1, <3>1 DEF SentIsTrue
  <2>2. CASE req[v].answer = "sent"
    BY <2>2 DEF SentIsTrue
  <2>3. QED
    BY <2>1, <2>2
<1>7. TodoShape'
  BY DEF TodoShape
<1>8. QED
  BY <1>3, <1>4, <1>5, <1>6, <1>7

\* A step that leaves the ledger and the provider alone and does not come to hold
\* a row.
LEMMA PassiveIInv ==
    ASSUME IInv, NEW s \in Sender, NEW q \in Request,
           req' = [req EXCEPT ![s] = q],
           q.pc \notin Underway,
           q.pc \notin {"idle", "answered", "dead"} => q.rest # {},
           q.answer = "sent" => \/ req[s].answer = "sent"
                                \/ \E ch \in Channel : row[ch].state = "submitted",
           UNCHANGED <<row, open, usable, sent, todo>>
    PROVE  IInv'
<1>1. req \in [Sender -> Request]
  BY DEF IInv, TypeOK
<1>2. req'[s] = q /\ \A v \in Sender \ {s} : req'[v] = req[v]
  BY <1>1
<1>3. req' \in [Sender -> Request]
  BY <1>1
<1>4. RequestOK(s)' /\ \A ch \in Channel : ~Holding(s, ch)'
  BY <1>2 DEF RequestOK, Underway, Holding
<1>5. \A ch \in Channel : RowOK(ch)'
  BY DEF IInv, RowOK
<1>6. /\ row' \in [Channel -> Delivery] /\ sent' \in [Channel -> SUBSET Sender]
      /\ open' \in SUBSET Windowed /\ usable' \in SUBSET Channel
  BY DEF IInv, TypeOK
<1>7. QED
  BY <1>2, <1>3, <1>4, <1>5, <1>6, StepIInv
-----------------------------------------------------------------------------
(* What the steps make of a request. *)

LEMMA RequestUpdates ==
    ASSUME TypeOK, NEW s \in Sender, NEW pc \in Pc, NEW answer \in Answer
    PROVE  /\ [req[s] EXCEPT !.pc = pc] \in Request
           /\ [IdleRequest EXCEPT !.pc = pc, !.answer = answer] \in Request
BY DEF TypeOK, Request, IdleRequest, Pc, Result, Answer

LEMMA ToIs ==
    ASSUME TypeOK, NEW s \in Sender, NEW pc \in Pc, To(s, pc)
    PROVE  req' = [req EXCEPT ![s] = [req[s] EXCEPT !.pc = pc]]
BY DEF TypeOK, To, Request

LEMMA MovesOnTo ==
    ASSUME TypeOK, NEW s \in Sender, req[s].rest # {}, MovesOn(s)
    PROVE  \E q \in Request :
              /\ req' = [req EXCEPT ![s] = q]
              /\ q.pc \in {"find", "answered"}
              /\ q.pc = "find" => q.rest # {}
              /\ q.answer # "sent"
<1> DEFINE rest == req[s].rest \ {Min(req[s].rest)}
           next == [IdleRequest EXCEPT !.pc = "find", !.rest = rest]
           last == [IdleRequest EXCEPT !.pc = "answered", !.answer = "unreachable"]
<1>1. rest \in SUBSET Place
  BY DEF TypeOK, Request
<1>2. /\ next \in Request
      /\ next.pc = "find" /\ next.rest = rest /\ next.answer = "none"
  BY <1>1 DEF Request, IdleRequest, Pc, Result, Answer
<1>3. last \in Request /\ last.pc = "answered" /\ last.answer = "unreachable"
  BY DEF Request, IdleRequest, Pc, Result, Answer
<1>4. CASE rest = {}
  <2>1. req' = [req EXCEPT ![s] = last]
    BY <1>4 DEF MovesOn, Answers, Ends
  <2>2. QED
    BY <1>3, <2>1
<1>5. CASE rest # {}
  <2>1. req' = [req EXCEPT ![s] = next]
    BY <1>5 DEF MovesOn
  <2>2. QED
    BY <1>2, <1>5, <2>1
<1>6. QED
  BY <1>4, <1>5

\* What ends a request, and what it is told.
LEMMA EndsIInv ==
    ASSUME IInv, NEW s \in Sender, NEW pc \in {"answered", "dead"}, NEW answer \in Answer,
           Ends(s, pc, answer), UNCHANGED <<row, open, usable, sent, todo>>,
           answer = "sent" => \E ch \in Channel : row[ch].state = "submitted"
    PROVE  IInv'
<1> DEFINE q == [IdleRequest EXCEPT !.pc = pc, !.answer = answer]
<1>1. q \in Request
  BY RequestUpdates DEF IInv, Pc
<1>2. q.pc = pc /\ q.answer = answer
  BY DEF IdleRequest
<1>3. req' = [req EXCEPT ![s] = q]
  BY DEF Ends
<1>4. QED
  BY <1>1, <1>2, <1>3, PassiveIInv DEF Underway

LEMMA ToIInv ==
    ASSUME IInv, NEW s \in Sender, NEW pc \in {"find", "reserve", "lease", "readback"},
           req[s].rest # {}, To(s, pc), UNCHANGED <<row, open, usable, sent, todo>>
    PROVE  IInv'
<1> DEFINE q == [req[s] EXCEPT !.pc = pc]
<1>1. q \in Request /\ req' = [req EXCEPT ![s] = q]
  <2>1. TypeOK /\ pc \in Pc
    BY DEF IInv, Pc
  <2>2. q \in Request
    BY <2>1, RequestUpdates DEF Answer
  <2>3. QED
    BY <2>1, <2>2, ToIs
<1>2. q.pc = pc /\ q.answer = req[s].answer /\ q.rest = req[s].rest
  BY DEF IInv, TypeOK, Request
<1>3. QED
  BY <1>1, <1>2, PassiveIInv DEF Underway

-----------------------------------------------------------------------------
(* The steps that only read the ledger *)

\* What a row allows to answer at once is true.
LEMMA ReplayIsTrue ==
    ASSUME IInv, NEW ch \in Channel
    PROVE  /\ ReplayAnswer(row[ch]) \in Answer
           /\ ReplayAnswer(row[ch]) = "sent" => row[ch].state = "submitted"
BY DEF IInv, RowOK, ReplayAnswer, Settled, Answer

LEMMA StartIInv == ASSUME IInv, NEW s \in Sender, Start(s) PROVE IInv'
<1>1. CASE Candidates = {}
  BY <1>1, EndsIInv DEF Start, Answers, Answer
<1>2. CASE Candidates # {}
  <2> DEFINE q == [req[s] EXCEPT !.pc = "find", !.rest = Candidates]
  <2>1. req[s] \in Request /\ Candidates \in SUBSET Place
    BY DEF IInv, TypeOK, Candidates
  <2>2. /\ q \in Request
        /\ q.pc = "find" /\ q.rest = Candidates /\ q.answer = req[s].answer
    BY <2>1 DEF Request, Pc
  <2>3. req' = [req EXCEPT ![s] = q]
    BY <1>2, <2>1 DEF Start, Request, IInv, TypeOK
  <2>4. QED
    BY <1>2, <2>2, <2>3, PassiveIInv DEF Start, Underway
<1>3. QED
  BY <1>1, <1>2

LEMMA FindIInv == ASSUME IInv, NEW s \in Sender, Find(s) PROVE IInv'
<1> DEFINE ch == Current(s)
<1>1. req[s].rest # {} /\ ch \in Channel
  BY CurrentIn DEF Find, IInv, TypeOK
<1>2. UNCHANGED <<row, open, usable, sent, todo>>
  BY DEF Find
<1>3. CASE ReplayAnswer(row[ch]) # "none"
  BY <1>1, <1>2, <1>3, ReplayIsTrue, EndsIInv DEF Find, Answers
<1>4. CASE To(s, "lease") \/ To(s, "reserve")
  BY <1>1, <1>2, <1>4, ToIInv
<1>5. CASE MovesOn(s)
  BY <1>1, <1>2, <1>5, MovesOnTo, PassiveIInv DEF IInv, Underway
<1>6. QED
  BY <1>3, <1>4, <1>5 DEF Find

LEMMA ReadBackIInv == ASSUME IInv, NEW s \in Sender, ReadBack(s) PROVE IInv'
<1>1. Current(s) \in Channel
  BY CurrentIn DEF ReadBack, IInv, TypeOK
<1>2. QED
  BY <1>1, ReplayIsTrue, EndsIInv DEF ReadBack, Answers, Answer

LEMMA DieIInv == ASSUME IInv, NEW s \in Sender, Die(s) PROVE IInv'
BY EndsIInv DEF Die, Answer
-----------------------------------------------------------------------------
(* The steps that change a row *)

\* A step of one request that writes at most the row of one channel.
LEMMA RowIInv ==
    ASSUME IInv, NEW s \in Sender, NEW q \in Request, NEW ch \in Channel,
           NEW r \in Delivery,
           req' = [req EXCEPT ![s] = q],
           row' = [row EXCEPT ![ch] = r],
           sent' \in [Channel -> SUBSET Sender], sent[ch] \subseteq sent'[ch],
           \A x \in Channel \ {ch} : sent'[x] = sent[x],
           open' \in SUBSET Windowed, usable' \in SUBSET Channel, UNCHANGED todo,
           row[ch].state # "submitted",
           \A v \in Sender \ {s} : ~Holding(v, ch),
           r.state # "delivered",
           r.provider # None <=> r.state = "submitted",
           r.provider \in sent'[ch] \cup {None},
           q.pc \notin {"idle", "answered", "dead"} => q.rest # {},
           q.pc \in Underway => Preference[Min(q.rest)] = ch /\ r.state = "leased",
           q.pc = "settle" => q.result # "none",
           q.pc = "correct" => q.result \in {"permanent", "shut"},
           q.pc = "settle" /\ q.result = "accepted" => s \in sent'[ch],
           q.answer = "sent" => req[s].answer = "sent" \/ r.state = "submitted"
    PROVE  IInv'
<1>1. TypeOK
  BY DEF IInv
<1>2. /\ row' \in [Channel -> Delivery] /\ row'[ch] = r
      /\ \A x \in Channel \ {ch} : row'[x] = row[x]
  BY <1>1 DEF TypeOK
<1>3. /\ req' \in [Sender -> Request] /\ req'[s] = q
      /\ \A v \in Sender \ {s} : req'[v] = req[v]
  BY <1>1 DEF TypeOK
<1>4. \A x \in Channel : RowOK(x)' /\ sent[x] \subseteq sent'[x]
  BY <1>2 DEF IInv, RowOK
<1>5. Current(s)' = Preference[Min(q.rest)]
  BY <1>3 DEF Current
<1>6. RequestOK(s)'
  <2>1. q.pc \in Underway => row'[Current(s)'].state = "leased"
    BY <1>2, <1>5
  <2>2. q.pc = "settle" /\ q.result = "accepted" => s \in sent'[Current(s)']
    BY <1>5 DEF Underway
  <2>3. QED
    BY <1>3, <2>1, <2>2 DEF RequestOK
<1>7. \A v \in Sender \ {s}, x \in Channel :
         Holding(v, x) => row'[x].state = row[x].state /\ ~Holding(s, x)'
  BY <1>2, <1>3, <1>5 DEF Holding, Underway
<1>8. \A x \in Channel : row[x].state = "submitted" => row'[x] = row[x]
  BY <1>2
<1>9. q.answer = "sent" => \/ req[s].answer = "sent"
                            \/ \E x \in Channel : row'[x].state = "submitted"
  BY <1>2
<1>10. QED
  BY <1>2, <1>3, <1>4, <1>6, <1>7, <1>8, <1>9, StepIInv

\* Who holds a row holds it alone, and the row is leased, without a message id.
LEMMA HolderKnows ==
    ASSUME IInv, NEW s \in Sender, req[s].pc \in Underway
    PROVE  /\ req[s].rest # {} /\ Current(s) \in Channel
           /\ row[Current(s)].state = "leased" /\ row[Current(s)].provider = None
           /\ \A v \in Sender \ {s} : ~Holding(v, Current(s))
<1>1. req[s].rest # {} /\ Current(s) \in Channel
  BY CurrentIn DEF IInv, TypeOK, Underway
<1>2. QED
  BY <1>1 DEF IInv, RequestOK, RowOK, OneAtATime, Holding, Underway

\* Nobody holds a row that is not leased.
LEMMA NobodyHolds ==
    ASSUME IInv, NEW ch \in Channel, row[ch].state # "leased"
    PROVE  \A v \in Sender : ~Holding(v, ch)
BY DEF IInv, RequestOK, Holding, Underway

LEMMA ReserveIInv == ASSUME IInv, NEW s \in Sender, Reserve(s) PROVE IInv'
<1> DEFINE ch == Current(s)
           q == [req[s] EXCEPT !.pc = "lease"]
<1>1. TypeOK /\ req[s].rest # {} /\ ch \in Channel
  BY CurrentIn DEF Reserve, IInv, TypeOK
<1>2. CASE row[ch].state # "absent"
  BY <1>1, <1>2, ToIInv DEF Reserve
<1>3. CASE row[ch].state = "absent"
  <2>1. q \in Request /\ q.pc = "lease" /\ q.rest = req[s].rest /\ q.answer = req[s].answer
    BY <1>1 DEF TypeOK, Request, Pc
  <2>2. req' = [req EXCEPT ![s] = q]
    BY <1>1, <1>3, ToIs DEF Reserve, Pc
  <2>3. Enqueued \in Delivery /\ Enqueued.state = "pending" /\ Enqueued.provider = None
    BY LedgerAssumption DEF LedgerAssumption, Enqueued, NoDelivery, Delivery,
       DeliveryState, OutboxState, Review
  <2>4. row' = [row EXCEPT ![ch] = Enqueued] /\ UNCHANGED <<open, usable, sent, todo>>
    BY <1>3 DEF Reserve
  <2>5. \A v \in Sender : ~Holding(v, ch)
    BY <1>1, <1>3, NobodyHolds
  <2>6. QED
    BY <1>1, <1>3, <2>1, <2>2, <2>3, <2>4, <2>5, RowIInv DEF Underway, TypeOK
<1>4. QED
  BY <1>2, <1>3

LEMMA LeaseTakenRow ==
    ASSUME NEW r \in Delivery
    PROVE  /\ LeaseTaken(r) \in Delivery
           /\ LeaseTaken(r).state = "leased"
           /\ LeaseTaken(r).provider = r.provider
           /\ LeaseTaken(r).attempts = r.attempts + 1
<1>1. SendLease \in Nat /\ Grace \in Nat
  BY LedgerAssumption, DirectAssumption DEF LedgerAssumption, DirectAssumption
<1>2. r.attempts + 1 \in Nat /\ "leased" \in DeliveryState
  BY DEF Delivery, DeliveryState
<1>3. QED
  BY <1>1, <1>2 DEF LeaseTaken, Delivery

LEMMA TakeLeaseIInv == ASSUME IInv, NEW s \in Sender, TakeLease(s) PROVE IInv'
<1> DEFINE ch == Current(s)
           q == [req[s] EXCEPT !.pc = "sending"]
           r == LeaseTaken(row[ch])
<1>1. TypeOK /\ req[s].rest # {} /\ ch \in Channel
  BY CurrentIn DEF TakeLease, IInv, TypeOK
<1>2. CASE ~Leasable(row[ch])
  BY <1>1, <1>2, ToIInv DEF TakeLease
<1>3. CASE Leasable(row[ch]) /\ OutOfBudget(row[ch])
  BY <1>3, EndsIInv DEF TakeLease, Answers, Answer
<1>4. CASE Leasable(row[ch]) /\ ~OutOfBudget(row[ch])
  <2>1. /\ q \in Request /\ q.pc = "sending" /\ q.rest = req[s].rest
        /\ q.answer = req[s].answer
    BY <1>1 DEF TypeOK, Request, Pc
  <2>2. req' = [req EXCEPT ![s] = q] /\ row' = [row EXCEPT ![ch] = r]
    <3>1. To(s, "sending") /\ "sending" \in Pc
      BY <1>4 DEF TakeLease, Pc
    <3>2. QED
      BY <1>1, <1>4, <3>1, ToIs DEF TakeLease
  <2>3. r \in Delivery /\ r.state = "leased" /\ r.provider = row[ch].provider
    BY <1>1, LeaseTakenRow DEF TypeOK
  <2>4. row[ch].state \in {"pending", "failed_retryable"} /\ row[ch].provider = None
    BY <1>1, <1>4 DEF Leasable, IInv, RowOK
  <2>5. UNCHANGED <<open, usable, sent, todo>> /\ Preference[Min(q.rest)] = ch
    BY <2>1 DEF TakeLease, Current
  <2>6. \A v \in Sender : ~Holding(v, ch)
    BY <1>1, <2>4, NobodyHolds
  <2>7. QED
    BY <1>1, <2>1, <2>2, <2>3, <2>4, <2>5, <2>6, RowIInv DEF TypeOK
<1>5. QED
  BY <1>2, <1>3, <1>4
\* The end of a provider call: what the row says does not change.
LEMMA CallEndsIInv ==
    ASSUME IInv, NEW s \in Sender, NEW result \in {"accepted", "failed", "permanent", "shut"},
           NEW took \in BOOLEAN, CallEnds(s, result, took), result = "accepted" => took
    PROVE  IInv'
<1> DEFINE ch == Current(s)
           pc == IF result \in {"permanent", "shut"} THEN "correct" ELSE "settle"
           q == [req[s] EXCEPT !.result = result, !.pc = pc]
<1>1. TypeOK /\ req[s].pc = "sending" /\ UNCHANGED <<row, open, usable, todo>>
  BY DEF IInv, CallEnds
<1>2. /\ req[s].rest # {} /\ ch \in Channel
      /\ row[ch].state = "leased" /\ row[ch].provider = None
      /\ \A v \in Sender \ {s} : ~Holding(v, ch)
  BY <1>1, HolderKnows DEF Underway
<1>3. req' = [req EXCEPT ![s] = q]
  BY <1>1 DEF CallEnds, TypeOK, Request
<1>4. /\ q \in Request /\ q.pc = pc /\ q.rest = req[s].rest
      /\ q.result = result /\ q.answer = req[s].answer
  BY <1>1 DEF TypeOK, Request, Pc, Result
<1>5. /\ sent' \in [Channel -> SUBSET Sender] /\ sent[ch] \subseteq sent'[ch]
      /\ \A x \in Channel \ {ch} : sent'[x] = sent[x]
      /\ took => s \in sent'[ch]
  BY <1>1, <1>2 DEF CallEnds, TypeOK
<1>6. row' = [row EXCEPT ![ch] = row[ch]] /\ row[ch] \in Delivery
  BY <1>1, <1>2 DEF TypeOK
<1>7. Preference[Min(q.rest)] = ch
  BY <1>4 DEF Current
<1>8. /\ q.pc = "settle" => q.result # "none"
      /\ q.pc = "correct" => q.result \in {"permanent", "shut"}
      /\ q.pc = "settle" /\ q.result = "accepted" => s \in sent'[ch]
  BY <1>4, <1>5
<1>9. QED
  <2> HIDE DEF q, pc
  <2>1. open' \in SUBSET Windowed /\ usable' \in SUBSET Channel
    BY <1>1 DEF TypeOK
  <2>2. row[ch].provider \in sent'[ch] \cup {None} /\ row[ch].state # "delivered"
    BY <1>2
  <2>3. QED
    BY <1>1, <1>2, <1>3, <1>4, <1>5, <1>6, <1>7, <1>8, <2>1, <2>2, RowIInv

LEMMA CorrectIInv == ASSUME IInv, NEW s \in Sender, Correct(s) PROVE IInv'
<1> DEFINE ch == Current(s)
           q == [req[s] EXCEPT !.pc = "settle"]
<1>1. TypeOK /\ req[s].pc = "correct" /\ UNCHANGED <<row, sent, todo>>
  BY DEF IInv, Correct
<1>2. /\ req[s].rest # {} /\ ch \in Channel
      /\ row[ch].state = "leased" /\ row[ch].provider = None
      /\ \A v \in Sender \ {s} : ~Holding(v, ch)
  BY <1>1, HolderKnows DEF Underway
<1>3. req' = [req EXCEPT ![s] = q]
  <2>1. To(s, "settle") /\ "settle" \in Pc
    BY DEF Correct, Pc
  <2>2. QED
    BY <1>1, <2>1, ToIs
<1>4. /\ q \in Request /\ q.pc = "settle" /\ q.rest = req[s].rest
      /\ q.result = req[s].result /\ q.answer = req[s].answer
  BY <1>1 DEF TypeOK, Request, Pc
<1>5. q.result \in {"permanent", "shut"}
  BY <1>1, <1>4 DEF IInv, RequestOK
<1>6. open' \in SUBSET Windowed /\ usable' \in SUBSET Channel
  BY <1>1 DEF Correct, TypeOK
<1>7. row' = [row EXCEPT ![ch] = row[ch]] /\ row[ch] \in Delivery
  BY <1>1, <1>2 DEF TypeOK
<1>8. Preference[Min(q.rest)] = ch
  BY <1>4 DEF Current
<1>9. QED
  BY <1>1, <1>2, <1>3, <1>4, <1>5, <1>6, <1>7, <1>8, RowIInv DEF TypeOK

\* The row a request settles.
SettledRow(s) ==
    [row[Current(s)] EXCEPT
        !.state = SettlesAs(req[s].result), !.lease = 0, !.quiet = Grace,
        !.provider = IF req[s].result = "accepted" THEN s ELSE row[Current(s)].provider]

\* From leased every outcome is a legal move, so the result is what is recorded.
LEMMA SettleIs ==
    ASSUME IInv, NEW s \in Sender, Settle(s)
    PROVE  /\ req[s].pc = "settle" /\ req[s].result \in {"accepted", "failed", "permanent"}
           /\ row' = [row EXCEPT ![Current(s)] = SettledRow(s)]
           /\ Answers(s, AnswerTo(req[s].result))
           /\ UNCHANGED <<open, usable, sent, todo>>
<1>1. req[s].pc = "settle"
  BY DEF Settle
<1>2. row[Current(s)].state = "leased" /\ req[s].result \notin {"none", "shut"}
  BY <1>1, HolderKnows DEF Settle, IInv, RequestOK, Underway
<1>3. req[s].result \in {"accepted", "failed", "permanent"}
  BY <1>2 DEF IInv, TypeOK, Request, Result
<1>4. SettlesAs(req[s].result) \in {"submitted", "failed_retryable", "dead_letter"}
  BY <1>3 DEF SettlesAs
<1>5. Moves(row[Current(s)].state, SettlesAs(req[s].result), DeliveryMoves)
  BY <1>2, <1>4 DEF Moves, DeliveryMoves
<1>6. QED
  BY <1>1, <1>3, <1>5 DEF Settle, SettledRow

LEMMA SettleIInv == ASSUME IInv, NEW s \in Sender, Settle(s) PROVE IInv'
<1> DEFINE ch == Current(s)
           q == [IdleRequest EXCEPT !.pc = "answered", !.answer = AnswerTo(req[s].result)]
           r == SettledRow(s)
<1>1. /\ TypeOK /\ req[s].pc = "settle" /\ UNCHANGED <<open, usable, sent, todo>>
      /\ req[s].result \in {"accepted", "failed", "permanent"}
  BY SettleIs DEF IInv
<1>2. /\ req[s].rest # {} /\ ch \in Channel
      /\ row[ch].state = "leased" /\ row[ch].provider = None
      /\ \A v \in Sender \ {s} : ~Holding(v, ch)
  BY <1>1, HolderKnows DEF Underway
<1>3. AnswerTo(req[s].result) \in Answer
  BY <1>1 DEF AnswerTo, Answer
<1>4. req' = [req EXCEPT ![s] = q] /\ row' = [row EXCEPT ![ch] = r]
  BY SettleIs DEF Answers, Ends
<1>5. q \in Request /\ q.pc = "answered" /\ q.answer = AnswerTo(req[s].result)
  BY <1>1, <1>3 DEF Request, IdleRequest, Pc, Result
<1>6. /\ r.state = SettlesAs(req[s].result)
      /\ r.provider = IF req[s].result = "accepted" THEN s ELSE None
  BY <1>1, <1>2 DEF SettledRow, TypeOK, Delivery
<1>7. SettlesAs(req[s].result) \in DeliveryState \ {"delivered"}
  BY <1>1 DEF SettlesAs, DeliveryState
<1>8. r \in Delivery
  <2>1. Grace \in Nat /\ row[ch] \in Delivery
    BY <1>1, <1>2, LedgerAssumption DEF LedgerAssumption, TypeOK
  <2>2. QED
    BY <1>7, <2>1 DEF SettledRow, Delivery
<1>9. /\ r.state = "submitted" <=> req[s].result = "accepted"
      /\ q.answer = "sent" <=> req[s].result = "accepted"
  BY <1>1, <1>5, <1>6 DEF SettlesAs, AnswerTo
<1>10. req[s].result = "accepted" => s \in sent[ch]
  BY <1>1 DEF IInv, RequestOK
<1>11. None # s
  BY LedgerAssumption DEF LedgerAssumption
<1>12. /\ r.state # "delivered"
       /\ r.provider # None <=> r.state = "submitted"
       /\ r.provider \in sent'[ch] \cup {None}
  BY <1>1, <1>6, <1>7, <1>9, <1>10, <1>11
<1>13. QED
  BY <1>1, <1>2, <1>4, <1>5, <1>8, <1>9, <1>12, RowIInv DEF TypeOK, Underway

LEMMA CancelIInv == ASSUME IInv, NEW s \in Sender, Cancel(s) PROVE IInv'
<1> DEFINE ch == Current(s)
           r == [row[ch] EXCEPT !.state = "cancelled", !.quiet = Grace]
<1>1. TypeOK /\ req[s].pc = "settle" /\ MovesOn(s) /\ UNCHANGED <<open, usable, sent, todo>>
  BY DEF IInv, Cancel
<1>2. /\ req[s].rest # {} /\ ch \in Channel
      /\ row[ch].state = "leased" /\ row[ch].provider = None
      /\ \A v \in Sender \ {s} : ~Holding(v, ch)
  BY <1>1, HolderKnows DEF Underway
<1>3. row' = [row EXCEPT ![ch] = r]
  BY <1>2 DEF Cancel
<1>4. r \in Delivery /\ r.state = "cancelled" /\ r.provider = None
  <2>1. Grace \in Nat /\ row[ch] \in Delivery
    BY <1>1, <1>2, LedgerAssumption DEF LedgerAssumption, TypeOK
  <2>2. QED
    BY <1>2, <2>1 DEF Delivery, DeliveryState
<1>5. PICK q \in Request : /\ req' = [req EXCEPT ![s] = q]
                           /\ q.pc \in {"find", "answered"}
                           /\ q.pc = "find" => q.rest # {}
                           /\ q.answer # "sent"
  BY <1>1, <1>2, MovesOnTo
<1>6. QED
  BY <1>1, <1>2, <1>3, <1>4, <1>5, RowIInv DEF TypeOK, Underway
-----------------------------------------------------------------------------
(* Time, the reply windows and the reconciler *)

\* What these may make of a row.
Marked(r, q) == /\ q \in Delivery
                /\ q.state = r.state /\ q.provider = r.provider
                /\ q.attempts = r.attempts

LEMMA AgedMarked == ASSUME NEW r \in Delivery PROVE Marked(r, Aged(r))
<1>1. \A n \in Nat : Less1(n) \in Nat
  BY DEF Less1
<1>2. QED
  BY <1>1 DEF Marked, Aged, Delivery

LEMMA ReconciledMarked ==
    ASSUME NEW r \in Delivery, NEW a \in {"authorize_resend", "pause_ambiguous"}
    PROVE  Marked(r, Reconciled(r, a))
<1>1. Grace \in Nat
  BY LedgerAssumption DEF LedgerAssumption
<1>2. ASSUME NEW v \in {"confirmed_sent", "resend_authorized", "ambiguous_paused"}
      PROVE  /\ Marked(r, Reviewed(r, v))
             /\ Marked(r, [r EXCEPT !.review = v, !.quiet = Grace])
  <2>1. v \in Review
    BY DEF Review
  <2>2. QED
    BY <1>1, <2>1 DEF Marked, Reviewed, Delivery
<1>3. CASE Held(r, a)
  BY <1>3 DEF Marked, Reconciled
<1>4. CASE ~Held(r, a) /\ a = "authorize_resend"
  BY <1>2, <1>4 DEF Reconciled
<1>5. CASE ~Held(r, a) /\ a = "pause_ambiguous"
  BY <1>2, <1>5 DEF Reconciled
<1>6. QED
  BY <1>3, <1>4, <1>5

\* A row that is listed is not submitted, and one that used no attempt has some
\* left: it is neither marked sent nor given up.
LEMMA VerdictOf ==
    ASSUME NEW r \in Delivery, Stale(r), r.provider = None
    PROVE  Verdict(r, "none") \in {"wait", "authorize_resend", "pause_ambiguous"}
<1>1. r.attempts = 0 => r.attempts < MaxAttempts
  BY LedgerAssumption DEF LedgerAssumption
<1>2. ~Settled(r)
  BY DEF Stale, Settled
<1>3. QED
  BY <1>1, <1>2 DEF Verdict, OnBudget

LEMMA MarksIInv ==
    ASSUME IInv, \A ch \in Channel : Marked(row[ch], row'[ch]), row' \in [Channel -> Delivery],
           open' \in SUBSET Windowed, UNCHANGED <<usable, req, sent>>,
           todo' \in [Reconciler -> SUBSET (Channel \X Verdicts)], TodoShape'
    PROVE  IInv'
<1>1. TypeOK'
  BY DEF IInv, TypeOK
<1>2. \A ch \in Channel : RowOK(ch)'
  BY DEF IInv, RowOK, Marked
<1>3. \A s \in Sender : Current(s)' = Current(s)
  BY DEF Current
<1>4. ASSUME NEW s \in Sender PROVE RequestOK(s)'
  <2>1. CASE req[s].pc \in Underway
    BY <1>3, <2>1, HolderKnows DEF RequestOK, IInv, Marked
  <2>2. CASE req[s].pc \notin Underway
    BY <2>2 DEF RequestOK, Underway
  <2>3. QED
    BY <2>1, <2>2
<1>5. OneAtATime'
  BY <1>3 DEF IInv, OneAtATime, Holding
<1>6. SentIsTrue'
  BY DEF IInv, SentIsTrue, Marked
<1>7. QED
  BY <1>1, <1>2, <1>4, <1>5, <1>6 DEF IInv

LEMMA TickMarks ==
    ASSUME TypeOK, Tick
    PROVE  /\ row' \in [Channel -> Delivery]
           /\ \A ch \in Channel : Marked(row[ch], row'[ch])
<1>1. \A ch \in Channel : row[ch] \in Delivery /\ row'[ch] = Aged(row[ch])
  BY DEF TypeOK, Tick
<1>2. \A ch \in Channel : Marked(row[ch], row'[ch])
  BY <1>1, AgedMarked
<1>3. QED
  BY <1>2 DEF Tick, Marked

LEMMA ApplyMarks ==
    ASSUME IInv, NEW c \in Reconciler, Apply(c)
    PROVE  /\ row' \in [Channel -> Delivery]
           /\ \A ch \in Channel : Marked(row[ch], row'[ch])
           /\ \A x \in Reconciler : todo'[x] \subseteq todo[x]
           /\ todo' \in [Reconciler -> SUBSET (Channel \X Verdicts)]
<1>1. PICK t \in todo[c] : /\ row' = [row EXCEPT ![t[1]] = Reconciled(row[t[1]], t[2])]
                           /\ todo' = [todo EXCEPT ![c] = todo[c] \ {t}]
  BY DEF Apply
<1>2. t[1] \in Channel /\ t[2] \in {"authorize_resend", "pause_ambiguous"}
  BY DEF IInv, TodoShape
<1>3. Marked(row[t[1]], Reconciled(row[t[1]], t[2]))
  BY <1>2, ReconciledMarked DEF IInv, TypeOK
<1>4. \A ch \in Channel : row[ch] \in Delivery /\ Marked(row[ch], row[ch])
  BY DEF IInv, TypeOK, Marked
<1>5. QED
  BY <1>1, <1>2, <1>3, <1>4 DEF IInv, TypeOK, Marked

LEMMA TickIInv == ASSUME IInv, Tick PROVE IInv'
<1>1. UNCHANGED <<open, usable, req, sent, todo>>
  BY DEF Tick
<1>2. TypeOK /\ TodoShape /\ TodoShape'
  BY <1>1 DEF IInv, TodoShape
<1>3. QED
  BY <1>1, <1>2, TickMarks, MarksIInv DEF TypeOK

LEMMA WindowMovesIInv == ASSUME IInv, WindowMoves PROVE IInv'
<1>1. UNCHANGED <<row, usable, req, sent, todo>> /\ open' \in SUBSET Windowed
  BY DEF WindowMoves, IInv, TypeOK
<1>2. TypeOK /\ TodoShape'
  BY <1>1 DEF IInv, TodoShape
<1>3. \A ch \in Channel : Marked(row[ch], row'[ch])
  BY <1>1, <1>2 DEF Marked, TypeOK
<1>4. QED
  BY <1>1, <1>2, <1>3, MarksIInv DEF TypeOK

LEMMA ListIInv == ASSUME IInv, NEW c \in Reconciler, List(c) PROVE IInv'
<1> DEFINE listed == {t \in Seen : t[2] # "wait"}
<1>1. TypeOK /\ UNCHANGED <<row, open, usable, req, sent>>
  BY DEF List, IInv
<1>2. ASSUME NEW t \in listed
      PROVE  t \in Channel \X {"authorize_resend", "pause_ambiguous"}
  <2>1. PICK ch \in Channel : t = <<ch, Verdict(row[ch], "none")>> /\ Stale(row[ch])
    BY DEF Seen
  <2>2. row[ch] \in Delivery /\ row[ch].provider = None
    BY <2>1 DEF IInv, TypeOK, RowOK, Stale
  <2>3. Verdict(row[ch], "none") \in {"authorize_resend", "pause_ambiguous"}
    BY <2>1, <2>2, VerdictOf
  <2>4. QED
    BY <2>1, <2>3
<1>3. todo' = [todo EXCEPT ![c] = listed]
  BY DEF List
<1>4. /\ todo' \in [Reconciler -> SUBSET (Channel \X Verdicts)]
      /\ TodoShape'
  BY <1>1, <1>2, <1>3 DEF IInv, TypeOK, TodoShape, Verdicts
<1>5. \A ch \in Channel : Marked(row[ch], row'[ch])
  BY <1>1 DEF Marked, TypeOK
<1>6. QED
  BY <1>1, <1>4, <1>5, MarksIInv DEF TypeOK

LEMMA ApplyIInv == ASSUME IInv, NEW c \in Reconciler, Apply(c) PROVE IInv'
<1>1. UNCHANGED <<open, usable, req, sent>> /\ TypeOK
  BY DEF Apply, IInv
<1>2. TodoShape'
  BY ApplyMarks DEF IInv, TodoShape
<1>3. QED
  BY <1>1, <1>2, ApplyMarks, MarksIInv DEF TypeOK
-----------------------------------------------------------------------------
(* The invariant holds, and with it what it contains. *)

LEMMA InitIInv == Init => IInv
<1> SUFFICES ASSUME Init PROVE IInv
  OBVIOUS
<1>1. NoDelivery \in Delivery
  BY LedgerAssumption
     DEF LedgerAssumption, NoDelivery, Delivery, DeliveryState, OutboxState, Review
<1>2. IdleRequest \in Request
  BY DEF IdleRequest, Request, Pc, Result, Answer
<1>3. TypeOK
  BY <1>1, <1>2 DEF Init, TypeOK, IdleRequest
<1>4. QED
  BY <1>3 DEF Init, IInv, RowOK, RequestOK, OneAtATime, Holding, SentIsTrue, TodoShape,
     NoDelivery, IdleRequest, Underway

\* The steps of one request, apart.
Calls(s) ==
    Accepted(s) \/ NotTaken(s) \/ TakenUnanswered(s) \/ Rejected(s) \/ WindowShut(s)

LEMMA CallsAre ==
    ASSUME NEW s \in Sender, Calls(s)
    PROVE  \E result \in {"accepted", "failed", "permanent", "shut"}, took \in BOOLEAN :
              /\ CallEnds(s, result, took)
              /\ result = "accepted" => took
BY DEF Calls, Accepted, NotTaken, TakenUnanswered, Rejected, WindowShut

LEMMA RequestIInv ==
    ASSUME IInv, NEW s \in Sender, Start(s) \/ Works(s) \/ Die(s)
    PROVE  IInv'
<1>1. CASE Calls(s)
  BY <1>1, CallsAre, CallEndsIInv
<1>2. CASE ~Calls(s)
  BY <1>2, StartIInv, FindIInv, ReserveIInv, TakeLeaseIInv, ReadBackIInv, CorrectIInv,
     SettleIInv, CancelIInv, DieIInv DEF Works, Calls
<1>3. QED
  BY <1>1, <1>2

LEMMA NextIInv == IInv /\ [Next]_vars => IInv'
<1> SUFFICES ASSUME IInv, [Next]_vars PROVE IInv'
  OBVIOUS
<1>1. CASE UNCHANGED vars
  BY <1>1 DEF vars, IInv, TypeOK, RowOK, RequestOK, OneAtATime, Holding, Current,
     SentIsTrue, TodoShape
<1>2. CASE Tick \/ WindowMoves
  BY <1>2, TickIInv, WindowMovesIInv
<1>3. CASE \E s \in Sender : Start(s) \/ Works(s) \/ Die(s)
  BY <1>3, RequestIInv
<1>4. CASE \E c \in Reconciler : Reconcile(c)
  BY <1>4, ListIInv, ApplyIInv DEF Reconcile
<1>5. QED
  BY <1>1, <1>2, <1>3, <1>4 DEF Next

\* What holds of rows, requests and verdicts at any time.
THEOREM Inductive == Spec => []IInv
<1>1. QED
  BY InitIInv, NextIInv, PTL DEF Spec

\* Rows, requests and verdicts keep their types, and a request under way has a
\* candidate it is at.
THEOREM TypeCorrect == Spec => []TypeOK
<1>1. IInv => TypeOK
  BY DEF IInv
<1>2. QED
  BY <1>1, Inductive, PTL

\* Of the requests with one key only one at a time is between the lease of a row and
\* its settlement: the UPDATE that leases finds the row leased, however late the
\* request comes to it, and the reconciler gives no leased row back.
THEOREM OneRequestAtATime == Spec => []OneAtATime
<1>1. IInv => OneAtATime
  BY DEF IInv
<1>2. QED
  BY <1>1, Inductive, PTL

\* A request answered "sent" can name the row and the message a provider took,
\* for as long as the ledger is kept.
THEOREM SentTheTruth == Spec => []SentIsTrue
<1>1. IInv => SentIsTrue
  BY DEF IInv
<1>2. QED
  BY <1>1, Inductive, PTL

-----------------------------------------------------------------------------
(* A submission is final. *)

Kept(ch) == /\ row'[ch].provider = row[ch].provider
            /\ row'[ch].state = row[ch].state
            /\ sent'[ch] = sent[ch]

\* A step that touches the row and the messages of one channel that is not submitted.
LEMMA KeptElsewhere ==
    ASSUME IInv, NEW at \in Channel, NEW r, NEW took, row[at].state # "submitted",
           row' = [row EXCEPT ![at] = r], sent' = [sent EXCEPT ![at] = took],
           NEW ch \in Channel, row[ch].provider # None
    PROVE  Kept(ch)
<1>1. ch # at
  BY DEF IInv, RowOK
<1>2. QED
  BY <1>1 DEF IInv, TypeOK, Kept

\* What one request does to the ledger: nothing, or a write to the row it is at,
\* which is not submitted.
LEMMA WritesOwnRow ==
    ASSUME IInv, NEW s \in Sender, Start(s) \/ Works(s) \/ Die(s)
    PROVE  \/ UNCHANGED <<row, sent>>
           \/ /\ Current(s) \in Channel
              /\ row[Current(s)].state # "submitted"
              /\ \E r, took : /\ row' = [row EXCEPT ![Current(s)] = r]
                              /\ sent' = [sent EXCEPT ![Current(s)] = took]
<1> DEFINE at == Current(s)
<1>1. row \in [Channel -> Delivery] /\ sent \in [Channel -> SUBSET Sender]
  BY DEF IInv, TypeOK
<1>2. row = [row EXCEPT ![at] = row[at]] /\ sent = [sent EXCEPT ![at] = sent[at]]
  BY <1>1
<1>3. CASE Start(s) \/ Find(s) \/ ReadBack(s) \/ Correct(s) \/ Die(s)
  BY <1>3 DEF Start, Find, ReadBack, Correct, Die
<1>4. CASE Reserve(s)
  <2>1. at \in Channel
    BY <1>4, CurrentIn DEF Reserve, IInv, TypeOK
  <2>2. CASE row[at].state = "absent"
    BY <1>2, <1>4, <2>1, <2>2 DEF Reserve
  <2>3. QED
    BY <1>4, <2>2 DEF Reserve
<1>5. CASE TakeLease(s)
  <2>1. at \in Channel
    BY <1>5, CurrentIn DEF TakeLease, IInv, TypeOK
  <2>2. CASE Leasable(row[at]) /\ ~OutOfBudget(row[at])
    BY <1>2, <1>5, <2>1, <2>2 DEF TakeLease, Leasable
  <2>3. QED
    BY <1>5, <2>2 DEF TakeLease
<1>6. CASE Calls(s)
  <2>1. at \in Channel /\ row[at].state = "leased"
    BY <1>6, CallsAre, HolderKnows DEF CallEnds, Underway
  <2>2. \/ UNCHANGED <<row, sent>>
        \/ row' = row /\ sent' = [sent EXCEPT ![at] = sent[at] \cup {s}]
    BY <1>6, CallsAre DEF CallEnds
  <2>3. QED
    BY <1>2, <2>1, <2>2
<1>7. CASE Settle(s)
  <2>1. at \in Channel /\ row[at].state = "leased"
    BY <1>7, HolderKnows DEF Settle, Underway
  <2>2. QED
    BY <1>2, <1>7, <2>1, SettleIs
<1>8. CASE Cancel(s)
  <2>1. at \in Channel /\ row[at].state = "leased"
    BY <1>8, HolderKnows DEF Cancel, Underway
  <2>2. QED
    BY <1>2, <1>8, <2>1 DEF Cancel
<1>9. QED
  BY <1>3, <1>4, <1>5, <1>6, <1>7, <1>8 DEF Works, Calls

\* Once a row names a message of the provider it names it for good, and nothing more
\* is sent on that channel, whatever a request or the reconciler had read before.
THEOREM NothingAfterProof == Spec => NeverAfterProof
<1> DEFINE Proof(ch) == row[ch].provider # None => Kept(ch)
<1>1. ASSUME IInv, [Next]_vars PROVE \A ch \in Channel : Proof(ch)
  <2>1. CASE \E s \in Sender : Start(s) \/ Works(s) \/ Die(s)
    BY <1>1, <2>1, WritesOwnRow, KeptElsewhere DEF Kept
  <2>2. CASE Tick
    BY <1>1, <2>2, TickMarks DEF IInv, Tick, Marked, Kept
  <2>3. CASE WindowMoves \/ (\E c \in Reconciler : List(c)) \/ UNCHANGED vars
    BY <2>3 DEF WindowMoves, List, vars, Kept
  <2>4. CASE \E c \in Reconciler : Apply(c)
    BY <1>1, <2>4, ApplyMarks DEF Apply, Marked, Kept
  <2>5. QED
    BY <1>1, <2>1, <2>2, <2>3, <2>4 DEF Next, Reconcile
<1>2. IInv /\ [Next]_vars =>
         [\A ch \in Channel :
             row[ch].provider # None =>
                 /\ row'[ch].provider = row[ch].provider
                 /\ row'[ch].state = row[ch].state
                 /\ sent'[ch] = sent[ch]]_vars
  BY <1>1 DEF Kept
<1>3. QED
  BY <1>2, Inductive, PTL DEF Spec, NeverAfterProof
-----------------------------------------------------------------------------
(* An attempt is counted before the provider is asked, so the requests it   *)
(* was or is being asked by never outnumber the attempts.                   *)

\* A step after which nobody new is asking.
LEMMA BudgetKept ==
    ASSUME TypeOK, WithinBudget,
           \A ch \in Channel : /\ Takers(ch)' \subseteq Takers(ch)
                               /\ row'[ch].attempts = row[ch].attempts
                               /\ row'[ch].state = "absent" => row[ch].state = "absent"
    PROVE  WithinBudget'
<1> SUFFICES ASSUME NEW ch \in Channel
             PROVE  /\ IsFiniteSet(Takers(ch)')
                    /\ Cardinality(Takers(ch)') <= row'[ch].attempts
                    /\ row'[ch].attempts <= MaxAttempts
                    /\ row'[ch].state = "absent" => row'[ch].attempts = 0
  BY DEF WithinBudget
<1>1. /\ IsFiniteSet(Takers(ch)) /\ Cardinality(Takers(ch)) <= row[ch].attempts
      /\ row[ch].attempts <= MaxAttempts
      /\ row[ch].state = "absent" => row[ch].attempts = 0
      /\ Takers(ch)' \subseteq Takers(ch)
      /\ row'[ch].attempts = row[ch].attempts
      /\ row'[ch].state = "absent" => row[ch].state = "absent"
  BY DEF WithinBudget
<1>2. /\ IsFiniteSet(Takers(ch)')
      /\ Cardinality(Takers(ch)') <= Cardinality(Takers(ch))
  BY <1>1, FS_Subset
<1>3. /\ Cardinality(Takers(ch)) \in Nat /\ Cardinality(Takers(ch)') \in Nat
      /\ MaxAttempts \in Nat
  BY <1>1, <1>2, FS_CardinalityType, LedgerAssumption DEF LedgerAssumption
<1>4. row[ch].attempts \in Nat
  BY DEF TypeOK, Delivery
<1>5. QED
  BY <1>1, <1>2, <1>3, <1>4

\* Who is at the provider after a step of s that leaves s elsewhere.
LEMMA TakersShrink ==
    ASSUME TypeOK, NEW s \in Sender, \A v \in Sender \ {s} : req'[v] = req[v],
           req'[s].pc # "sending", NEW ch \in Channel, sent'[ch] \subseteq Takers(ch)
    PROVE  Takers(ch)' \subseteq Takers(ch)
<1>1. \A v \in Sender \ {s} : Current(v)' = Current(v)
  BY DEF Current
<1>2. QED
  BY <1>1 DEF Takers
LEMMA OneMore ==
    ASSUME NEW S, NEW x, IsFiniteSet(S)
    PROVE  /\ IsFiniteSet(S \cup {x})
           /\ Cardinality(S \cup {x}) <= Cardinality(S) + 1
<1>1. /\ IsFiniteSet(S \cup {x})
      /\ \/ Cardinality(S \cup {x}) = Cardinality(S)
         \/ Cardinality(S \cup {x}) = Cardinality(S) + 1
  BY FS_AddElement
<1>2. Cardinality(S) \in Nat
  BY FS_CardinalityType
<1>3. QED
  BY <1>1, <1>2

LEMMA TakeLeaseBudget ==
    ASSUME IInv, WithinBudget, NEW s \in Sender, TakeLease(s), req'[s].pc = "sending"
    PROVE  WithinBudget'
<1>1. /\ TypeOK /\ req[s].pc = "lease"
      /\ req \in [Sender -> Request] /\ req[s].rest # {}
  BY DEF TakeLease, IInv, TypeOK
<1> PICK ch \in Channel : ch = Current(s)
  BY <1>1, CurrentIn
<1>2. ~To(s, "readback") /\ ~Answers(s, "error")
  <2>1. CASE To(s, "readback")
    BY <1>1, <2>1 DEF To, Request
  <2>2. CASE Answers(s, "error")
    BY <1>1, <2>2 DEF Answers, Ends, IdleRequest
  <2>3. QED
    BY <2>1, <2>2
<1>3. /\ Leasable(row[ch]) /\ ~OutOfBudget(row[ch])
      /\ row' = [row EXCEPT ![ch] = LeaseTaken(row[ch])]
      /\ To(s, "sending") /\ sent' = sent
  BY <1>2 DEF TakeLease
<1>4. /\ row'[ch].state = "leased" /\ row'[ch].attempts = row[ch].attempts + 1
      /\ \A x \in Channel \ {ch} : row'[x] = row[x]
  <2>1. row \in [Channel -> Delivery] /\ row[ch] \in Delivery
    BY <1>1 DEF TypeOK
  <2>2. QED
    BY <1>3, <2>1, LeaseTakenRow
<1>5. /\ \A v \in Sender \ {s} : req'[v] = req[v]
      /\ req'[s].rest = req[s].rest
  BY <1>1, <1>3 DEF To, Request
<1>6. \A v \in Sender : Current(v)' = Current(v)
  BY <1>5 DEF Current
<1>7. /\ \A x \in Channel \ {ch} : Takers(x)' = Takers(x)
      /\ Takers(ch)' \subseteq Takers(ch) \cup {s}
  BY <1>1, <1>3, <1>5, <1>6 DEF Takers
<1>8. /\ IsFiniteSet(Takers(ch)) /\ Cardinality(Takers(ch)) <= row[ch].attempts
      /\ row[ch].attempts <= MaxAttempts
  BY <1>1 DEF WithinBudget
<1>9. /\ IsFiniteSet(Takers(ch) \cup {s})
      /\ Cardinality(Takers(ch) \cup {s}) <= Cardinality(Takers(ch)) + 1
  BY <1>8, OneMore
<1>10. /\ IsFiniteSet(Takers(ch)')
      /\ Cardinality(Takers(ch)') <= Cardinality(Takers(ch) \cup {s})
  BY <1>7, <1>9, FS_Subset
<1>11. /\ row[ch].attempts \in Nat /\ MaxAttempts \in Nat
       /\ row[ch].attempts # MaxAttempts
  <2>1. row[ch] \in Delivery
    BY <1>1 DEF TypeOK
  <2>2. QED
    BY <1>3, <2>1, LedgerAssumption DEF LedgerAssumption, OutOfBudget, Delivery
<1>12. /\ Cardinality(Takers(ch)) \in Nat
       /\ Cardinality(Takers(ch)') \in Nat
       /\ Cardinality(Takers(ch) \cup {s}) \in Nat
  BY <1>8, <1>9, <1>10, FS_CardinalityType
<1>13. /\ Cardinality(Takers(ch)') <= row'[ch].attempts
       /\ row'[ch].attempts <= MaxAttempts
  BY <1>4, <1>8, <1>9, <1>10, <1>11, <1>12
<1>14. ASSUME NEW x \in Channel \ {ch}
       PROVE  /\ IsFiniteSet(Takers(x)')
              /\ Cardinality(Takers(x)') <= row'[x].attempts
              /\ row'[x].attempts <= MaxAttempts
              /\ row'[x].state = "absent" => row'[x].attempts = 0
  BY <1>4, <1>7 DEF WithinBudget
<1>15. QED
  BY <1>4, <1>10, <1>13, <1>14 DEF WithinBudget

\* The other steps of a request.
LEMMA OtherBudget ==
    ASSUME IInv, WithinBudget, NEW s \in Sender, Start(s) \/ Works(s) \/ Die(s),
           ~(TakeLease(s) /\ req'[s].pc = "sending")
    PROVE  WithinBudget'
<1> DEFINE at == Current(s)
           Others == \A v \in Sender \ {s} : req'[v] = req[v]
           Attempts(ch) == /\ row'[ch].attempts = row[ch].attempts
                           /\ row'[ch].state = "absent" => row[ch].state = "absent"
<1>1. TypeOK
  BY DEF IInv
<1>2. ASSUME Others, req'[s].pc # "sending",
             \A ch \in Channel : sent'[ch] \subseteq Takers(ch) /\ Attempts(ch)
      PROVE  WithinBudget'
  BY <1>1, <1>2, TakersShrink, BudgetKept
<1>3. \A ch \in Channel : sent[ch] \subseteq Takers(ch)
  BY DEF Takers
<1>4. ASSUME NEW pc \in Pc \ {"sending"}, To(s, pc)
      PROVE  Others /\ req'[s].pc # "sending"
  BY <1>1, <1>4 DEF To, TypeOK, Request
<1>5. ASSUME NEW pc \in {"answered", "dead"}, NEW answer, Ends(s, pc, answer)
      PROVE  Others /\ req'[s].pc # "sending"
  BY <1>1, <1>5 DEF Ends, TypeOK, IdleRequest
<1>6. ASSUME req[s].rest # {}, MovesOn(s)
      PROVE  Others /\ req'[s].pc # "sending"
  BY <1>1, <1>6, MovesOnTo DEF TypeOK
<1>7. CASE Start(s)
  <2>1. Others /\ req'[s].pc # "sending"
    BY <1>1, <1>5, <1>7 DEF Start, Answers, TypeOK, Request
  <2>2. QED
    BY <1>2, <1>3, <1>7, <2>1 DEF Start
<1>8. CASE Find(s)
  <2>1. req[s].rest # {} /\ UNCHANGED <<row, sent>>
    BY <1>8, <1>1 DEF Find, TypeOK
  <2>2. Others /\ req'[s].pc # "sending"
    BY <1>4, <1>5, <1>6, <1>8, <2>1 DEF Find, Answers, Pc
  <2>3. QED
    BY <1>2, <1>3, <2>1, <2>2
<1>9. CASE ReadBack(s) \/ Die(s) \/ Correct(s)
  <2>1. Others /\ req'[s].pc # "sending" /\ UNCHANGED <<row, sent>>
    BY <1>4, <1>5, <1>9 DEF ReadBack, Die, Correct, Answers, Pc
  <2>2. QED
    BY <1>2, <1>3, <2>1
<1>10. CASE Reserve(s)
  <2>1. Others /\ req'[s].pc # "sending" /\ UNCHANGED sent
    BY <1>4, <1>10 DEF Reserve, Pc
  <2>2. CASE row[at].state = "absent"
    <3>1. at \in Channel
      BY <1>1, <1>10, CurrentIn DEF Reserve, TypeOK
    <3>2. row[at].attempts = 0 /\ Enqueued.attempts = 0 /\ Enqueued.state = "pending"
      BY <2>2, <3>1 DEF WithinBudget, Enqueued, NoDelivery
    <3>3. \A ch \in Channel : Attempts(ch)
      BY <1>1, <1>10, <2>2, <3>1, <3>2 DEF Reserve, TypeOK
    <3>4. QED
      BY <1>2, <1>3, <2>1, <3>3
  <2>3. CASE row[at].state # "absent"
    BY <1>2, <1>3, <1>10, <2>1, <2>3 DEF Reserve
  <2>4. QED
    BY <2>2, <2>3
<1>11. CASE TakeLease(s)
  <2>1. ~(Leasable(row[at]) /\ ~OutOfBudget(row[at]))
    BY <1>1, <1>11 DEF TakeLease, To, TypeOK, Request
  <2>2. /\ To(s, "readback") \/ Answers(s, "error")
        /\ UNCHANGED <<row, sent>>
    BY <1>11, <2>1 DEF TakeLease
  <2>3. Others /\ req'[s].pc # "sending"
    BY <1>4, <1>5, <2>2 DEF Answers, Pc
  <2>4. QED
    BY <1>2, <1>3, <2>2, <2>3
<1>12. CASE Calls(s)
  <2>1. PICK result \in {"accepted", "failed", "permanent", "shut"}, took \in BOOLEAN :
           CallEnds(s, result, took)
    BY <1>12, CallsAre
  <2>2. /\ at \in Channel /\ req[s].pc = "sending" /\ row' = row
        /\ \A ch \in Channel : sent'[ch] = sent[ch] \/ (ch = at /\ sent'[ch] = sent[ch] \cup {s})
    BY <1>1, <2>1, HolderKnows DEF CallEnds, Underway, TypeOK
  <2>3. s \in Takers(at)
    BY <2>2 DEF Takers
  <2>4. Others /\ req'[s].pc # "sending"
    BY <1>1, <2>1 DEF CallEnds, TypeOK, Request
  <2>5. \A ch \in Channel : sent'[ch] \subseteq Takers(ch)
    BY <1>3, <2>2, <2>3
  <2>6. QED
    BY <1>2, <2>2, <2>4, <2>5
<1>13. CASE Settle(s) \/ Cancel(s)
  <2>1. /\ at \in Channel /\ row[at].state = "leased" /\ req[s].rest # {}
        /\ row[at] \in Delivery
    BY <1>1, <1>13, HolderKnows DEF Settle, Cancel, Underway, TypeOK
  <2>2. Others /\ req'[s].pc # "sending"
    BY <1>5, <1>6, <1>13, <2>1, SettleIs DEF Answers, Cancel
  <2>3. \A ch \in Channel : Attempts(ch) /\ sent' = sent
    <3>1. CASE Settle(s)
      <4>1. /\ row' = [row EXCEPT ![at] = SettledRow(s)] /\ sent' = sent
            /\ SettlesAs(req[s].result) # "absent"
        BY <3>1, SettleIs DEF SettlesAs
      <4>2. /\ SettledRow(s).attempts = row[at].attempts
            /\ SettledRow(s).state # "absent"
        BY <2>1, <4>1 DEF SettledRow, Delivery
      <4>3. QED
        BY <1>1, <2>1, <4>1, <4>2 DEF TypeOK
    <3>2. CASE Cancel(s)
      BY <1>1, <2>1, <3>2 DEF Cancel, TypeOK, Delivery
    <3>3. QED
      BY <1>13, <3>1, <3>2
  <2>4. QED
    BY <1>2, <1>3, <2>1, <2>2, <2>3
<1>14. QED
  BY <1>7, <1>8, <1>9, <1>10, <1>11, <1>12, <1>13 DEF Works, Calls

LEMMA NextBudget == IInv /\ WithinBudget /\ [Next]_vars => WithinBudget'
<1> SUFFICES ASSUME IInv, WithinBudget, [Next]_vars PROVE WithinBudget'
  OBVIOUS
<1>1. CASE \E s \in Sender : Start(s) \/ Works(s) \/ Die(s)
  BY <1>1, TakeLeaseBudget, OtherBudget DEF Works
<1>2. ASSUME UNCHANGED <<req, sent>>,
             \A ch \in Channel : row'[ch].attempts = row[ch].attempts /\ row'[ch].state = row[ch].state
      PROVE  WithinBudget'
  <2>1. \A ch \in Channel : Takers(ch)' = Takers(ch)
    BY <1>2 DEF Takers, Current
  <2>2. QED
    BY <1>2, <2>1 DEF WithinBudget
<1>3. CASE Tick
  BY <1>2, <1>3, TickMarks DEF Tick, Marked, IInv
<1>4. CASE \E c \in Reconciler : Apply(c)
  BY <1>2, <1>4, ApplyMarks DEF Apply, Marked
<1>5. CASE WindowMoves \/ (\E c \in Reconciler : List(c)) \/ UNCHANGED vars
  BY <1>2, <1>5 DEF WindowMoves, List, vars
<1>6. QED
  BY <1>1, <1>3, <1>4, <1>5 DEF Next, Reconcile

LEMMA InitBudget == Init => WithinBudget
<1> SUFFICES ASSUME Init, NEW ch \in Channel
             PROVE  /\ Takers(ch) = {} /\ row[ch].attempts = 0
  BY FS_EmptySet, LedgerAssumption DEF WithinBudget, LedgerAssumption
<1>1. QED
  BY DEF Init, Takers, IdleRequest, NoDelivery

\* A customer is sent the same message at most once per attempt, and the ledger has
\* no attempts beyond the budget, however many requests repeat the key and however
\* many answers of the provider are lost.
THEOREM CopiesStayWithinBudget == Spec => []CopiesWithinBudget
<1>1. IInv /\ WithinBudget => CopiesWithinBudget
  <2> SUFFICES ASSUME IInv, WithinBudget, NEW ch \in Channel
               PROVE  Cardinality(sent[ch]) <= row[ch].attempts /\ row[ch].attempts <= MaxAttempts
    BY DEF CopiesWithinBudget
  <2>1. IsFiniteSet(Takers(ch)) /\ sent[ch] \subseteq Takers(ch)
    BY DEF WithinBudget, Takers
  <2>2. IsFiniteSet(sent[ch]) /\ Cardinality(sent[ch]) <= Cardinality(Takers(ch))
    BY <2>1, FS_Subset
  <2>3. /\ Cardinality(sent[ch]) \in Nat /\ Cardinality(Takers(ch)) \in Nat
        /\ row[ch].attempts \in Nat
    BY <2>1, <2>2, FS_CardinalityType DEF IInv, TypeOK, Delivery
  <2>4. QED
    BY <2>2, <2>3 DEF WithinBudget
<1>2. QED
  BY <1>1, Inductive, InitBudget, NextBudget, PTL DEF Spec
-----------------------------------------------------------------------------
(***************************************************************************)
(* The sweep that follows calls up, for any number of calls, of runs at a  *)
(* time and of mishaps.                                                    *)
(***************************************************************************)

\* A wish on record is in consent_events, and what is there took the permission.
WishesConverge ==
    /\ \A c \in Call : analysed[c] \cap asks[c] # {} => c \in optOut
    /\ optOut \cap permitted = {}

\* A run is about to mark a call only after the message of that call.
MarksWhatItSent == \A w \in Sweep : sweep[w].pc = "mark" => CurrentCall(w) \in written

\* A letter is settled as submitted only when the provider took it.
LettersTaken == \A c \in Call : letter[c].state = "submitted" => c \in written

FInv ==
    /\ FollowupTypeOK
    /\ WishesConverge
    /\ LettersTaken
    /\ MarksWhatItSent
    /\ MarkerMeansDone

LEMMA CallsAreNumbers == Call \subseteq Nat
BY FollowupAssumption DEF FollowupAssumption, Call

LEMMA CurrentIsCall ==
    ASSUME FollowupTypeOK, NEW w \in Sweep, sweep[w].pc # "idle"
    PROVE  CurrentCall(w) \in Call
<1>1. sweep[w].rest \in SUBSET Call /\ sweep[w].rest # {}
  BY DEF FollowupTypeOK, Run
<1>2. sweep[w].rest \in SUBSET Nat
  BY <1>1, CallsAreNumbers
<1>3. QED
  BY <1>1, <1>2, MinIn DEF CurrentCall

\* What a run may do with its list.
LEMMA TurnsType ==
    ASSUME FollowupTypeOK, NEW w \in Sweep, NEW rest \in SUBSET Call, Turns(w, rest)
    PROVE  /\ sweep' \in [Sweep -> Run]
           /\ \A x \in Sweep : sweep'[x].pc # "idle" => sweep'[x].rest # {}
           /\ \A x \in Sweep \ {w} : sweep'[x] = sweep[x]
           /\ sweep'[w].pc \in {"idle", "check"}
<1> DEFINE next == IF rest = {} THEN IdleRun
                   ELSE [IdleRun EXCEPT !.pc = "check", !.rest = rest]
<1>1. next \in Run /\ next.pc \in {"idle", "check"} /\ (next.pc # "idle" => next.rest # {})
  BY DEF Run, IdleRun, Stage
<1>2. sweep' = [sweep EXCEPT ![w] = next]
  BY DEF Turns
<1>3. QED
  BY <1>1, <1>2 DEF FollowupTypeOK

LEMMA LeavesType ==
    ASSUME FollowupTypeOK, NEW w \in Sweep, LeavesIt(w)
    PROVE  /\ sweep' \in [Sweep -> Run]
           /\ \A x \in Sweep : sweep'[x].pc # "idle" => sweep'[x].rest # {}
           /\ \A x \in Sweep \ {w} : sweep'[x] = sweep[x]
           /\ sweep'[w].pc \in {"idle", "check"}
<1>1. sweep[w].rest \ {CurrentCall(w)} \in SUBSET Call
  BY DEF FollowupTypeOK, Run
<1>2. QED
  BY <1>1, TurnsType DEF LeavesIt

LEMMA GoesType ==
    ASSUME FollowupTypeOK, NEW w \in Sweep, NEW pc \in Stage \ {"idle"},
           sweep[w].pc # "idle", Goes(w, pc)
    PROVE  /\ sweep' \in [Sweep -> Run]
           /\ \A x \in Sweep : sweep'[x].pc # "idle" => sweep'[x].rest # {}
           /\ \A x \in Sweep \ {w} : sweep'[x] = sweep[x]
           /\ sweep'[w].pc = pc /\ sweep'[w].rest = sweep[w].rest
BY DEF FollowupTypeOK, Run, Goes

\* A step of one run keeps the invariant when it revokes what it records, and marks
\* what was written or revoked.
LEMMA RunFInv ==
    ASSUME FInv, NEW w \in Sweep,
           sweep' \in [Sweep -> Run],
           \A x \in Sweep : sweep'[x].pc # "idle" => sweep'[x].rest # {},
           \A x \in Sweep \ {w} : sweep'[x] = sweep[x],
           sweep'[w].pc = "mark" => CurrentCall(w)' \in written',
           optOut \subseteq optOut', optOut' \subseteq Call,
           permitted' \subseteq permitted, optOut' \cap permitted' = {},
           marker' \subseteq marker \cup (written' \cap Call) \cup optOut',
           written \subseteq written', written' \subseteq Call,
           reachable' \subseteq reachable, letter' \in [Call -> Letter], LettersTaken',
           mishaps' \in 0 .. MaxMishaps, UNCHANGED <<asks, analysed>>
    PROVE  FInv'
<1> USE DEF FInv
<1>1. FollowupTypeOK'
  BY DEF FollowupTypeOK
<1>2. WishesConverge'
  BY DEF WishesConverge
<1>3. \A x \in Sweep \ {w} : CurrentCall(x)' = CurrentCall(x)
  BY DEF CurrentCall
<1>4. MarksWhatItSent'
  BY <1>3 DEF MarksWhatItSent
<1>5. MarkerMeansDone'
  BY DEF MarkerMeansDone
<1>6. QED
  BY <1>1, <1>2, <1>4, <1>5

\* What the analyses and the contact's own messages do.
LEMMA MishapType ==
    ASSUME FollowupTypeOK, Mishap
    PROVE  mishaps' \in 0 .. MaxMishaps
BY FollowupAssumption DEF FollowupTypeOK, FollowupAssumption, Mishap

LEMMA BesideFInv ==
    ASSUME FInv, NEW c \in Call, Block(c) \/ Window(c) \/ \E s \in Source : Analyse(c, s)
    PROVE  FInv'
<1> USE DEF FInv
<1>1. UNCHANGED <<asks, marker, sweep, letter, written>> /\ permitted' \subseteq permitted
  BY DEF Block, Window, beside, Analyse
<1>2. MarksWhatItSent' /\ LettersTaken'
  BY <1>1 DEF MarksWhatItSent, CurrentCall, LettersTaken
<1>3. CASE Block(c) \/ Window(c)
  <2>1. UNCHANGED <<analysed, optOut>>
    BY <1>3 DEF Block, Window, beside
  <2>2. mishaps' \in 0 .. MaxMishaps
    BY <1>3, MishapType DEF Block, Window, FollowupTypeOK
  <2>3. reachable' \subseteq Call
    BY <1>3 DEF Block, Window, FollowupTypeOK
  <2>4. FollowupTypeOK' /\ WishesConverge' /\ MarkerMeansDone'
    BY <1>1, <2>1, <2>2, <2>3 DEF FollowupTypeOK, WishesConverge, MarkerMeansDone
  <2>5. QED
    BY <1>2, <2>4
<1>4. ASSUME NEW s \in Source, Analyse(c, s) PROVE FInv'
  <2> UNCHANGED <<reachable, mishaps>>
    BY <1>4 DEF Analyse
  <2>1. /\ analysed' = [analysed EXCEPT ![c] = analysed[c] \cup {s}]
        /\ MergedOptOut(c, s) <=> (analysed[c] \cup {s}) \cap asks[c] # {}
    BY <1>4 DEF Analyse, MergedOptOut
  <2>2. CASE MergedOptOut(c, s) /\ c \notin optOut
    <3>1. optOut' = optOut \cup {c} /\ permitted' = permitted \ {c}
      BY <1>4, <2>2 DEF Analyse
    <3>2. FollowupTypeOK'
      BY <1>1, <2>1, <3>1 DEF FollowupTypeOK
    <3>3. WishesConverge' /\ MarkerMeansDone'
      BY <1>1, <2>1, <3>1 DEF FollowupTypeOK, WishesConverge, MarkerMeansDone
    <3>4. QED
      BY <1>2, <3>2, <3>3
  <2>3. CASE ~(MergedOptOut(c, s) /\ c \notin optOut)
    <3>1. UNCHANGED <<optOut, permitted>>
      BY <1>4, <2>3 DEF Analyse
    <3>2. FollowupTypeOK' /\ MarkerMeansDone'
      BY <1>1, <2>1, <3>1 DEF FollowupTypeOK, MarkerMeansDone
    <3>3. WishesConverge'
      BY <1>1, <2>1, <2>3, <3>1 DEF FollowupTypeOK, WishesConverge
    <3>4. QED
      BY <1>2, <3>2, <3>3
  <2>4. QED
    BY <2>2, <2>3
<1>5. QED
  BY <1>3, <1>4

LEMMA ListFInv ==
    ASSUME FInv, NEW w \in Sweep, ListCalls(w)
    PROVE  FInv'
<1>1. Listed \in SUBSET Call /\ Turns(w, Listed)
  BY DEF ListCalls, Listed
<1>2. /\ UNCHANGED <<asks, analysed, optOut, permitted>>
      /\ UNCHANGED <<reachable, marker, letter, written, mishaps>>
      /\ FollowupTypeOK
  BY DEF ListCalls, beside, FInv
<1>3. QED
  BY <1>1, <1>2, TurnsType, RunFInv DEF FInv, FollowupTypeOK, WishesConverge, LettersTaken

LEMMA RevalidateFInv ==
    ASSUME FInv, NEW w \in Sweep,
           Check(w) \/ Recheck(w)
    PROVE  FInv'
<1> DEFINE c == CurrentCall(w)
<1>1. /\ FollowupTypeOK /\ sweep[w].pc # "idle"
      /\ UNCHANGED <<asks, analysed, reachable, letter, written, mishaps>> /\ LettersTaken'
  BY DEF FInv, LettersTaken, Check, Recheck, Revalidate
<1>2. c \in Call
  BY <1>1, CurrentIsCall
<1>3. CASE Revoke(w)
  <2>1. /\ LeavesIt(w) /\ optOut' = optOut \cup {c} /\ marker' = marker \cup {c}
        /\ permitted' = IF c \in optOut THEN permitted ELSE permitted \ {c}
    BY <1>3 DEF Revoke
  <2>2. /\ permitted' \subseteq permitted /\ optOut' \cap permitted' = {}
        /\ optOut \subseteq optOut' /\ optOut' \subseteq Call
        /\ marker' \subseteq marker \cup optOut'
    BY <1>1, <1>2, <2>1 DEF FInv, WishesConverge, FollowupTypeOK
  <2>3. /\ sweep' \in [Sweep -> Run]
        /\ \A x \in Sweep : sweep'[x].pc # "idle" => sweep'[x].rest # {}
        /\ \A x \in Sweep \ {w} : sweep'[x] = sweep[x]
        /\ sweep'[w].pc # "mark"
    BY <1>1, <2>1, LeavesType
  <2>4. QED
    BY <1>1, <2>2, <2>3, RunFInv DEF FollowupTypeOK
<1>4. CASE /\ Goes(w, "blocked?") \/ Goes(w, "gate")
           /\ UNCHANGED <<optOut, permitted, marker>>
  <2>1. /\ sweep' \in [Sweep -> Run]
        /\ \A x \in Sweep : sweep'[x].pc # "idle" => sweep'[x].rest # {}
        /\ \A x \in Sweep \ {w} : sweep'[x] = sweep[x]
        /\ sweep'[w].pc # "mark"
    BY <1>1, <1>4, GoesType DEF Stage
  <2>2. QED
    BY <1>1, <1>4, <2>1, RunFInv DEF FInv, FollowupTypeOK, WishesConverge
<1>5. QED
  BY <1>3, <1>4 DEF Check, Recheck, Revalidate

\* The steps of a run that write nothing.
LEMMA OnwardFInv ==
    ASSUME FInv, NEW w \in Sweep, BlockedCheck(w) \/ Gate(w)
    PROVE  FInv'
<1>1. /\ FollowupTypeOK /\ sweep[w].pc # "idle"
      /\ UNCHANGED <<asks, analysed, optOut, permitted>>
      /\ UNCHANGED <<reachable, marker, letter, written, mishaps>>
  BY DEF FInv, BlockedCheck, Gate, beside
<1>2. Goes(w, "recheck") \/ Goes(w, "send") \/ LeavesIt(w)
  BY DEF BlockedCheck, Gate, SkipsIt, PutsItOff
<1>3. /\ sweep' \in [Sweep -> Run]
      /\ \A x \in Sweep : sweep'[x].pc # "idle" => sweep'[x].rest # {}
      /\ \A x \in Sweep \ {w} : sweep'[x] = sweep[x]
      /\ sweep'[w].pc # "mark"
  BY <1>1, <1>2, GoesType, LeavesType DEF Stage
<1>4. QED
  BY <1>1, <1>3, RunFInv DEF FInv, FollowupTypeOK, WishesConverge, LettersTaken

\* A run leaves its call, goes to the provider with it, or goes on to mark it when
\* the provider has it.
LEMMA GoesOrLeaves ==
    ASSUME FollowupTypeOK, NEW w \in Sweep, sweep[w].pc # "idle",
           \/ LeavesIt(w) \/ Goes(w, "provider")
           \/ Goes(w, "mark") /\ CurrentCall(w) \in written'
    PROVE  /\ sweep' \in [Sweep -> Run]
           /\ \A x \in Sweep : sweep'[x].pc # "idle" => sweep'[x].rest # {}
           /\ \A x \in Sweep \ {w} : sweep'[x] = sweep[x]
           /\ sweep'[w].pc = "mark" => CurrentCall(w)' \in written'
<1>1. CASE LeavesIt(w)
  BY <1>1, LeavesType
<1>2. CASE Goes(w, "provider")
  BY <1>2, GoesType DEF Stage
<1>3. CASE Goes(w, "mark") /\ CurrentCall(w) \in written'
  BY <1>3, GoesType DEF Stage, CurrentCall
<1>4. QED
  BY <1>1, <1>2, <1>3

LEMMA SendFInv ==
    ASSUME FInv, NEW w \in Sweep, Send(w)
    PROVE  FInv'
<1> DEFINE c == CurrentCall(w)
<1>1. /\ FollowupTypeOK /\ sweep[w].pc # "idle"
      /\ UNCHANGED <<asks, analysed, optOut, permitted>>
      /\ UNCHANGED <<reachable, marker, written, mishaps>>
  BY DEF FInv, Send, beside
<1>2. c \in Call /\ letter \in [Call -> Letter]
  BY <1>1, CurrentIsCall DEF FollowupTypeOK
<1>3. CASE MayBeLeased(letter[c])
  <2>1. letter' = [letter EXCEPT ![c] = Leased(letter[c])] /\ Goes(w, "provider")
    BY <1>3 DEF Send
  <2>2. Leased(letter[c]) \in Letter /\ Leased(letter[c]).state # "submitted"
    BY <1>2, <1>3, FollowupAssumption DEF Leased, MayBeLeased, Letter, FollowupAssumption
  <2>3. letter' \in [Call -> Letter] /\ LettersTaken'
    BY <1>1, <1>2, <2>1, <2>2 DEF FInv, LettersTaken
  <2>4. QED
    BY <1>1, <2>1, <2>3, GoesOrLeaves, RunFInv DEF FInv, FollowupTypeOK, WishesConverge
<1>4. CASE ~MayBeLeased(letter[c])
  <2>1. /\ UNCHANGED letter
        /\ LeavesIt(w) \/ (Goes(w, "mark") /\ letter[c].state = "submitted")
    BY <1>4 DEF Send, PutsItOff
  <2>2. LeavesIt(w) \/ (Goes(w, "mark") /\ c \in written')
    BY <1>1, <1>2, <2>1 DEF FInv, LettersTaken
  <2>3. LettersTaken'
    BY <1>1, <2>1 DEF FInv, LettersTaken
  <2>4. QED
    BY <1>1, <2>1, <2>2, <2>3, GoesOrLeaves, RunFInv DEF FInv, FollowupTypeOK, WishesConverge
<1>5. QED
  BY <1>3, <1>4

LEMMA AnsweredFInv ==
    ASSUME FInv, NEW w \in Sweep, Answered(w)
    PROVE  FInv'
<1> DEFINE c == CurrentCall(w)
<1>1. /\ FollowupTypeOK /\ sweep[w].pc # "idle"
      /\ UNCHANGED <<asks, analysed, optOut, permitted>> /\ UNCHANGED marker
  BY DEF FInv, Answered, beside
<1>2. c \in Call /\ letter \in [Call -> Letter]
  BY <1>1, CurrentIsCall DEF FollowupTypeOK
<1>3. PICK state \in Outcome :
        /\ IF state = "submitted" THEN UNCHANGED mishaps ELSE Mishap
        /\ letter' = [letter EXCEPT ![c].state = state]
        /\ \/ state # "submitted" /\ UNCHANGED written
           \/ state \in {"submitted", "failed_retryable"} /\ written' = written \cup {c}
        /\ reachable' = IF state \in {"dead_letter", "cancelled"}
                        THEN reachable \ {c} ELSE reachable
        /\ IF state = "submitted" THEN Goes(w, "mark") ELSE PutsItOff(w)
  BY DEF Answered
<1>4. mishaps' \in 0 .. MaxMishaps
  BY <1>1, <1>3, MishapType DEF FollowupTypeOK
<1>5. letter' \in [Call -> Letter]
  BY <1>2, <1>3 DEF Letter, Outcome
<1>6. /\ written \subseteq written' /\ written' \subseteq Call
      /\ state = "submitted" => c \in written'
  BY <1>1, <1>2, <1>3 DEF FollowupTypeOK
<1>7. LettersTaken'
  BY <1>2, <1>3, <1>6 DEF FInv, LettersTaken, Letter
<1>8. LeavesIt(w) \/ (Goes(w, "mark") /\ c \in written')
  BY <1>3, <1>6 DEF PutsItOff
<1>9. reachable' \subseteq reachable
  BY <1>3
<1>10. QED
  BY <1>1, <1>4, <1>5, <1>6, <1>7, <1>8, <1>9, GoesOrLeaves, RunFInv
     DEF FInv, FollowupTypeOK, WishesConverge

LEMMA MarkFInv ==
    ASSUME FInv, NEW w \in Sweep, Mark(w)
    PROVE  FInv'
<1> DEFINE c == CurrentCall(w)
<1>1. /\ FollowupTypeOK /\ sweep[w].pc = "mark" /\ LeavesIt(w)
      /\ marker' = marker \cup {c}
      /\ UNCHANGED <<asks, analysed, optOut, permitted>>
      /\ UNCHANGED <<reachable, letter, written, mishaps>>
  BY DEF FInv, Mark, beside
<1>2. c \in Call /\ c \in written
  BY <1>1, CurrentIsCall DEF FInv, MarksWhatItSent
<1>3. /\ sweep' \in [Sweep -> Run]
      /\ \A x \in Sweep : sweep'[x].pc # "idle" => sweep'[x].rest # {}
      /\ \A x \in Sweep \ {w} : sweep'[x] = sweep[x]
      /\ sweep'[w].pc # "mark"
  BY <1>1, LeavesType
<1>4. QED
  BY <1>1, <1>2, <1>3, RunFInv DEF FInv, FollowupTypeOK, WishesConverge, LettersTaken

LEMMA BreaksFInv ==
    ASSUME FInv, NEW w \in Sweep, Dies(w) \/ Throws(w)
    PROVE  FInv'
<1>1. /\ FollowupTypeOK /\ sweep[w].pc # "idle" /\ Mishap
      /\ UNCHANGED <<asks, analysed, optOut, permitted>>
      /\ UNCHANGED <<reachable, marker, letter>>
      /\ written' \in {written, written \cup {CurrentCall(w)}}
  BY DEF FInv, Dies, Throws, Breaks, beside
<1>2. mishaps' \in 0 .. MaxMishaps
  BY <1>1, MishapType
<1>3. written \subseteq written' /\ written' \subseteq Call
  BY <1>1, CurrentIsCall DEF FollowupTypeOK
<1>4. LettersTaken'
  BY <1>1, <1>3 DEF FInv, LettersTaken
<1>5. IdleRun \in Run /\ IdleRun.pc = "idle"
  BY DEF IdleRun, Run, Stage
<1>6. /\ sweep' \in [Sweep -> Run]
      /\ \A x \in Sweep : sweep'[x].pc # "idle" => sweep'[x].rest # {}
      /\ \A x \in Sweep \ {w} : sweep'[x] = sweep[x]
      /\ sweep'[w].pc # "mark"
  <2>1. CASE Dies(w)
    BY <1>1, <1>5, <2>1 DEF Dies, FollowupTypeOK
  <2>2. CASE Throws(w)
    BY <1>1, <2>2, LeavesType DEF Throws
  <2>3. QED
    BY <2>1, <2>2
<1>7. QED
  BY <1>1, <1>2, <1>3, <1>4, <1>6, RunFInv DEF FInv, FollowupTypeOK, WishesConverge

LEMMA InitFInv == FollowupInit => FInv
<1> SUFFICES ASSUME FollowupInit PROVE FInv
  OBVIOUS
<1>1. IdleRun \in Run /\ IdleRun.pc = "idle"
  BY DEF IdleRun, Run, Stage
<1>2. NoLetter \in Letter /\ NoLetter.state # "submitted"
  BY FollowupAssumption DEF NoLetter, Letter, FollowupAssumption
<1>3. FollowupTypeOK
  BY <1>1, <1>2, FollowupAssumption DEF FollowupInit, FollowupTypeOK, FollowupAssumption
<1>4. WishesConverge /\ LettersTaken /\ MarksWhatItSent /\ MarkerMeansDone
  BY <1>1, <1>2 DEF FollowupInit, WishesConverge, LettersTaken, MarksWhatItSent, MarkerMeansDone
<1>5. QED
  BY <1>3, <1>4 DEF FInv

LEMMA NextFInv == FInv /\ [FollowupNext]_fvars => FInv'
<1> SUFFICES ASSUME FInv, [FollowupNext]_fvars PROVE FInv'
  OBVIOUS
<1>1. CASE UNCHANGED fvars
  BY <1>1 DEF fvars, FInv, FollowupTypeOK, WishesConverge, LettersTaken, MarksWhatItSent,
     CurrentCall, MarkerMeansDone
<1>2. CASE \E c \in Call : Block(c) \/ Window(c) \/ \E s \in Source : Analyse(c, s)
  BY <1>2, BesideFInv
<1>3. CASE \E w \in Sweep : Proceeds(w) \/ Dies(w) \/ Throws(w)
  BY <1>3, ListFInv, RevalidateFInv, OnwardFInv, SendFInv, AnsweredFInv, MarkFInv, BreaksFInv
     DEF Proceeds
<1>4. QED
  BY <1>1, <1>2, <1>3 DEF FollowupNext

LEMMA FInductive == FollowupSpec => []FInv
<1>1. FollowupInit => FInv
  BY InitFInv
<1>2. FInv /\ [FollowupNext]_fvars => FInv'
  BY NextFInv
<1>3. QED
  BY <1>1, <1>2, PTL DEF FollowupSpec

\* The state of the sweep keeps its types.
THEOREM FollowupTypeCorrect == FollowupSpec => []FollowupTypeOK
<1>1. FInv => FollowupTypeOK
  BY DEF FInv
<1>2. QED
  BY <1>1, FInductive, PTL

\* A call that is off the list was answered by a message or by a revocation: a run
\* gets to markFollowupCompleted with a call only after that call's message.
THEOREM MarkedCallsAreDone == FollowupSpec => []MarkerMeansDone
<1>1. FInv => MarkerMeansDone
  BY DEF FInv
<1>2. QED
  BY <1>1, FInductive, PTL

\* Out of the gate there is one step towards the provider, and it has the permission.
LEMMA OnlyTheGate ==
    ASSUME FInv, [FollowupNext]_fvars, NEW w \in Sweep,
           sweep[w].pc = "gate", sweep'[w].pc = "send"
    PROVE  CurrentCall(w) \in permitted
<1>1. FollowupTypeOK
  BY DEF FInv
<1>2. \E x \in Sweep : Proceeds(x) \/ Dies(x) \/ Throws(x)
  BY DEF FollowupNext, fvars, Block, Window, Analyse
<1>3. PICK x \in Sweep : Proceeds(x) \/ Dies(x) \/ Throws(x)
  BY <1>2
<1>4. ASSUME LeavesIt(x) PROVE FALSE
  BY <1>1, <1>4, LeavesType
<1>5. ASSUME NEW pc \in Stage \ {"idle", "send"}, sweep[x].pc # "idle", Goes(x, pc)
      PROVE  FALSE
  BY <1>1, <1>5, GoesType
<1>6. ~ListCalls(x)
  <2>1. Listed \in SUBSET Call
    BY DEF Listed
  <2>2. QED
    BY <1>1, <2>1, TurnsType DEF ListCalls
<1>7. ~(Check(x) \/ Recheck(x))
  BY <1>4, <1>5 DEF Check, Recheck, Revalidate, Revoke, Stage
<1>8. ~(BlockedCheck(x) \/ Send(x) \/ Answered(x) \/ Mark(x))
  BY <1>4, <1>5 DEF BlockedCheck, SkipsIt, PutsItOff, Send, Answered, Mark, Stage
<1>9. ~(Dies(x) \/ Throws(x))
  <2>1. IdleRun.pc = "idle"
    BY DEF IdleRun
  <2>2. QED
    BY <1>1, <1>4, <2>1 DEF Dies, Throws, FollowupTypeOK
<1>10. Gate(x)
  BY <1>3, <1>6, <1>7, <1>8, <1>9 DEF Proceeds
<1>11. CurrentCall(x) \in permitted /\ Goes(x, "send")
  BY <1>4, <1>10 DEF Gate, PutsItOff
<1>12. x = w
  BY <1>1, <1>10, <1>11, GoesType DEF Gate, Stage
<1>13. QED
  BY <1>11, <1>12

\* No run goes from the gate to the provider with a call whose person's wish is on
\* record: whatever put it there took the permission, which the gate reads.
THEOREM WishesStopTheMessage == FollowupSpec => GateHeedsOptOut
<1>1. ASSUME FInv, [FollowupNext]_fvars, NEW w \in Sweep,
             sweep[w].pc = "gate", sweep'[w].pc = "send"
      PROVE  analysed[CurrentCall(w)] \cap asks[CurrentCall(w)] = {}
  BY <1>1, OnlyTheGate DEF FInv, WishesConverge, FollowupTypeOK
<1>2. FInv /\ [FollowupNext]_fvars =>
         [\A w \in Sweep :
             sweep[w].pc = "gate" /\ sweep'[w].pc = "send" =>
                analysed[CurrentCall(w)] \cap asks[CurrentCall(w)] = {}]_fvars
  BY <1>1
<1>3. QED
  BY <1>2, FInductive, PTL DEF FollowupSpec, GateHeedsOptOut
=============================================================================
