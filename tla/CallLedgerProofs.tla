-------------------------- MODULE CallLedgerProofs --------------------------
(***************************************************************************)
(* Proofs about CallLedger for any turns, contacts and dispatchers, and    *)
(* any number of leases that run out.                                      *)
(***************************************************************************)
EXTENDS CallLedger, FiniteSetTheorems, TLAPS

-----------------------------------------------------------------------------
(* The inductive invariant. *)

\* A turn that has not committed has no session.
Uncommitted == \A t \in Turn : commit[t] # "done" => session[t] = NoSession

\* A session has a call of its own, or a status only dispatchers set.
SessionsOwnTheirCalls ==
    \A t \in Turn :
       IF session[t].provider = None
         THEN session[t].status \in {"none", "requested", "dispatching", "dispatch_ambiguous", "failed"}
         ELSE /\ TurnOf(session[t].provider) = t
              /\ session[t].status \in {"provider_accepted", "in_progress"} \cup Terminal

\* A dispatcher attaches a call to the session it placed it for.
WorkersOwnTheirCalls ==
    \A d \in Dispatcher :
       worker[d].pc \in {"attach", "found"} => TurnOf(worker[d].call) = worker[d].turn

\* Events are on record for the session's own call, and are true of it.
RecordIsTrue ==
    \A e \in recorded :
       /\ session[TurnOf(e[1])].provider = e[1]
       /\ e[2] = "ended" => life[e[1]] \in Reason

\* The status the events of call p tell.
Tells(p, events, l) ==
    IF <<p, "ended">> \in events THEN EndStatus(l[p])
    ELSE IF <<p, "started">> \in events THEN "in_progress" ELSE "provider_accepted"

StatusIsTold ==
    \A t \in Turn :
       session[t].provider # None =>
          session[t].status = Tells(session[t].provider, recorded, life)

AloneInContact ==
    \A t, u \in Turn :
       /\ ContactOf[t] = ContactOf[u]
       /\ session[t].status \in Active
       /\ session[u].status \in Active
       => t = u

\* A turn's calls are numbered in the order they are placed.
Numbered ==
    \A t \in Turn : \E n \in Nat : Placed(t) = {<<t, i>> : i \in 1 .. n}

IInv ==
    /\ TypeOK
    /\ Uncommitted
    /\ SessionsOwnTheirCalls
    /\ WorkersOwnTheirCalls
    /\ RecordIsTrue
    /\ StatusIsTold
    /\ AloneInContact
    /\ Numbered

-----------------------------------------------------------------------------
(* What the operators return. *)

LEMMA CallFacts ==
    ASSUME NEW c \in Call
    PROVE  TurnOf(c) \in Turn /\ c # None /\ c[1] \in Turn /\ c[2] \in 1 .. MaxExpiries + 1
BY CallAssumption DEF Call, TurnOf, CallAssumption

LEMMA EndStatusTerminal ==
    ASSUME NEW r \in Reason PROVE EndStatus(r) \in Terminal
BY CallAssumption DEF EndStatus, Terminal, CallAssumption

LEMMA TellsType ==
    ASSUME NEW p, NEW events, NEW l, <<p, "ended">> \in events => l[p] \in Reason
    PROVE  Tells(p, events, l) \in {"provider_accepted", "in_progress"} \cup Terminal
BY EndStatusTerminal DEF Tells

\* The events on record of a session with a call p are about p.
LEMMA ProjectedTells ==
    ASSUME NEW t \in Turn, NEW p \in Call, TurnOf(p) = t,
           NEW events \in SUBSET (Call \X Kind),
           \A e \in events : TurnOf(e[1]) = t => e[1] = p
    PROVE  Projected(t, p, events) = Tells(p, events, life)
<1>1. \A e \in events : TurnOf(e[1]) = t => e = <<p, e[2]>>
  OBVIOUS
<1>2. p # None
  BY CallFacts
<1> DEFINE ended == {e \in events : TurnOf(e[1]) = t /\ e[2] = "ended"}
<1>3. CASE <<p, "ended">> \in events
  <2>1. ended = {<<p, "ended">>}
    BY <1>1, <1>3
  <2>2. (CHOOSE e \in ended : TRUE) = <<p, "ended">>
    BY <2>1
  <2>3. Projected(t, p, events) = EndStatus(life[(CHOOSE e \in ended : TRUE)[1]])
    BY <2>1 DEF Projected
  <2>4. QED
    BY <1>3, <2>2, <2>3 DEF Tells
<1>4. CASE <<p, "ended">> \notin events
  <2>1. ended = {}
    BY <1>1, <1>4
  <2>2. (\E e \in events : TurnOf(e[1]) = t /\ e[2] = "started") <=> <<p, "started">> \in events
    BY <1>1
  <2>3. QED
    BY <1>2, <1>4, <2>1, <2>2 DEF Projected, Tells
<1>5. QED
  BY <1>3, <1>4

\* A session is given by its fields, and so is one with some of them set.
Rec(st, c, b, a) == [status |-> st, provider |-> c, leased |-> b, analysis |-> a]

LEMMA StatusSet ==
    ASSUME NEW r \in Session, NEW st
    PROVE  [r EXCEPT !.status = st] = Rec(st, r.provider, r.leased, r.analysis)
BY DEF Session, Rec

LEMMA LeaseSet ==
    ASSUME NEW r \in Session, NEW b
    PROVE  [r EXCEPT !.leased = b] = Rec(r.status, r.provider, b, r.analysis)
BY DEF Session, Rec

LEMMA StatusAndLeaseSet ==
    ASSUME NEW r \in Session, NEW st, NEW b
    PROVE  [r EXCEPT !.status = st, !.leased = b] = Rec(st, r.provider, b, r.analysis)
<1> DEFINE q == [r EXCEPT !.status = st]
<1>1. [r EXCEPT !.status = st, !.leased = b] = [q EXCEPT !.leased = b]
  OBVIOUS
<1>2. q = Rec(st, r.provider, r.leased, r.analysis)
  BY StatusSet
<1> HIDE DEF q
<1>3. QED
  BY <1>1, <1>2 DEF Rec

LEMMA StatusAndAnalysisSet ==
    ASSUME NEW r \in Session, NEW st, NEW a
    PROVE  [r EXCEPT !.status = st, !.analysis = a] = Rec(st, r.provider, r.leased, a)
<1> DEFINE q == [r EXCEPT !.status = st]
<1>1. [r EXCEPT !.status = st, !.analysis = a] = [q EXCEPT !.analysis = a]
  OBVIOUS
<1>2. q = Rec(st, r.provider, r.leased, r.analysis)
  BY StatusSet
<1> HIDE DEF q
<1>3. QED
  BY <1>1, <1>2 DEF Rec

LEMMA CallSet ==
    ASSUME NEW r \in Session, NEW st, NEW c, NEW b
    PROVE  [r EXCEPT !.status = st, !.provider = c, !.leased = b] = Rec(st, c, b, r.analysis)
<1> DEFINE q == [r EXCEPT !.status = st]
           u == [q EXCEPT !.provider = c]
<1>1. [r EXCEPT !.status = st, !.provider = c, !.leased = b] = [u EXCEPT !.leased = b]
  OBVIOUS
<1>2. q = Rec(st, r.provider, r.leased, r.analysis)
  BY StatusSet
<1> HIDE DEF q
<1>3. u = Rec(st, c, r.leased, r.analysis)
  BY <1>2 DEF Rec
<1> HIDE DEF u
<1>4. QED
  BY <1>1, <1>3 DEF Rec

\* A session with that status and that call.
Has(q, st, c) == q \in Session /\ q.status = st /\ q.provider = c

LEMMA SetFields ==
    ASSUME NEW r \in Session, NEW st \in Active \cup Terminal \cup {"none"}, NEW c \in Call \cup {None}
    PROVE  /\ Has([r EXCEPT !.status = st], st, r.provider)
           /\ Has([r EXCEPT !.leased = FALSE], r.status, r.provider)
           /\ Has([r EXCEPT !.status = st, !.leased = TRUE], st, r.provider)
           /\ Has([r EXCEPT !.status = st, !.leased = FALSE], st, r.provider)
           /\ Has([r EXCEPT !.status = st, !.provider = c, !.leased = FALSE], st, c)
           /\ \A a \in {"pending", "completed"} : Has([r EXCEPT !.status = st, !.analysis = a], st, r.provider)
<1>1. /\ r.status \in Active \cup Terminal \cup {"none"} /\ r.provider \in Call \cup {None}
      /\ r.leased \in BOOLEAN /\ r.analysis \in {"pending", "completed"}
  BY DEF Session
<1>2. ASSUME NEW st1 \in Active \cup Terminal \cup {"none"}, NEW c1 \in Call \cup {None},
             NEW b \in BOOLEAN, NEW a \in {"pending", "completed"}
      PROVE  Has(Rec(st1, c1, b, a), st1, c1)
  BY DEF Has, Rec, Session
<1>3. Has(Rec(st, r.provider, r.leased, r.analysis), st, r.provider)
  BY <1>1, <1>2
<1>4. /\ Has(Rec(r.status, r.provider, FALSE, r.analysis), r.status, r.provider)
      /\ Has(Rec(st, r.provider, FALSE, r.analysis), st, r.provider)
      /\ Has(Rec(st, r.provider, TRUE, r.analysis), st, r.provider)
      /\ Has(Rec(st, c, FALSE, r.analysis), st, c)
  BY <1>1, <1>2
<1>5. ASSUME NEW a \in {"pending", "completed"} PROVE Has(Rec(st, r.provider, r.leased, a), st, r.provider)
  BY <1>1, <1>2
<1>6. ASSUME NEW a \in {"pending", "completed"} PROVE Has([r EXCEPT !.status = st, !.analysis = a], st, r.provider)
  <2>1. [r EXCEPT !.status = st, !.analysis = a] = Rec(st, r.provider, r.leased, a)
    BY StatusAndAnalysisSet
  <2>2. QED
    BY <1>5, <2>1
<1>7. /\ [r EXCEPT !.status = st] = Rec(st, r.provider, r.leased, r.analysis)
      /\ [r EXCEPT !.leased = FALSE] = Rec(r.status, r.provider, FALSE, r.analysis)
      /\ [r EXCEPT !.status = st, !.leased = FALSE] = Rec(st, r.provider, FALSE, r.analysis)
      /\ [r EXCEPT !.status = st, !.leased = TRUE] = Rec(st, r.provider, TRUE, r.analysis)
      /\ [r EXCEPT !.status = st, !.provider = c, !.leased = FALSE] = Rec(st, c, FALSE, r.analysis)
  BY StatusSet, LeaseSet, StatusAndLeaseSet, CallSet
<1>8. QED
  BY <1>3, <1>4, <1>6, <1>7

-----------------------------------------------------------------------------
(* Types *)

\* Initially every variable has its type.
LEMMA TypeInit == Init => TypeOK
BY CallAssumption DEF Init, TypeOK, Session, NoSession, Worker, IdleWorker, CallAssumption

LEMMA ProjectedType ==
    ASSUME TypeOK, NEW t \in Turn, NEW p \in Call, TurnOf(p) = t,
           NEW events \in SUBSET (Call \X Kind),
           \A e \in events : TurnOf(e[1]) = t => e[1] = p,
           \A e \in events : e[2] = "ended" => life[e[1]] \in Reason
    PROVE  Projected(t, p, events) \in {"provider_accepted", "in_progress"} \cup Terminal
<1>1. <<p, "ended">> \in events => life[p] \in Reason
  OBVIOUS
<1>2. QED
  BY <1>1, TellsType, ProjectedTells

-----------------------------------------------------------------------------
(* The invariant is inductive *)

LEMMA LooksStep ==
    ASSUME IInv, NEW t \in Turn, LooksForActiveCall(t) PROVE IInv'
<1> USE DEF IInv, LooksForActiveCall
<1>1. TypeOK'
  BY DEF TypeOK
<1>2. Uncommitted'
  BY DEF Uncommitted, TypeOK
<1>3. (SessionsOwnTheirCalls /\ WorkersOwnTheirCalls /\ RecordIsTrue /\ StatusIsTold /\ AloneInContact)'
  BY DEF SessionsOwnTheirCalls, WorkersOwnTheirCalls, RecordIsTrue, StatusIsTold, AloneInContact
<1>4. Numbered'
  BY DEF Numbered, Placed
<1>5. QED
  BY <1>1, <1>2, <1>3, <1>4

\* A step that changes one session, and neither its call nor whether it is
\* active, unless to make it final.
LEMMA SessionStep ==
    ASSUME IInv, NEW t \in Turn, NEW s \in Session,
           session' = [session EXCEPT ![t] = s], UNCHANGED <<life, recorded>>,
           commit[t] = "done" \/ s = NoSession,
           commit' = commit,
           \/ s.provider = session[t].provider
              /\ (s.provider = None => s.status \in {"none", "requested", "dispatching", "dispatch_ambiguous", "failed"})
              /\ (s.provider # None => s.status = session[t].status)
           \/ /\ session[t].provider = None
              /\ s.provider \in Call /\ TurnOf(s.provider) = t /\ s.status = "provider_accepted",
           s.status \in Active => session[t].status \in Active
    PROVE  (Uncommitted /\ SessionsOwnTheirCalls /\ RecordIsTrue /\ StatusIsTold
            /\ AloneInContact /\ Numbered)'
<1> USE DEF IInv
<1>0. session \in [Turn -> Session] /\ recorded \in SUBSET (Call \X Kind)
  BY DEF TypeOK
<1>1. Uncommitted'
  BY <1>0 DEF Uncommitted
<1>2. SessionsOwnTheirCalls'
  BY <1>0, CallFacts DEF SessionsOwnTheirCalls
<1>3. RecordIsTrue'
  <2> SUFFICES ASSUME NEW e \in recorded PROVE session'[TurnOf(e[1])].provider = e[1]
    BY DEF RecordIsTrue
  <2>1. e[1] \in Call /\ TurnOf(e[1]) \in Turn /\ e[1] # None
    BY <1>0, CallFacts
  <2>2. QED
    BY <1>0, <2>1 DEF RecordIsTrue
<1>4. StatusIsTold'
  <2> SUFFICES ASSUME NEW u \in Turn, session'[u].provider # None
               PROVE  session'[u].status = Tells(session'[u].provider, recorded, life)
    BY DEF StatusIsTold
  <2>1. CASE u # t \/ s.provider = session[t].provider
    BY <1>0, <2>1 DEF StatusIsTold
  <2>2. CASE u = t /\ session[t].provider = None
    <3>1. s = session'[u] /\ s.provider \in Call /\ TurnOf(s.provider) = t /\ s.status = "provider_accepted"
      BY <1>0, <2>2
    <3>2. \A k : <<s.provider, k>> \notin recorded
      BY <1>0, <2>2, <3>1, CallFacts DEF RecordIsTrue
    <3>3. QED
      BY <3>1, <3>2 DEF Tells
  <2>3. QED
    BY <2>1, <2>2
<1>5. AloneInContact'
  BY <1>0 DEF AloneInContact
<1>6. Numbered'
  BY DEF Numbered, Placed
<1>7. QED
  BY <1>1, <1>2, <1>3, <1>4, <1>5, <1>6

LEMMA ReserveStep ==
    ASSUME IInv, NEW t \in Turn, Reserve(t) PROVE IInv'
<1> USE DEF IInv
<1>0. session \in [Turn -> Session] /\ session[t] = NoSession /\ session[t].status \notin Active
  BY DEF TypeOK, Uncommitted, NoSession, Active, Reserve
<1>2. CASE ~IndexAllows(t)
  BY <1>2, <1>0 DEF Reserve, Uncommitted, SessionsOwnTheirCalls, WorkersOwnTheirCalls,
     RecordIsTrue, StatusIsTold, AloneInContact, Numbered, Placed, TypeOK
<1>3. CASE IndexAllows(t)
  <2> DEFINE s == [session[t] EXCEPT !.status = "requested"]
  <2>1. session' = [session EXCEPT ![t] = s] /\ commit' = [commit EXCEPT ![t] = "done"]
        /\ UNCHANGED <<life, recorded, worker, expiries>>
    BY <1>3 DEF Reserve
  <2>a. Has(s, "requested", session[t].provider)
    BY <1>0, SetFields DEF Active
  <2> HIDE DEF s
  <2>0. s \in Session /\ s.status = "requested" /\ s.provider = None
    BY <2>a, <1>0 DEF Has, NoSession
  <2>2. \A u \in Turn : session'[u].provider = session[u].provider
    BY <1>0, <2>0, <2>1 DEF NoSession
  <2>3. Uncommitted' /\ TypeOK'
    BY <1>0, <2>0, <2>1 DEF Uncommitted, TypeOK
  <2>4. SessionsOwnTheirCalls' /\ StatusIsTold'
    BY <1>0, <2>0, <2>1, <2>2 DEF SessionsOwnTheirCalls, StatusIsTold
  <2>5. WorkersOwnTheirCalls' /\ Numbered'
    BY <2>1 DEF WorkersOwnTheirCalls, Numbered, Placed
  <2>6. RecordIsTrue'
    BY <2>1, <2>2, CallFacts DEF RecordIsTrue, TypeOK
  <2>7. AloneInContact'
    BY <1>0, <1>3, <2>0, <2>1 DEF AloneInContact, IndexAllows, ActiveOf
  <2>8. QED
    BY <2>3, <2>4, <2>5, <2>6, <2>7
<1>4. QED
  BY <1>2, <1>3

\* A dispatcher that moves on without the ledger.
LEMMA WorkerMoves ==
    ASSUME IInv, NEW d \in Dispatcher, NEW w \in Worker,
           worker' = [worker EXCEPT ![d] = w],
           w.pc # "idle" => w.turn # None,
           w.pc \in {"attach", "found"} => w.call # None /\ TurnOf(w.call) = w.turn
    PROVE  /\ WorkersOwnTheirCalls'
           /\ worker' \in [Dispatcher -> Worker]
           /\ \A e \in Dispatcher :
                 /\ worker'[e].pc # "idle" => worker'[e].turn # None
                 /\ worker'[e].pc \in {"attach", "found"} => worker'[e].call # None
BY DEF IInv, TypeOK, WorkersOwnTheirCalls

LEMMA LeaseStep ==
    ASSUME IInv, NEW t \in Turn, LeaseRunsOut(t) PROVE IInv'
<1> USE DEF IInv
<1>0. session \in [Turn -> Session] /\ expiries \in [Turn -> 0 .. MaxExpiries] /\ MaxExpiries \in Nat
  BY CallAssumption DEF TypeOK, CallAssumption
<1> DEFINE s == [session[t] EXCEPT !.leased = FALSE]
<1>1. session' = [session EXCEPT ![t] = s] /\ UNCHANGED <<life, recorded, worker, commit>>
  BY DEF LeaseRunsOut
<1>a. Has(s, session[t].status, session[t].provider)
  BY <1>0, SetFields DEF Active
<1> HIDE DEF s
<1>2. s \in Session /\ s.status = session[t].status /\ s.provider = session[t].provider
  BY <1>a DEF Has
<1>3. commit[t] = "done"
  BY DEF LeaseRunsOut, Uncommitted, NoSession
<1>4. s.provider = None => s.status \in {"none", "requested", "dispatching", "dispatch_ambiguous", "failed"}
  BY <1>2 DEF SessionsOwnTheirCalls
<1>5. expiries' \in [Turn -> 0 .. MaxExpiries]
  BY <1>0 DEF LeaseRunsOut
<1>6. TypeOK' /\ WorkersOwnTheirCalls'
  BY <1>0, <1>1, <1>2, <1>5 DEF TypeOK, WorkersOwnTheirCalls
<1>7. QED
  BY <1>1, <1>2, <1>3, <1>4, <1>6, SessionStep

\* A dispatcher's step that leaves the ledger and the provider alone.
LEMMA QuietStep ==
    ASSUME IInv, NEW d \in Dispatcher, NEW w \in Worker, worker' = [worker EXCEPT ![d] = w],
           w.pc # "idle" => w.turn # None,
           w.pc \in {"attach", "found"} => w.call # None /\ TurnOf(w.call) = w.turn,
           UNCHANGED <<commit, session, expiries, life, recorded>>
    PROVE  IInv'
<1>1. TypeOK' /\ WorkersOwnTheirCalls'
  BY WorkerMoves DEF IInv, TypeOK
<1>2. (Uncommitted /\ SessionsOwnTheirCalls /\ RecordIsTrue /\ StatusIsTold /\ AloneInContact /\ Numbered)'
  BY DEF IInv, Uncommitted, SessionsOwnTheirCalls, RecordIsTrue, StatusIsTold, AloneInContact, Numbered, Placed
<1>3. QED
  BY <1>1, <1>2 DEF IInv

LEMMA WorkerRecord ==
    ASSUME NEW pc \in {"idle", "place", "attach", "ambiguous", "rejected", "lookup", "found"},
           NEW t \in Turn \cup {None}, NEW c \in Call \cup {None}
    PROVE  /\ [pc |-> pc, turn |-> t, call |-> c] \in Worker
           /\ IdleWorker \in Worker /\ IdleWorker.pc = "idle"
BY DEF Worker, IdleWorker

\* A dispatcher that stops leaves everybody's calls where they are.
LEMMA StopsType ==
    ASSUME IInv, NEW d \in Dispatcher, Stops(d)
    PROVE  /\ WorkersOwnTheirCalls'
           /\ worker' \in [Dispatcher -> Worker]
           /\ \A e \in Dispatcher :
                 /\ worker'[e].pc # "idle" => worker'[e].turn # None
                 /\ worker'[e].pc \in {"attach", "found"} => worker'[e].call # None
<1>1. IdleWorker \in Worker /\ IdleWorker.pc = "idle"
  BY WorkerRecord
<1>2. QED
  BY <1>1, WorkerMoves DEF Stops

LEMMA GoesType ==
    ASSUME IInv, NEW d \in Dispatcher, NEW t \in Turn, NEW c \in Call \cup {None},
           NEW pc \in {"place", "attach", "ambiguous", "rejected", "lookup", "found"},
           pc \in {"attach", "found"} => c # None /\ TurnOf(c) = t,
           Goes(d, pc, t, c)
    PROVE  /\ WorkersOwnTheirCalls'
           /\ worker' \in [Dispatcher -> Worker]
           /\ \A e \in Dispatcher :
                 /\ worker'[e].pc # "idle" => worker'[e].turn # None
                 /\ worker'[e].pc \in {"attach", "found"} => worker'[e].call # None
<1> DEFINE w == [pc |-> pc, turn |-> t, call |-> c]
<1>1. w \in Worker /\ w.pc = pc /\ w.turn = t /\ w.call = c /\ t # None
  BY CallAssumption DEF Worker, CallAssumption
<1>2. worker' = [worker EXCEPT ![d] = w]
  BY DEF Goes
<1> HIDE DEF w
<1>3. QED
  BY <1>1, <1>2, WorkerMoves

\* A dispatcher that stops, or goes on, by itself.
LEMMA StopsQuiet ==
    ASSUME IInv, NEW d \in Dispatcher, Stops(d), UNCHANGED <<commit, session, expiries, life, recorded>>
    PROVE  IInv'
BY WorkerRecord, QuietStep DEF Stops

LEMMA GoesQuiet ==
    ASSUME IInv, NEW d \in Dispatcher, NEW t \in Turn, NEW c \in Call \cup {None},
           NEW pc \in {"place", "attach", "ambiguous", "rejected", "lookup", "found"},
           pc \in {"attach", "found"} => c # None /\ TurnOf(c) = t,
           Goes(d, pc, t, c), UNCHANGED <<commit, session, expiries, life, recorded>>
    PROVE  IInv'
<1>1. TypeOK' /\ WorkersOwnTheirCalls'
  BY GoesType DEF IInv, TypeOK
<1>2. (Uncommitted /\ SessionsOwnTheirCalls /\ RecordIsTrue /\ StatusIsTold /\ AloneInContact /\ Numbered)'
  BY DEF IInv, Uncommitted, SessionsOwnTheirCalls, RecordIsTrue, StatusIsTold, AloneInContact, Numbered, Placed
<1>3. QED
  BY <1>1, <1>2 DEF IInv

\* What TypeOK says, worker by worker.
LEMMA WorkerType ==
    ASSUME TypeOK, NEW d \in Dispatcher
    PROVE  /\ worker[d].pc \in {"idle", "place", "attach", "ambiguous", "rejected", "lookup", "found"}
           /\ worker[d].pc # "idle" => worker[d].turn \in Turn
           /\ worker[d].pc \in {"attach", "found"} => worker[d].call \in Call
BY DEF TypeOK, Worker

\* A step of a dispatcher that changes the session of turn t.
LEMMA LedgerStep ==
    ASSUME IInv, NEW t \in Turn, NEW s \in Session,
           session' = [session EXCEPT ![t] = s], UNCHANGED <<commit, expiries, life, recorded>>,
           session[t].status # "none",
           \/ s.provider = session[t].provider
              /\ (s.provider = None => s.status \in {"none", "requested", "dispatching", "dispatch_ambiguous", "failed"})
              /\ (s.provider # None => s.status = session[t].status)
           \/ /\ session[t].provider = None
              /\ s.provider \in Call /\ TurnOf(s.provider) = t /\ s.status = "provider_accepted",
           s.status \in Active => session[t].status \in Active,
           WorkersOwnTheirCalls',
           worker' \in [Dispatcher -> Worker],
           \A e \in Dispatcher :
              /\ worker'[e].pc # "idle" => worker'[e].turn # None
              /\ worker'[e].pc \in {"attach", "found"} => worker'[e].call # None
    PROVE  IInv'
<1>1. commit[t] = "done"
  BY DEF IInv, Uncommitted, NoSession
<1>2. TypeOK'
  BY DEF IInv, TypeOK
<1>3. (Uncommitted /\ SessionsOwnTheirCalls /\ RecordIsTrue /\ StatusIsTold
            /\ AloneInContact /\ Numbered)'
  BY <1>1, SessionStep
<1>4. QED
  BY <1>2, <1>3 DEF IInv

LEMMA ClaimStep ==
    ASSUME IInv, NEW d \in Dispatcher, NEW t \in Turn, Claim(d, t) PROVE IInv'
<1>0. session \in [Turn -> Session] /\ None \in Call \cup {None}
  BY DEF IInv, TypeOK
<1>1. CASE Claimable(session[t])
  <2> DEFINE s == [session[t] EXCEPT !.status = "dispatching", !.leased = TRUE]
  <2>1. session' = [session EXCEPT ![t] = s] /\ UNCHANGED <<commit, expiries, life, recorded>>
    BY <1>1 DEF Claim
  <2>2. Has(s, "dispatching", session[t].provider)
    BY <1>0, SetFields DEF Active
  <2> HIDE DEF s
  <2>3. session[t].status \in {"requested", "dispatching"} /\ session[t].provider = None
    BY <1>1 DEF Claimable, IInv, SessionsOwnTheirCalls, Terminal
  <2>4. Goes(d, "place", t, None)
    BY <1>1 DEF Claim
  <2>5. s \in Session /\ s.status = "dispatching" /\ s.provider = None
    BY <2>2, <2>3 DEF Has
  <2>6. /\ WorkersOwnTheirCalls'
        /\ worker' \in [Dispatcher -> Worker]
        /\ \A e \in Dispatcher :
              /\ worker'[e].pc # "idle" => worker'[e].turn # None
              /\ worker'[e].pc \in {"attach", "found"} => worker'[e].call # None
    BY <1>0, <2>4, GoesType
  <2>7. QED
    BY <2>1, <2>3, <2>5, <2>6, LedgerStep DEF Active
<1>2. CASE ~Claimable(session[t])
  <2>1. Goes(d, "lookup", t, None) /\ UNCHANGED <<commit, session, expiries, life, recorded>>
    BY <1>2 DEF Claim
  <2>2. QED
    BY <1>0, <2>1, GoesQuiet
<1>3. QED
  BY <1>1, <1>2

LEMMA SettledStep ==
    ASSUME IInv, NEW d \in Dispatcher, worker[d].pc # "idle",
           NEW status \in {"dispatch_ambiguous", "failed"},
           Settled(worker[d].turn, status), Stops(d), UNCHANGED <<commit, expiries, life, recorded>>
    PROVE  IInv'
<1> DEFINE t == worker[d].turn
           s == [session[t] EXCEPT !.status = status, !.leased = FALSE]
<1>0. session \in [Turn -> Session] /\ t \in Turn
  BY WorkerType DEF IInv, TypeOK
<1>1. CASE session[t].status = "dispatching"
  <2>1. session' = [session EXCEPT ![t] = s]
    BY <1>1 DEF Settled
  <2>2. Has(s, status, session[t].provider)
    BY <1>0, SetFields DEF Active, Terminal
  <2> HIDE DEF s
  <2>3. session[t].provider = None
    BY <1>0, <1>1 DEF IInv, SessionsOwnTheirCalls, Terminal
  <2>4. s \in Session /\ s.status = status /\ s.provider = None
    BY <2>2, <2>3 DEF Has
  <2>5. session[t].status \in Active
    BY <1>1 DEF Active
  <2> HIDE DEF t
  <2>6. QED
    BY <1>0, <1>1, <2>1, <2>3, <2>4, <2>5, LedgerStep, StopsType
<1>2. CASE session[t].status # "dispatching"
  BY <1>2, StopsQuiet DEF Settled
<1>3. QED
  BY <1>1, <1>2

LEMMA AcceptedStep ==
    ASSUME IInv, NEW t \in Turn, NEW c \in Call, TurnOf(c) = t,
           session[t].status \in {"dispatching", "dispatch_ambiguous"}, session[t].provider \in {None, c},
           session' = [session EXCEPT ![t] = Accepted(session[t], c)],
           UNCHANGED <<commit, expiries, life, recorded>>,
           WorkersOwnTheirCalls',
           worker' \in [Dispatcher -> Worker],
           \A e \in Dispatcher :
              /\ worker'[e].pc # "idle" => worker'[e].turn # None
              /\ worker'[e].pc \in {"attach", "found"} => worker'[e].call # None
    PROVE  IInv'
<1>1. session[t] \in Session
  BY DEF IInv, TypeOK
<1>2. Has(Accepted(session[t], c), "provider_accepted", c)
  BY <1>1, SetFields DEF Accepted, Active
<1>3. session[t].provider = None /\ session[t].status \in Active /\ session[t].status # "none"
  BY DEF IInv, SessionsOwnTheirCalls, Terminal, Active
<1> DEFINE s == Accepted(session[t], c)
<1>4. s \in Session /\ s.status = "provider_accepted" /\ s.provider = c
  BY <1>2 DEF Has
<1>5. session' = [session EXCEPT ![t] = s]
  OBVIOUS
<1> HIDE DEF s
<1>6. QED
  BY <1>3, <1>4, <1>5, LedgerStep

LEMMA AttachStep ==
    ASSUME IInv, NEW d \in Dispatcher, Attach(d) PROVE IInv'
<1> DEFINE t == worker[d].turn
           c == worker[d].call
<1>1. t \in Turn /\ c \in Call /\ TurnOf(c) = t
  BY WorkerType DEF IInv, Attach, WorkersOwnTheirCalls
<1>2. CASE /\ Attachable(session[t], c)
           /\ session' = [session EXCEPT ![t] = Accepted(@, c)]
           /\ Stops(d)
  BY <1>1, <1>2, AcceptedStep, StopsType DEF Attachable, Attach
<1>3. CASE Stops(d) /\ UNCHANGED session
  BY <1>3, StopsQuiet DEF Attach
<1>4. CASE Goes(d, "ambiguous", t, None) /\ UNCHANGED session
  BY <1>1, <1>4, GoesQuiet DEF Attach
<1>5. QED
  BY <1>2, <1>3, <1>4 DEF Attach

LEMMA ResolveStep ==
    ASSUME IInv, NEW c \in Call, Resolve(c) PROVE IInv'
<1>1. TurnOf(c) \in Turn
  BY CallFacts
<1>2. WorkersOwnTheirCalls' /\ TypeOK
  BY DEF Resolve, IInv, WorkersOwnTheirCalls
<1>3. QED
  BY <1>1, <1>2, AcceptedStep DEF Resolve, Correlatable, TypeOK

LEMMA LookUpStep ==
    ASSUME IInv, NEW d \in Dispatcher, LookUp(d) PROVE IInv'
<1>1. worker[d].turn \in Turn
  BY WorkerType DEF IInv, LookUp
<1>2. CASE Stops(d)
  BY <1>2, StopsQuiet DEF LookUp
<1>3. ASSUME NEW c \in Placed(worker[d].turn), Goes(d, "found", worker[d].turn, c)
      PROVE  IInv'
  <2>1. c \in Call /\ c # None /\ TurnOf(c) = worker[d].turn
    BY CallFacts DEF Placed
  <2>2. QED
    BY <1>1, <1>3, <2>1, GoesQuiet DEF LookUp
<1>4. QED
  BY <1>2, <1>3 DEF LookUp

LEMMA NumberedCardinality ==
    ASSUME NEW t, NEW n \in Nat
    PROVE  Cardinality({<<t, i>> : i \in 1 .. n}) = n
<1> DEFINE S == {<<t, i>> : i \in 1 .. n}
           f == [i \in 1 .. n |-> <<t, i>>]
<1>1. f \in [1 .. n -> S]
  OBVIOUS
<1>2. \A i, j \in 1 .. n : f[i] = f[j] => i = j
  OBVIOUS
<1>3. \A e \in S : \E i \in 1 .. n : f[i] = e
  OBVIOUS
<1> HIDE DEF f, S
<1>4. f \in Injection(1 .. n, S)
  BY <1>1, <1>2 DEF Injection, IsInjective
<1>5. f \in Surjection(1 .. n, S)
  BY <1>1, <1>3 DEF Surjection
<1>6. ExistsBijection(1 .. n, S)
  BY <1>4, <1>5 DEF ExistsBijection, Bijection
<1>7. Cardinality(S) = n
  BY <1>6, FS_CountingElements
<1>8. QED
  BY <1>7 DEF S

LEMMA NumberedFinite ==
    ASSUME NEW t, NEW n \in Nat
    PROVE  IsFiniteSet({<<t, i>> : i \in 1 .. n})
<1> DEFINE f == [i \in 1 .. n |-> <<t, i>>]
<1>1. f \in Surjection(1 .. n, {<<t, i>> : i \in 1 .. n})
  BY DEF Surjection
<1>2. IsFiniteSet(1 .. n)
  BY FS_Interval
<1>3. QED
  BY <1>1, <1>2, FS_Surjection

\* A call that is not over changes at the provider.
LEMMA LifeStep ==
    ASSUME IInv, NEW c \in Call, NEW v \in {"dialling", "talking"} \cup Reason, life[c] \notin Reason,
           life' = [life EXCEPT ![c] = v], UNCHANGED <<commit, session, expiries, recorded>>
    PROVE  /\ life' \in [Call -> {"none", "dialling", "talking"} \cup Reason]
           /\ (Uncommitted /\ SessionsOwnTheirCalls /\ RecordIsTrue /\ StatusIsTold /\ AloneInContact)'
<1>1. life \in [Call -> {"none", "dialling", "talking"} \cup Reason]
  BY DEF IInv, TypeOK
<1>2. life' \in [Call -> {"none", "dialling", "talking"} \cup Reason]
  BY <1>1
<1>3. (Uncommitted /\ SessionsOwnTheirCalls /\ AloneInContact)'
  BY DEF IInv, Uncommitted, SessionsOwnTheirCalls, AloneInContact
<1>4. \A e \in recorded : e[2] = "ended" => life'[e[1]] = life[e[1]] /\ life[e[1]] \in Reason
  BY <1>1 DEF IInv, RecordIsTrue, TypeOK
<1>5. RecordIsTrue'
  BY <1>4 DEF IInv, RecordIsTrue
<1>6. StatusIsTold'
  <2> SUFFICES ASSUME NEW t \in Turn, session[t].provider # None
               PROVE  session[t].status = Tells(session[t].provider, recorded, life')
    BY DEF StatusIsTold
  <2>1. session[t].status = Tells(session[t].provider, recorded, life)
    BY DEF IInv, StatusIsTold
  <2>2. <<session[t].provider, "ended">> \in recorded => life'[session[t].provider] = life[session[t].provider]
    BY <1>4
  <2>3. QED
    BY <2>1, <2>2 DEF Tells
<1>7. QED
  BY <1>2, <1>3, <1>5, <1>6

LEMMA PlaceStep ==
    ASSUME IInv, NEW d \in Dispatcher, Place(d) PROVE IInv'
<1>1. PICK t \in Turn : t = worker[d].turn
  BY WorkerType DEF IInv, Place
<1> DEFINE c == <<t, Cardinality(Placed(t)) + 1>>
<1>2. CASE c \in Call /\ life' = [life EXCEPT ![c] = "dialling"]
           /\ (Goes(d, "attach", t, c) \/ Goes(d, "ambiguous", t, None))
  <2>1. c \in Call /\ c # None /\ TurnOf(c) = t
    BY <1>2, CallFacts DEF TurnOf
  <2>2. PICK n \in Nat : Placed(t) = {<<t, i>> : i \in 1 .. n}
    BY <1>1 DEF IInv, Numbered
  <2>3. c = <<t, n + 1>>
    BY <2>2, NumberedCardinality
  <2> HIDE DEF c
  <2>4. life[c] = "none" /\ life[c] \notin Reason
    <3>1. c \notin Placed(t)
      BY <2>2, <2>3
    <3>2. QED
      BY <2>1, <3>1, CallAssumption DEF Placed, CallAssumption
  <2>5. UNCHANGED <<commit, session, expiries, recorded>> /\ life' = [life EXCEPT ![c] = "dialling"]
    BY <1>2 DEF Place
  <2>6. /\ life' \in [Call -> {"none", "dialling", "talking"} \cup Reason]
        /\ (Uncommitted /\ SessionsOwnTheirCalls /\ RecordIsTrue /\ StatusIsTold /\ AloneInContact)'
    BY <2>1, <2>4, <2>5, LifeStep
  <2>7. /\ WorkersOwnTheirCalls'
        /\ worker' \in [Dispatcher -> Worker]
        /\ \A e \in Dispatcher :
              /\ worker'[e].pc # "idle" => worker'[e].turn # None
              /\ worker'[e].pc \in {"attach", "found"} => worker'[e].call # None
    <3>1. CASE Goes(d, "attach", t, c)
      BY <1>1, <2>1, <3>1, GoesType
    <3>2. CASE Goes(d, "ambiguous", t, None)
      BY <1>1, <3>2, GoesType
    <3>3. QED
      BY <1>2, <3>1, <3>2
  <2>8. TypeOK'
    BY <2>5, <2>6, <2>7 DEF IInv, TypeOK
  <2>9. Numbered'
    <3>0. life \in [Call -> {"none", "dialling", "talking"} \cup Reason]
      BY DEF IInv, TypeOK
    <3>a. \A e \in Call : life'[e] # "none" <=> life[e] # "none" \/ e = c
      BY <2>1, <2>5, <3>0
    <3>1. ASSUME NEW u \in Turn, u # t PROVE Placed(u)' = Placed(u)
      <4>1. \A e \in Call : TurnOf(e) = u => (life'[e] # "none" <=> life[e] # "none")
        BY <2>1, <3>1, <3>a
      <4>2. QED
        BY <4>1 DEF Placed
    <3>2. Placed(t)' = Placed(t) \cup {c}
      <4>1. \A e \in Call : TurnOf(e) = t => (life'[e] # "none" <=> e \in Placed(t) \cup {c})
        BY <2>1, <3>a DEF Placed
      <4>2. QED
        BY <2>1, <4>1 DEF Placed
    <3>3. Placed(t)' = {<<t, i>> : i \in 1 .. n + 1}
      BY <2>2, <2>3, <3>2
    <3>4. \A u \in Turn : \E m \in Nat : Placed(u)' = {<<u, i>> : i \in 1 .. m}
      <4> SUFFICES ASSUME NEW u \in Turn
                   PROVE  \E m \in Nat : Placed(u)' = {<<u, i>> : i \in 1 .. m}
        OBVIOUS
      <4>1. CASE u = t
        BY <3>3, <4>1
      <4>2. CASE u # t
        BY <3>1, <4>2 DEF Numbered, IInv
      <4>3. QED
        BY <4>1, <4>2
    <3>5. QED
      BY <3>4 DEF Numbered
  <2>10. QED
    BY <2>6, <2>7, <2>8, <2>9 DEF IInv
<1>3. CASE UNCHANGED life /\ (Goes(d, "ambiguous", t, None) \/ Goes(d, "rejected", t, None))
  <2>1. CASE Goes(d, "ambiguous", t, None)
    BY <1>1, <1>3, <2>1, GoesQuiet DEF Place
  <2>2. CASE Goes(d, "rejected", t, None)
    BY <1>1, <1>3, <2>2, GoesQuiet DEF Place
  <2>3. QED
    BY <1>3, <2>1, <2>2
<1>4. QED
  BY <1>1, <1>2, <1>3 DEF Place

LEMMA ProviderStep ==
    ASSUME IInv, NEW c \in Call, CallStarts(c) \/ CallEnds(c) PROVE IInv'
<1>1. PICK v \in {"talking"} \cup Reason :
         life' = [life EXCEPT ![c] = v] /\ life[c] \in {"dialling", "talking"}
         /\ UNCHANGED <<commit, session, expiries, worker, recorded>>
  BY DEF CallStarts, CallEnds
<1>2. life[c] \notin Reason
  BY <1>1, CallAssumption DEF CallAssumption
<1>3. /\ life' \in [Call -> {"none", "dialling", "talking"} \cup Reason]
      /\ (Uncommitted /\ SessionsOwnTheirCalls /\ RecordIsTrue /\ StatusIsTold /\ AloneInContact)'
  BY <1>1, <1>2, LifeStep
<1>4. TypeOK' /\ WorkersOwnTheirCalls'
  BY <1>1, <1>3 DEF IInv, TypeOK, WorkersOwnTheirCalls
<1>5. Numbered'
  <2>1. \A t \in Turn : Placed(t)' = Placed(t)
    BY <1>1, CallAssumption DEF Placed, IInv, TypeOK, CallAssumption
  <2>2. QED
    BY <2>1 DEF Numbered, IInv
<1>6. QED
  BY <1>3, <1>4, <1>5 DEF IInv

LEMMA AppendStep ==
    ASSUME IInv, NEW c \in Call, NEW kind \in Kind, AppendEvent(c, kind) PROVE IInv'
<1> DEFINE t == TurnOf(c)
           s == Recomputed(t, session[t], recorded')
<1>0. /\ t \in Turn /\ c # None /\ session \in [Turn -> Session] /\ recorded \in SUBSET (Call \X Kind)
      /\ session[t].provider = c
      /\ recorded' = recorded \cup {<<c, kind>>} /\ recorded' \in SUBSET (Call \X Kind)
      /\ session' = [session EXCEPT ![t] = s] /\ UNCHANGED <<commit, expiries, worker, life>>
  BY CallFacts DEF IInv, TypeOK, AppendEvent
<1>1. \A e \in recorded' : TurnOf(e[1]) = t => e[1] = c
  BY <1>0 DEF IInv, RecordIsTrue
<1>2. \A e \in recorded' : e[2] = "ended" => life[e[1]] \in Reason
  BY <1>0 DEF IInv, RecordIsTrue, AppendEvent, Happened
<1>3. Projected(t, c, recorded') = Tells(c, recorded', life)
  BY <1>0, <1>1, ProjectedTells
<1>4. Tells(c, recorded', life) \in {"provider_accepted", "in_progress"} \cup Terminal
  <2>1. <<c, "ended">> \in recorded' => life[c] \in Reason
    BY <1>2
  <2>2. QED
    BY <2>1, TellsType
<1>5. session[t].status = Tells(c, recorded, life)
  BY <1>0 DEF IInv, StatusIsTold
<1>6. session[t].status \in Terminal => session[t].status = Tells(c, recorded', life)
  BY <1>0, <1>5 DEF Tells, Terminal
<1>7. Has(s, Tells(c, recorded', life), c)
  <2> DEFINE st == IF session[t].status \in Terminal THEN session[t].status
                   ELSE Projected(t, session[t].provider, recorded')
  <2>1. st = Tells(c, recorded', life)
    BY <1>0, <1>3, <1>6
  <2>2. AnalysisOf(t, recorded') \in {"pending", "completed"}
    BY DEF AnalysisOf
  <2>3. s = [session[t] EXCEPT !.status = st, !.analysis = AnalysisOf(t, recorded')]
    BY DEF Recomputed
  <2> HIDE DEF st, s, t
  <2>4. session[t] \in Session /\ st \in Active \cup Terminal \cup {"none"}
    BY <1>0, <1>4, <2>1 DEF Active
  <2>5. Has([session[t] EXCEPT !.status = st, !.analysis = AnalysisOf(t, recorded')], st, session[t].provider)
    BY <2>2, <2>4, SetFields
  <2>6. QED
    BY <1>0, <2>1, <2>3, <2>5
<1>8. s \in Session /\ s.status = Tells(c, recorded', life) /\ s.provider = c
  BY <1>7 DEF Has
<1> HIDE DEF s, t
<1>9. \A u \in Turn : session'[u].provider = session[u].provider
  BY <1>0, <1>8
<1>10. TypeOK' /\ WorkersOwnTheirCalls' /\ Numbered'
  <2>1. session' \in [Turn -> Session]
    BY <1>0, <1>8
  <2>2. TypeOK'
    BY <1>0, <2>1 DEF IInv, TypeOK
  <2>3. WorkersOwnTheirCalls' /\ Numbered'
    BY <1>0 DEF IInv, WorkersOwnTheirCalls, Numbered, Placed
  <2>4. QED
    BY <2>2, <2>3
<1>11. Uncommitted' /\ SessionsOwnTheirCalls'
  <2>1. commit[t] = "done"
    BY <1>0 DEF IInv, Uncommitted, NoSession
  <2>2. Uncommitted'
    BY <1>0, <2>1 DEF IInv, Uncommitted
  <2>3. TurnOf(c) = t
    BY DEF t
  <2>4. SessionsOwnTheirCalls'
    BY <1>0, <1>4, <1>8, <2>3 DEF IInv, SessionsOwnTheirCalls
  <2>5. QED
    BY <2>2, <2>4
<1>12. RecordIsTrue'
  BY <1>0, <1>2, <1>9, CallFacts DEF IInv, RecordIsTrue, t
<1>13. StatusIsTold'
  <2> SUFFICES ASSUME NEW u \in Turn, session'[u].provider # None
               PROVE  session'[u].status = Tells(session'[u].provider, recorded', life)
    BY <1>0 DEF StatusIsTold
  <2>1. CASE u = t
    BY <1>0, <1>8, <2>1
  <2>2. CASE u # t
    <3>1. session'[u] = session[u] /\ session[u].provider \in Call /\ TurnOf(session[u].provider) = u
      BY <1>0, <2>2 DEF IInv, SessionsOwnTheirCalls, Session
    <3>2. session[u].provider # c
      BY <2>2, <3>1 DEF t
    <3>3. \A k : <<session[u].provider, k>> \in recorded' <=> <<session[u].provider, k>> \in recorded
      BY <1>0, <3>2
    <3>4. QED
      BY <3>1, <3>3 DEF IInv, StatusIsTold, Tells
  <2>3. QED
    BY <2>1, <2>2
<1>14. AloneInContact'
  <2>1. s.status \in Active => session[t].status \in Active
    BY <1>0, <1>6, <1>8 DEF IInv, SessionsOwnTheirCalls, Active, Terminal
  <2>2. QED
    BY <1>0, <2>1 DEF IInv, AloneInContact
<1>15. QED
  BY <1>10, <1>11, <1>12, <1>13, <1>14 DEF IInv

LEMMA InitHolds == Init => IInv
<1> SUFFICES ASSUME Init PROVE IInv
  OBVIOUS
<1>1. TypeOK
  BY TypeInit
<1>2. Uncommitted /\ WorkersOwnTheirCalls /\ RecordIsTrue /\ AloneInContact
  BY DEF Init, Uncommitted, WorkersOwnTheirCalls, RecordIsTrue, AloneInContact, IdleWorker, NoSession, Active
<1>3. SessionsOwnTheirCalls /\ StatusIsTold
  BY DEF Init, SessionsOwnTheirCalls, StatusIsTold, NoSession
<1>4. Numbered
  <2>1. \A t \in Turn : Placed(t) = {}
    BY DEF Init, Placed
  <2>2. \A t \in Turn : {<<t, i>> : i \in 1 .. 0} = {}
    OBVIOUS
  <2>3. QED
    BY <2>1, <2>2 DEF Numbered
<1>5. QED
  BY <1>1, <1>2, <1>3, <1>4 DEF IInv

LEMMA StepHolds == IInv /\ [Next]_vars => IInv'
<1> SUFFICES ASSUME IInv, [Next]_vars PROVE IInv'
  OBVIOUS
<1>1. ASSUME NEW t \in Turn, LooksForActiveCall(t) \/ Reserve(t) \/ LeaseRunsOut(t) PROVE IInv'
  BY <1>1, LooksStep, ReserveStep, LeaseStep
<1>2. ASSUME NEW d \in Dispatcher, NEW t \in Turn, Claim(d, t) PROVE IInv'
  BY <1>2, ClaimStep
<1>3. ASSUME NEW d \in Dispatcher, Place(d) \/ Attach(d) \/ LookUp(d) PROVE IInv'
  BY <1>3, PlaceStep, AttachStep, LookUpStep
<1>4. ASSUME NEW d \in Dispatcher, MarkAmbiguous(d) PROVE IInv'
  BY <1>4, SettledStep DEF MarkAmbiguous
<1>5. ASSUME NEW d \in Dispatcher, MarkFailed(d) PROVE IInv'
  BY <1>5, SettledStep DEF MarkFailed
<1>6. ASSUME NEW d \in Dispatcher, Dies(d) PROVE IInv'
  BY <1>6, StopsQuiet DEF Dies
<1>7. ASSUME NEW c \in Call, CallStarts(c) \/ CallEnds(c) \/ Resolve(c) PROVE IInv'
  BY <1>7, ProviderStep, ResolveStep
<1>8. ASSUME NEW c \in Call, NEW kind \in Kind, AppendEvent(c, kind) PROVE IInv'
  BY <1>8, AppendStep
<1>9. CASE UNCHANGED vars
  <2>1. UNCHANGED <<commit, session, expiries, worker, life, recorded>>
    BY <1>9 DEF vars
  <2>2. TypeOK' /\ Uncommitted' /\ SessionsOwnTheirCalls' /\ WorkersOwnTheirCalls'
    BY <2>1 DEF IInv, TypeOK, Uncommitted, SessionsOwnTheirCalls, WorkersOwnTheirCalls
  <2>3. RecordIsTrue' /\ StatusIsTold' /\ AloneInContact'
    BY <2>1 DEF IInv, RecordIsTrue, StatusIsTold, AloneInContact, Tells
  <2>4. Numbered'
    BY <2>1 DEF IInv, Numbered, Placed
  <2>5. QED
    BY <2>2, <2>3, <2>4 DEF IInv
<1>10. QED
  BY <1>1, <1>2, <1>3, <1>4, <1>5, <1>6, <1>7, <1>8, <1>9 DEF Next, Dispatch

-----------------------------------------------------------------------------
(* Theorems *)

\* The invariant holds in every reachable state, whatever the turns, contacts
\* and dispatchers, and however often leases run out.
THEOREM Inductive == Spec => []IInv
<1>1. QED
  BY InitHolds, StepHolds, PTL DEF Spec

\* Every variable keeps its type.
THEOREM TypeCorrect == Spec => []TypeOK
<1>1. IInv => TypeOK
  BY DEF IInv
<1>2. QED
  BY <1>1, Inductive, PTL

\* The status of a session with a call is what its events on record say
\* (recomputeProjectionOnTransaction), whatever the order they came in.
THEOREM StatusHolds == Spec => []StatusFollowsRecord
<1>1. IInv => StatusFollowsRecord
  <2> SUFFICES ASSUME IInv, NEW t \in Turn, session[t].provider # None
               PROVE  session[t].status = Projected(t, session[t].provider, recorded)
    BY DEF StatusFollowsRecord
  <2>1. session[t].provider \in Call /\ TurnOf(session[t].provider) = t /\ recorded \in SUBSET (Call \X Kind)
    BY DEF IInv, TypeOK, Session, SessionsOwnTheirCalls
  <2>2. \A e \in recorded : TurnOf(e[1]) = t => e[1] = session[t].provider
    BY DEF IInv, RecordIsTrue
  <2>3. QED
    BY <2>1, <2>2, ProjectedTells DEF IInv, StatusIsTold
<1>2. QED
  BY <1>1, Inductive, PTL

\* However the commits of a contact's turns interleave (reserveCallForDecision),
\* at most one of its sessions is not over.
THEOREM OneActive == Spec => []OneActiveCall
<1>1. IInv => OneActiveCall
  <2> SUFFICES ASSUME IInv, NEW k \in Contact PROVE Cardinality(ActiveOf(k)) <= 1
    BY DEF OneActiveCall
  <2>1. CASE ActiveOf(k) = {}
    BY <2>1, FS_EmptySet
  <2>2. CASE ActiveOf(k) # {}
    <3>1. PICK t \in ActiveOf(k) : TRUE
      BY <2>2
    <3>2. ActiveOf(k) = {t}
      BY <3>1 DEF ActiveOf, IInv, AloneInContact
    <3>3. QED
      BY <3>2, FS_Singleton
  <2>3. QED
    BY <2>1, <2>2
<1>2. QED
  BY <1>1, Inductive, PTL

LEMMA RecomputedKeeps ==
    ASSUME NEW r \in Session, NEW u, NEW events
    PROVE  /\ Recomputed(u, r, events).provider = r.provider
           /\ r.status \in Terminal => Recomputed(u, r, events).status = r.status
<1> DEFINE st == IF r.status \in Terminal THEN r.status ELSE Projected(u, r.provider, events)
<1>1. Recomputed(u, r, events) = [r EXCEPT !.status = st, !.analysis = AnalysisOf(u, events)]
  BY DEF Recomputed
<1>2. r.status \in Terminal => st = r.status
  OBVIOUS
<1> HIDE DEF st
<1>3. [r EXCEPT !.status = st, !.analysis = AnalysisOf(u, events)] = Rec(st, r.provider, r.leased, AnalysisOf(u, events))
  BY StatusAndAnalysisSet
<1>4. QED
  BY <1>1, <1>2, <1>3 DEF Rec

\* What a step does to the session of a turn that has a call, or is over.
LEMMA StepKeepsCall ==
    ASSUME IInv, [Next]_vars, NEW t \in Turn
    PROVE  /\ session[t].provider # None => session'[t].provider = session[t].provider
           /\ session[t].status \in Terminal =>
                 /\ session'[t].status = session[t].status
                 /\ session'[t].provider = session[t].provider
<1> DEFINE Kept ==
             /\ session[t].provider # None => session'[t].provider = session[t].provider
             /\ session[t].status \in Terminal =>
                   /\ session'[t].status = session[t].status
                   /\ session'[t].provider = session[t].provider
<1>0. /\ session \in [Turn -> Session]
      /\ \A u \in Turn : session[u].status \in {"none", "requested", "dispatching", "dispatch_ambiguous"}
                        => session[u].provider = None /\ session[u].status \notin Terminal
  BY DEF IInv, TypeOK, SessionsOwnTheirCalls, Terminal
<1>1. ASSUME UNCHANGED session PROVE Kept
  BY <1>1
<1>2. ASSUME NEW u \in Turn, Reserve(u) PROVE Kept
  <2>1. session[u].status = "none"
    BY <1>2 DEF Reserve, IInv, Uncommitted, NoSession
  <2>2. u # t => session'[t] = session[t]
    BY <1>0, <1>2 DEF Reserve
  <2>3. QED
    BY <1>0, <1>1, <2>1, <2>2, <1>2 DEF Reserve
<1>3. ASSUME NEW u \in Turn, LeaseRunsOut(u) PROVE Kept
  BY <1>0, <1>3 DEF LeaseRunsOut, Session
<1>4. ASSUME NEW d \in Dispatcher, NEW u \in Turn, Claim(d, u) PROVE Kept
  BY <1>0, <1>1, <1>4 DEF Claim, Claimable
<1>5. ASSUME NEW d \in Dispatcher, Attach(d) PROVE Kept
  BY <1>0, <1>1, <1>5, WorkerType DEF IInv, Attach, Attachable
<1>6. ASSUME NEW d \in Dispatcher, MarkAmbiguous(d) \/ MarkFailed(d) PROVE Kept
  BY <1>0, <1>1, <1>6, WorkerType DEF IInv, MarkAmbiguous, MarkFailed, Settled
<1>7. ASSUME NEW c \in Call, Resolve(c) PROVE Kept
  BY <1>0, <1>7, CallFacts DEF Resolve, Correlatable
<1>8. ASSUME NEW c \in Call, NEW kind \in Kind, AppendEvent(c, kind) PROVE Kept
  <2>1. IInv'
    BY <1>8, AppendStep
  <2>2. TurnOf(c) \in Turn
    BY CallFacts
  <2>3. session' = [session EXCEPT ![TurnOf(c)] = Recomputed(TurnOf(c), session[TurnOf(c)], recorded')]
    BY <1>8 DEF AppendEvent
  <2>4. QED
    BY <1>0, <2>2, <2>3, RecomputedKeeps
<1>9. ASSUME NEW u \in Turn, LooksForActiveCall(u) PROVE Kept
  BY <1>1, <1>9 DEF LooksForActiveCall
<1>10. ASSUME NEW d \in Dispatcher, Place(d) \/ LookUp(d) \/ Dies(d) PROVE Kept
  BY <1>1, <1>10 DEF Place, LookUp, Dies
<1>11. ASSUME NEW c \in Call, CallStarts(c) \/ CallEnds(c) PROVE Kept
  BY <1>1, <1>11 DEF CallStarts, CallEnds
<1>12. ASSUME UNCHANGED vars PROVE Kept
  BY <1>1, <1>12 DEF vars
<1> HIDE DEF Kept
<1>13. Kept
  <2>1. ASSUME NEW u \in Turn, LooksForActiveCall(u) \/ Reserve(u) \/ LeaseRunsOut(u) PROVE Kept
    BY <1>2, <1>3, <1>9, <2>1
  <2>2. ASSUME NEW d \in Dispatcher, Dispatch(d) PROVE Kept
    BY <1>4, <1>5, <1>6, <1>10, <2>2 DEF Dispatch
  <2>3. ASSUME NEW c \in Call, CallStarts(c) \/ CallEnds(c) \/ Resolve(c) PROVE Kept
    BY <1>7, <1>11, <2>3
  <2>4. QED
    BY <1>8, <1>12, <2>1, <2>2, <2>3 DEF Next
<1>14. QED
  BY <1>13 DEF Kept

\* A session's call is never exchanged (attachProviderCall, resolveRetellCall),
\* and what is over stays so (recomputeProjectionOnTransaction).
THEOREM CallIsFixed == Spec => ProviderCallIsFixed
<1>1. IInv /\ [Next]_vars =>
        [\A t \in Turn :
          /\ session[t].provider # None => session'[t].provider = session[t].provider
          /\ session[t].status \in Terminal =>
                /\ session'[t].status = session[t].status
                /\ session'[t].provider = session[t].provider]_vars
  BY StepKeepsCall
<1>2. QED
  BY <1>1, Inductive, PTL DEF Spec, ProviderCallIsFixed

-----------------------------------------------------------------------------
(* One call per lease *)

\* A session nobody claimed was not dialled, and a dispatcher whose lease still
\* runs is counted; a lease that ran out counts for the next one.
WithinLease(t) ==
    /\ session[t].leased => session[t].status = "dispatching"
    /\ session[t].status \in {"none", "requested"} => Placed(t) = {} /\ PlacingFor(t) = {}
    /\ Cardinality(Placed(t)) + Cardinality(PlacingFor(t)) <=
          IF session[t].status = "dispatching" /\ ~session[t].leased
            THEN expiries[t] ELSE 1 + expiries[t]

LInv == \A t \in Turn : WithinLease(t)

LEMMA PlacedFinite ==
    ASSUME IInv, NEW t \in Turn
    PROVE  IsFiniteSet(Placed(t))
<1>1. PICK n \in Nat : Placed(t) = {<<t, i>> : i \in 1 .. n}
  BY DEF IInv, Numbered
<1>2. QED
  BY <1>1, NumberedFinite

LEMMA CountType ==
    ASSUME IInv, NEW t \in Turn
    PROVE  /\ IsFiniteSet(PlacingFor(t)) /\ Cardinality(PlacingFor(t)) \in Nat
           /\ Cardinality(Placed(t)) \in Nat
           /\ expiries[t] \in Nat
<1>1. PlacingFor(t) \in SUBSET Dispatcher
  BY DEF PlacingFor
<1>2. IsFiniteSet(PlacingFor(t))
  BY <1>1, FS_Subset, CallAssumption DEF CallAssumption
<1>3. Cardinality(PlacingFor(t)) \in Nat
  BY <1>2, FS_CardinalityType
<1>4. Cardinality(Placed(t)) \in Nat
  BY NumberedCardinality DEF IInv, Numbered
<1>5. expiries[t] \in Nat
  BY CallAssumption DEF IInv, TypeOK, CallAssumption
<1>6. QED
  BY <1>2, <1>3, <1>4, <1>5

\* A step that leaves every session as it is, or takes it out of dispatching.
LEMMA NoNewLease ==
    ASSUME IInv, IInv', NEW t \in Turn, WithinLease(t), Placed(t)' = Placed(t),
           PlacingFor(t)' \subseteq PlacingFor(t), expiries' = expiries,
           \/ session'[t] = session[t]
           \/ /\ ~session'[t].leased
              /\ session'[t].status \notin {"none", "requested", "dispatching"}
    PROVE  WithinLease(t)'
<1>1. /\ Cardinality(PlacingFor(t)') <= Cardinality(PlacingFor(t))
      /\ Cardinality(PlacingFor(t)') \in Nat
  BY CountType, FS_Subset, FS_CardinalityType
<1> DEFINE p == Cardinality(Placed(t))
           n == Cardinality(PlacingFor(t))
           m == Cardinality(PlacingFor(t)')
<1>2. p \in Nat /\ n \in Nat /\ m \in Nat /\ expiries[t] \in Nat
  BY <1>1, CountType
<1>3. m <= n
  BY <1>1
<1>4. p + n <= IF session[t].status = "dispatching" /\ ~session[t].leased
                 THEN expiries[t] ELSE 1 + expiries[t]
  BY DEF WithinLease
<1> HIDE DEF p, n, m
<1>5. p + m <= IF session'[t].status = "dispatching" /\ ~session'[t].leased
                 THEN expiries[t] ELSE 1 + expiries[t]
  BY <1>2, <1>3, <1>4
<1>6. session'[t].leased => session'[t].status = "dispatching"
  BY DEF WithinLease
<1>7. session'[t].status \in {"none", "requested"} => Placed(t)' = {} /\ PlacingFor(t)' = {}
  BY DEF WithinLease
<1>8. QED
  BY <1>5, <1>6, <1>7 DEF WithinLease, p, m

LEMMA StopsPlacing ==
    ASSUME IInv, NEW d \in Dispatcher, NEW w, worker' = [worker EXCEPT ![d] = w], w.pc # "place"
    PROVE  \A u \in Turn : PlacingFor(u)' = PlacingFor(u) \ {d}
<1>1. worker \in [Dispatcher -> Worker]
  BY DEF IInv, TypeOK
<1>2. ASSUME NEW u \in Turn, NEW e \in Dispatcher
      PROVE  e \in PlacingFor(u)' <=> e \in PlacingFor(u) /\ e # d
  BY <1>1 DEF PlacingFor
<1>3. ASSUME NEW u \in Turn PROVE PlacingFor(u)' = PlacingFor(u) \ {d}
  BY <1>2 DEF PlacingFor
<1>4. QED
  BY <1>3

LEMMA StopsOrGoes ==
    ASSUME IInv, NEW d \in Dispatcher, NEW t, NEW c,
           NEW pc \in {"attach", "ambiguous", "rejected", "lookup", "found"},
           Stops(d) \/ Goes(d, pc, t, c)
    PROVE  \A u \in Turn : PlacingFor(u)' = PlacingFor(u) \ {d}
<1>1. CASE Stops(d)
  <2>1. IdleWorker.pc # "place" /\ worker' = [worker EXCEPT ![d] = IdleWorker]
    BY <1>1 DEF Stops, IdleWorker
  <2>2. QED
    BY <2>1, StopsPlacing
<1>2. CASE Goes(d, pc, t, c)
  <2> DEFINE w == [pc |-> pc, turn |-> t, call |-> c]
  <2>1. w.pc # "place" /\ worker' = [worker EXCEPT ![d] = w]
    BY <1>2 DEF Goes
  <2> HIDE DEF w
  <2>2. QED
    BY <2>1, StopsPlacing
<1>3. QED
  BY <1>1, <1>2

LEMMA WithinInit == Init => LInv
<1> SUFFICES ASSUME Init, NEW t \in Turn PROVE WithinLease(t)
  BY DEF LInv
<1>1. Placed(t) = {} /\ PlacingFor(t) = {}
  BY DEF Init, Placed, PlacingFor, IdleWorker
<1>2. Cardinality(Placed(t)) = 0 /\ Cardinality(PlacingFor(t)) = 0
  BY <1>1, FS_EmptySet
<1>3. session[t] = NoSession /\ expiries[t] = 0
  BY DEF Init
<1>4. QED
  BY <1>1, <1>2, <1>3 DEF WithinLease, NoSession

LEMMA WithinReserve ==
    ASSUME IInv, LInv, NEW t \in Turn, Reserve(t) PROVE LInv'
<1> SUFFICES ASSUME NEW u \in Turn PROVE WithinLease(u)'
  BY DEF LInv
<1>0. session \in [Turn -> Session] /\ session[t] = NoSession
  BY DEF IInv, TypeOK, Uncommitted, Reserve
<1>1. /\ WithinLease(u) /\ Placed(u)' = Placed(u) /\ PlacingFor(u)' = PlacingFor(u) /\ expiries' = expiries
  BY DEF LInv, Reserve, Placed, PlacingFor
<1>2. CASE session'[u] = session[u]
  BY <1>1, <1>2 DEF WithinLease
<1>3. CASE session'[u] # session[u]
  <2>1. u = t /\ session'[u].status = "requested" /\ session'[u].leased = FALSE
    BY <1>0, <1>3 DEF Reserve, NoSession
  <2>2. session[u].status = "none" /\ session[u].leased = FALSE
    BY <1>0, <2>1 DEF NoSession
  <2>3. QED
    BY <1>1, <2>1, <2>2 DEF WithinLease
<1>4. QED
  BY <1>2, <1>3

LEMMA WithinLeaseRuns ==
    ASSUME IInv, LInv, NEW t \in Turn, LeaseRunsOut(t) PROVE LInv'
<1> SUFFICES ASSUME NEW u \in Turn PROVE WithinLease(u)'
  BY DEF LInv
<1>0. session \in [Turn -> Session] /\ expiries \in [Turn -> 0 .. MaxExpiries] /\ expiries[u] \in Nat
  BY CountType DEF IInv, TypeOK
<1>1. /\ WithinLease(u) /\ Placed(u)' = Placed(u) /\ PlacingFor(u)' = PlacingFor(u)
  BY DEF LInv, LeaseRunsOut, Placed, PlacingFor
<1>2. CASE u # t
  <2>1. session'[u] = session[u] /\ expiries'[u] = expiries[u]
    BY <1>0, <1>2 DEF LeaseRunsOut
  <2>2. QED
    BY <1>1, <2>1 DEF WithinLease
<1>3. CASE u = t
  <2> DEFINE s == [session[t] EXCEPT !.leased = FALSE]
  <2>1. s.status = session[t].status /\ s.leased = FALSE
    BY <1>0 DEF Session
  <2>2. session'[u] = s /\ expiries'[u] = expiries[u] + 1 /\ session[u].leased
    BY <1>0, <1>3 DEF LeaseRunsOut
  <2> HIDE DEF s
  <2>3. session[u].status = "dispatching"
    BY <1>1, <2>2 DEF WithinLease
  <2>4. Cardinality(Placed(u)) + Cardinality(PlacingFor(u)) <= 1 + expiries[u]
    BY <1>1, <2>2 DEF WithinLease
  <2>5. QED
    BY <1>0, <1>1, <1>3, <2>1, <2>2, <2>3, <2>4 DEF WithinLease
<1>4. QED
  BY <1>2, <1>3

LEMMA WithinQuiet ==
    ASSUME IInv, IInv', LInv, expiries' = expiries,
           \A u \in Turn : Placed(u)' = Placed(u) /\ PlacingFor(u)' \subseteq PlacingFor(u),
           \A u \in Turn : \/ session'[u] = session[u]
                           \/ /\ ~session'[u].leased
                              /\ session'[u].status \notin {"none", "requested", "dispatching"}
    PROVE  LInv'
BY NoNewLease DEF LInv

\* A session taken out of dispatching.
LEMMA Leaves ==
    ASSUME IInv, NEW t \in Turn, NEW c, NEW status \in {"dispatch_ambiguous", "failed"}
    PROVE  /\ LET s == Accepted(session[t], c)
              IN  ~s.leased /\ s.status \notin {"none", "requested", "dispatching"}
           /\ LET s == [session[t] EXCEPT !.status = status, !.leased = FALSE]
              IN  ~s.leased /\ s.status \notin {"none", "requested", "dispatching"}
<1>1. session[t] \in Session
  BY DEF IInv, TypeOK
<1>2. Accepted(session[t], c) = Rec("provider_accepted", c, FALSE, session[t].analysis)
  BY <1>1, CallSet DEF Accepted
<1>3. [session[t] EXCEPT !.status = status, !.leased = FALSE] = Rec(status, session[t].provider, FALSE, session[t].analysis)
  BY <1>1, StatusAndLeaseSet
<1>4. QED
  BY <1>2, <1>3 DEF Rec

LEMMA WithinSettled ==
    ASSUME IInv, IInv', LInv, NEW d \in Dispatcher, worker[d].pc # "idle",
           NEW status \in {"dispatch_ambiguous", "failed"},
           Settled(worker[d].turn, status), Stops(d), UNCHANGED <<commit, expiries, life, recorded>>
    PROVE  LInv'
<1>1. PICK t \in Turn : t = worker[d].turn
  BY WorkerType DEF IInv
<1>2. \A u \in Turn : Placed(u)' = Placed(u) /\ PlacingFor(u)' \subseteq PlacingFor(u)
  BY StopsOrGoes DEF Placed
<1>3. \A u \in Turn : \/ session'[u] = session[u]
                      \/ /\ ~session'[u].leased
                         /\ session'[u].status \notin {"none", "requested", "dispatching"}
  <2> DEFINE s == [session[t] EXCEPT !.status = status, !.leased = FALSE]
  <2>1. ~s.leased /\ s.status \notin {"none", "requested", "dispatching"}
    BY Leaves
  <2>2. UNCHANGED session \/ session' = [session EXCEPT ![t] = s]
    BY <1>1 DEF Settled
  <2> HIDE DEF s
  <2>3. QED
    BY <2>1, <2>2 DEF IInv, TypeOK
<1>4. QED
  BY <1>2, <1>3, WithinQuiet

LEMMA WithinAttach ==
    ASSUME IInv, IInv', LInv, NEW d \in Dispatcher, Attach(d) PROVE LInv'
<1>1. PICK t \in Turn : t = worker[d].turn
  BY WorkerType DEF IInv, Attach
<1>2. PICK c \in Call : c = worker[d].call
  BY WorkerType DEF IInv, Attach
<1>3. Stops(d) \/ Goes(d, "ambiguous", t, None)
  BY <1>1 DEF Attach
<1>4. \A u \in Turn : Placed(u)' = Placed(u) /\ PlacingFor(u)' \subseteq PlacingFor(u)
  BY <1>3, StopsOrGoes DEF Placed, Attach
<1>5. UNCHANGED session \/ session' = [session EXCEPT ![t] = Accepted(session[t], c)]
  BY <1>1, <1>2 DEF Attach
<1>6. \A u \in Turn : \/ session'[u] = session[u]
                      \/ /\ ~session'[u].leased
                         /\ session'[u].status \notin {"none", "requested", "dispatching"}
  BY <1>5, Leaves DEF IInv, TypeOK
<1>7. QED
  BY <1>4, <1>6, WithinQuiet DEF Attach

LEMMA WithinResolve ==
    ASSUME IInv, IInv', LInv, NEW c \in Call, Resolve(c) PROVE LInv'
<1>1. TurnOf(c) \in Turn
  BY CallFacts
<1>2. \A u \in Turn : Placed(u)' = Placed(u) /\ PlacingFor(u)' = PlacingFor(u)
  BY DEF Resolve, Placed, PlacingFor
<1>3. \A u \in Turn : \/ session'[u] = session[u]
                      \/ /\ ~session'[u].leased
                         /\ session'[u].status \notin {"none", "requested", "dispatching"}
  BY <1>1, Leaves DEF IInv, TypeOK, Resolve
<1>4. QED
  BY <1>2, <1>3, WithinQuiet DEF Resolve

LEMMA WithinAppend ==
    ASSUME IInv, IInv', LInv, NEW c \in Call, NEW kind \in Kind, AppendEvent(c, kind) PROVE LInv'
<1>1. PICK t \in Turn : t = TurnOf(c)
  BY CallFacts
<1>2. session \in [Turn -> Session] /\ session[t].provider = c /\ c # None
  BY <1>1, CallFacts DEF AppendEvent, IInv, TypeOK
<1>3. session[t].status \notin {"none", "requested", "dispatching"}
  BY <1>2 DEF IInv, SessionsOwnTheirCalls, Terminal
<1>4. session[t].leased = FALSE
  BY <1>2, <1>3 DEF LInv, WithinLease, Session
<1>5. session' = [session EXCEPT ![t] = Recomputed(t, session[t], recorded')]
  BY <1>1 DEF AppendEvent
<1>6. Recomputed(t, session[t], recorded').leased = FALSE
  <2> DEFINE st == IF session[t].status \in Terminal THEN session[t].status
                   ELSE Projected(t, session[t].provider, recorded')
  <2>1. Recomputed(t, session[t], recorded') = [session[t] EXCEPT !.status = st, !.analysis = AnalysisOf(t, recorded')]
    BY DEF Recomputed
  <2> HIDE DEF st
  <2>2. [session[t] EXCEPT !.status = st, !.analysis = AnalysisOf(t, recorded')]
          = Rec(st, session[t].provider, session[t].leased, AnalysisOf(t, recorded'))
    BY <1>2, StatusAndAnalysisSet
  <2>3. QED
    BY <1>4, <2>1, <2>2 DEF Rec
<1>7. session'[t].provider = c
  BY <1>2, <1>5, RecomputedKeeps
<1>8. session'[t].status \notin {"none", "requested", "dispatching"}
  BY <1>2, <1>7 DEF IInv, SessionsOwnTheirCalls, Terminal
<1>9. \A u \in Turn : \/ session'[u] = session[u]
                      \/ /\ ~session'[u].leased
                         /\ session'[u].status \notin {"none", "requested", "dispatching"}
  BY <1>2, <1>5, <1>6, <1>8
<1>10. \A u \in Turn : Placed(u)' = Placed(u) /\ PlacingFor(u)' = PlacingFor(u)
  BY DEF AppendEvent, Placed, PlacingFor
<1>11. QED
  BY <1>9, <1>10, WithinQuiet DEF AppendEvent

LEMMA WithinOthers ==
    ASSUME IInv, IInv', LInv, UNCHANGED <<session, expiries>>,
           \/ \E t \in Turn : LooksForActiveCall(t)
           \/ \E d \in Dispatcher : LookUp(d) \/ Dies(d)
           \/ \E c \in Call : CallStarts(c) \/ CallEnds(c)
           \/ UNCHANGED vars
    PROVE  LInv'
<1>1. \A u \in Turn : Placed(u)' = Placed(u)
  <2>1. CASE UNCHANGED life
    BY <2>1 DEF Placed
  <2>2. ASSUME NEW c \in Call, CallStarts(c) \/ CallEnds(c)
        PROVE  \A u \in Turn : Placed(u)' = Placed(u)
    <3>1. \A e \in Call : life'[e] # "none" <=> life[e] # "none"
      BY <2>2, CallAssumption DEF CallStarts, CallEnds, IInv, TypeOK, CallAssumption
    <3>2. QED
      BY <3>1 DEF Placed
  <2>3. QED
    BY <2>1, <2>2 DEF LooksForActiveCall, LookUp, Dies, vars
<1>2. \A u \in Turn : PlacingFor(u)' \subseteq PlacingFor(u)
  <2>1. CASE UNCHANGED worker
    BY <2>1 DEF PlacingFor
  <2>2. ASSUME NEW d \in Dispatcher, LookUp(d) \/ Dies(d)
        PROVE  \A u \in Turn : PlacingFor(u)' \subseteq PlacingFor(u)
    <3>1. CASE Stops(d)
      BY <3>1, StopsOrGoes
    <3>2. ASSUME NEW c, Goes(d, "found", worker[d].turn, c)
          PROVE  \A u \in Turn : PlacingFor(u)' \subseteq PlacingFor(u)
      BY <3>2, StopsOrGoes
    <3>3. QED
      BY <2>2, <3>1, <3>2 DEF LookUp, Dies
  <2>3. QED
    BY <2>1, <2>2 DEF LooksForActiveCall, CallStarts, CallEnds, vars
<1>3. QED
  BY <1>1, <1>2, WithinQuiet

LEMMA WithinClaim ==
    ASSUME IInv, IInv', LInv, NEW d \in Dispatcher, NEW t \in Turn, Claim(d, t) PROVE LInv'
<1>0. session \in [Turn -> Session] /\ worker \in [Dispatcher -> Worker]
  BY DEF IInv, TypeOK
<1>1. \A u \in Turn : Placed(u)' = Placed(u)
  BY DEF Claim, Placed
<1>2. CASE ~Claimable(session[t])
  <2>1. Goes(d, "lookup", t, None) /\ UNCHANGED <<session, expiries>>
    BY <1>2 DEF Claim
  <2>2. QED
    BY <1>1, <2>1, StopsOrGoes, WithinQuiet
<1>3. CASE Claimable(session[t])
  <2> SUFFICES ASSUME NEW u \in Turn PROVE WithinLease(u)'
    BY DEF LInv
  <2> DEFINE s == [session[t] EXCEPT !.status = "dispatching", !.leased = TRUE]
             w == [pc |-> "place", turn |-> t, call |-> None]
  <2>1. /\ session' = [session EXCEPT ![t] = s] /\ expiries' = expiries
        /\ worker' = [worker EXCEPT ![d] = w] /\ worker[d].pc = "idle"
    BY <1>3 DEF Claim, Goes
  <2>2. s = Rec("dispatching", session[t].provider, TRUE, session[t].analysis)
    BY <1>0, StatusAndLeaseSet
  <2>3. s.status = "dispatching" /\ s.leased = TRUE
    BY <2>2 DEF Rec
  <2>4. w.pc = "place" /\ w.turn = t
    OBVIOUS
  <2> HIDE DEF s, w
  <2>5. WithinLease(u) /\ Placed(u)' = Placed(u)
    BY <1>1 DEF LInv
  <2>6. CASE u # t
    <3>1. session'[u] = session[u]
      BY <1>0, <2>1, <2>6
    <3>2. \A e \in Dispatcher : e \in PlacingFor(u)' <=> e \in PlacingFor(u)
      BY <1>0, <2>1, <2>4, <2>6 DEF PlacingFor
    <3>3. PlacingFor(u)' = PlacingFor(u)
      BY <3>2 DEF PlacingFor
    <3>4. QED
      BY <2>1, <2>5, <3>1, <3>3 DEF WithinLease
  <2>7. CASE u = t
    <3>1. session'[u] = s
      BY <1>0, <2>1, <2>7
    <3>2. \A e \in Dispatcher : e \in PlacingFor(u)' <=> e \in PlacingFor(u) \/ e = d
      BY <1>0, <2>1, <2>4, <2>7 DEF PlacingFor
    <3>3. PlacingFor(u)' = PlacingFor(u) \cup {d}
      BY <3>2 DEF PlacingFor
    <3>4. d \notin PlacingFor(u)
      BY <2>1 DEF PlacingFor
    <3>5. Cardinality(PlacingFor(u)') = Cardinality(PlacingFor(u)) + 1
      BY <3>3, <3>4, CountType, FS_AddElement
    <3>6. Cardinality(Placed(u)) + Cardinality(PlacingFor(u)) <= expiries[u]
      <4>1. CASE session[t].status = "requested"
        <5>1. Cardinality(Placed(u)) = 0 /\ Cardinality(PlacingFor(u)) = 0
          BY <2>5, <2>7, <4>1, FS_EmptySet DEF WithinLease
        <5>2. QED
          BY <5>1, CountType
      <4>2. CASE session[t].status = "dispatching" /\ ~session[t].leased
        BY <2>5, <2>7, <4>2 DEF WithinLease
      <4>3. QED
        BY <1>3, <4>1, <4>2 DEF Claimable
    <3>7. Cardinality(Placed(u)') + Cardinality(PlacingFor(u)') <= 1 + expiries'[u]
      BY <2>1, <2>5, <3>5, <3>6, CountType
    <3>8. QED
      BY <2>3, <3>1, <3>7 DEF WithinLease
  <2>8. QED
    BY <2>6, <2>7
<1>4. QED
  BY <1>2, <1>3

LEMMA WithinPlace ==
    ASSUME IInv, IInv', LInv, NEW d \in Dispatcher, Place(d) PROVE LInv'
<1> SUFFICES ASSUME NEW u \in Turn PROVE WithinLease(u)'
  BY DEF LInv
<1>1. PICK t \in Turn : t = worker[d].turn
  BY WorkerType DEF IInv, Place
<1> DEFINE c == <<t, Cardinality(Placed(t)) + 1>>
<1>2. /\ session' = session /\ expiries' = expiries /\ worker[d].pc = "place"
      /\ WithinLease(u)
  BY DEF Place, LInv
<1>3. PlacingFor(u)' = PlacingFor(u) \ {d}
  <2>1. PICK pc, a : pc \in {"attach", "ambiguous", "rejected"} /\ Goes(d, pc, t, a)
    BY <1>1 DEF Place
  <2>2. QED
    BY <2>1, StopsOrGoes
<1>4. Placed(u)' = Placed(u) \/ (u = t /\ Placed(u)' = Placed(u) \cup {c})
  <2>1. CASE UNCHANGED life
    BY <2>1 DEF Placed
  <2>2. CASE c \in Call /\ life' = [life EXCEPT ![c] = "dialling"]
    <3>1. TurnOf(c) = t
      BY DEF TurnOf
    <3> HIDE DEF c
    <3>2. \A e \in Call : life'[e] # "none" <=> life[e] # "none" \/ e = c
      BY <2>2 DEF IInv, TypeOK
    <3>3. CASE u = t
      <4>1. \A e \in Call : e \in Placed(u)' <=> e \in Placed(u) \cup {c}
        BY <3>1, <3>2, <3>3 DEF Placed
      <4>2. QED
        BY <2>2, <3>3, <4>1 DEF Placed
    <3>4. CASE u # t
      <4>1. \A e \in Call : e \in Placed(u)' <=> e \in Placed(u)
        BY <3>1, <3>2, <3>4 DEF Placed
      <4>2. QED
        BY <4>1 DEF Placed
    <3>5. QED
      BY <3>3, <3>4
  <2>3. QED
    BY <1>1, <2>1, <2>2 DEF Place
<1>5. CASE Placed(u)' = Placed(u)
  BY <1>2, <1>3, <1>5, NoNewLease
<1>6. CASE u = t /\ Placed(u)' = Placed(u) \cup {c}
  <2>1. IsFiniteSet(Placed(u))
    BY PlacedFinite
  <2>2. Cardinality(Placed(u)') <= Cardinality(Placed(u)) + 1 /\ Cardinality(Placed(u)') \in Nat
    <3> HIDE DEF c
    <3>1. /\ IsFiniteSet(Placed(u) \cup {c})
          /\ Cardinality(Placed(u) \cup {c}) =
               IF c \in Placed(u) THEN Cardinality(Placed(u)) ELSE Cardinality(Placed(u)) + 1
      BY <2>1, FS_AddElement
    <3>2. Cardinality(Placed(u) \cup {c}) \in Nat /\ Cardinality(Placed(u)) \in Nat
      BY <3>1, CountType, FS_CardinalityType
    <3>3. QED
      BY <1>6, <3>1, <3>2
  <2>3. Cardinality(PlacingFor(u)') = Cardinality(PlacingFor(u)) - 1
    <3>1. d \in PlacingFor(u)
      BY <1>1, <1>2, <1>6 DEF PlacingFor
    <3>2. QED
      BY <1>3, <3>1, CountType, FS_RemoveElement
  <2>4. Cardinality(Placed(u)') + Cardinality(PlacingFor(u)')
          <= Cardinality(Placed(u)) + Cardinality(PlacingFor(u))
    BY <2>2, <2>3, CountType
  <2>5. session[u].status \notin {"none", "requested"}
    BY <1>1, <1>2, <1>6 DEF WithinLease, PlacingFor
  <2>6. (Cardinality(Placed(u)') + Cardinality(PlacingFor(u)')) <=
          IF session[u].status = "dispatching" /\ ~session[u].leased
            THEN expiries[u] ELSE 1 + expiries[u]
    <3> DEFINE x == Cardinality(Placed(u)') + Cardinality(PlacingFor(u)')
               y == Cardinality(Placed(u)) + Cardinality(PlacingFor(u))
    <3>1. x <= y /\ x \in Int /\ y \in Int /\ expiries[u] \in Int
      BY <2>2, <2>3, <2>4, CountType
    <3>2. y <= IF session[u].status = "dispatching" /\ ~session[u].leased
                 THEN expiries[u] ELSE 1 + expiries[u]
      BY <1>2 DEF WithinLease
    <3> HIDE DEF x, y
    <3>3. x <= IF session[u].status = "dispatching" /\ ~session[u].leased
                 THEN expiries[u] ELSE 1 + expiries[u]
      BY <3>1, <3>2
    <3>4. QED
      BY <3>3 DEF x
  <2>7. QED
    BY <1>2, <2>5, <2>6 DEF WithinLease
<1>7. QED
  BY <1>4, <1>5, <1>6

LEMMA WithinStep == IInv /\ LInv /\ [Next]_vars => LInv'
<1> SUFFICES ASSUME IInv, LInv, [Next]_vars PROVE LInv'
  OBVIOUS
<1>1. IInv'
  BY StepHolds
<1>2. ASSUME NEW t \in Turn, Reserve(t) \/ LeaseRunsOut(t) PROVE LInv'
  BY <1>2, WithinReserve, WithinLeaseRuns
<1>3. ASSUME NEW d \in Dispatcher, NEW t \in Turn, Claim(d, t) PROVE LInv'
  BY <1>1, <1>3, WithinClaim
<1>4. ASSUME NEW d \in Dispatcher, Place(d) \/ Attach(d) PROVE LInv'
  BY <1>1, <1>4, WithinPlace, WithinAttach
<1>5. ASSUME NEW d \in Dispatcher, MarkAmbiguous(d) PROVE LInv'
  BY <1>1, <1>5, WithinSettled DEF MarkAmbiguous
<1>6. ASSUME NEW d \in Dispatcher, MarkFailed(d) PROVE LInv'
  BY <1>1, <1>6, WithinSettled DEF MarkFailed
<1>7. ASSUME NEW c \in Call, Resolve(c) PROVE LInv'
  BY <1>1, <1>7, WithinResolve
<1>8. ASSUME NEW c \in Call, NEW kind \in Kind, AppendEvent(c, kind) PROVE LInv'
  BY <1>1, <1>8, WithinAppend
<1>9. CASE \/ \E t \in Turn : LooksForActiveCall(t)
           \/ \E d \in Dispatcher : LookUp(d) \/ Dies(d)
           \/ \E c \in Call : CallStarts(c) \/ CallEnds(c)
           \/ UNCHANGED vars
  <2>1. UNCHANGED <<session, expiries>>
    BY <1>9 DEF LooksForActiveCall, LookUp, Dies, CallStarts, CallEnds, vars
  <2>2. QED
    BY <1>1, <1>9, <2>1, WithinOthers
<1>10. QED
  BY <1>2, <1>3, <1>4, <1>5, <1>6, <1>7, <1>8, <1>9 DEF Next, Dispatch

\* A session is dialled once, and once more for each lease that ran out
\* (claimDispatch, placeCall), however many dispatchers there are and whatever
\* becomes of their answers.
THEOREM OneCallPerLease == Spec => []CallsPerLease
<1>1. IInv /\ LInv => CallsPerLease
  <2> SUFFICES ASSUME IInv, LInv, NEW t \in Turn
               PROVE  Cardinality(Placed(t)) + Cardinality(PlacingFor(t)) <= 1 + expiries[t]
    BY DEF CallsPerLease
  <2>1. WithinLease(t)
    BY DEF LInv
  <2>2. QED
    BY <2>1, CountType DEF WithinLease
<1>2. Spec => [](IInv /\ LInv)
  BY InitHolds, StepHolds, WithinInit, WithinStep, PTL DEF Spec
<1>3. QED
  BY <1>1, <1>2, PTL

-----------------------------------------------------------------------------
(* One call under way per contact *)

\* As long as a session's lease never ran out, only its first claim placed a
\* call: a refusal means there is none.
Solo(t) ==
    expiries[t] = 0 =>
       /\ session[t].status = "dispatching" => session[t].leased
       /\ session[t].status \in {"none", "requested"} =>
             \A d \in Dispatcher : worker[d].pc # "idle" => worker[d].turn # t
       /\ \/ \E d \in Dispatcher : worker[d].pc = "rejected" /\ worker[d].turn = t
          \/ session[t].status = "failed" /\ session[t].provider = None
          => Placed(t) = {} /\ PlacingFor(t) = {}

SInv == \A t \in Turn : Solo(t)

LEMMA SoloInit == Init => SInv
<1> SUFFICES ASSUME Init, NEW t \in Turn PROVE Solo(t)
  BY DEF SInv
<1>1. session[t] = NoSession /\ \A d \in Dispatcher : worker[d].pc = "idle"
  BY DEF Init, IdleWorker
<1>2. QED
  BY <1>1 DEF Solo, NoSession

\* A step of at most one dispatcher, at work on turn t or idle, that places
\* nothing and is not refused.
LEMMA SoloQuiet ==
    ASSUME IInv, NEW u \in Turn, Solo(u), expiries'[u] = expiries[u],
           Placed(u)' = Placed(u), PlacingFor(u)' \subseteq PlacingFor(u),
           \A d \in Dispatcher :
              worker'[d] = worker[d] \/ worker'[d].turn # u \/ worker'[d].pc \in {"idle", "attach", "ambiguous", "found"},
           \A d \in Dispatcher :
              worker'[d].turn = u /\ worker'[d].pc # "idle" => worker[d].turn = u /\ worker[d].pc # "idle",
           \/ session'[u] = session[u]
           \/ /\ session[u].status = "none"
              /\ session'[u].status = "requested"
           \/ session'[u].status \notin {"none", "requested", "dispatching", "failed"}
           \/ session'[u].provider # None /\ session'[u].status = "failed"
    PROVE  Solo(u)'
<1> SUFFICES ASSUME expiries[u] = 0
             PROVE  /\ session'[u].status = "dispatching" => session'[u].leased
                    /\ session'[u].status \in {"none", "requested"} =>
                          \A d \in Dispatcher : worker'[d].pc # "idle" => worker'[d].turn # u
                    /\ \/ \E d \in Dispatcher : worker'[d].pc = "rejected" /\ worker'[d].turn = u
                       \/ session'[u].status = "failed" /\ session'[u].provider = None
                       => Placed(u)' = {} /\ PlacingFor(u)' = {}
  BY DEF Solo
<1>1. session'[u].status = "dispatching" => session'[u].leased
  BY DEF Solo
<1>2. session'[u].status \in {"none", "requested"} =>
          \A d \in Dispatcher : worker'[d].pc # "idle" => worker'[d].turn # u
  BY DEF Solo
<1>3. ASSUME NEW d \in Dispatcher, worker'[d].pc = "rejected", worker'[d].turn = u
      PROVE  Placed(u)' = {} /\ PlacingFor(u)' = {}
  <2>1. worker[d].pc = "rejected" /\ worker[d].turn = u
    BY <1>3
  <2>2. QED
    BY <2>1 DEF Solo
<1>4. session'[u].status = "failed" /\ session'[u].provider = None => session'[u] = session[u]
  OBVIOUS
<1>5. session'[u].status = "failed" /\ session'[u].provider = None
        => Placed(u)' = {} /\ PlacingFor(u)' = {}
  BY <1>4 DEF Solo
<1>6. QED
  BY <1>1, <1>2, <1>3, <1>5

\* A dispatcher that was at work stops, or goes on with the same turn.
LEMMA SoloWorker ==
    ASSUME IInv, NEW d \in Dispatcher, NEW t, NEW c, worker[d].turn = t, worker[d].pc # "idle",
           NEW pc \in {"attach", "ambiguous", "found"}, Stops(d) \/ Goes(d, pc, t, c)
    PROVE  \A u \in Turn :
              /\ PlacingFor(u)' \subseteq PlacingFor(u)
              /\ \A e \in Dispatcher :
                    worker'[e] = worker[e] \/ worker'[e].turn # u \/ worker'[e].pc \in {"idle", "attach", "ambiguous", "found"}
              /\ \A e \in Dispatcher :
                    worker'[e].turn = u /\ worker'[e].pc # "idle" => worker[e].turn = u /\ worker[e].pc # "idle"
<1>1. PICK w : w.pc \in {"idle", pc} /\ (w.pc # "idle" => w.turn = t) /\ worker' = [worker EXCEPT ![d] = w]
  <2>1. CASE Stops(d)
    <3>1. IdleWorker.pc = "idle"
      BY DEF IdleWorker
    <3>2. QED
      BY <2>1, <3>1 DEF Stops
  <2>2. CASE Goes(d, pc, t, c)
    <3> DEFINE w == [pc |-> pc, turn |-> t, call |-> c]
    <3>1. w.pc = pc /\ w.turn = t /\ worker' = [worker EXCEPT ![d] = w]
      BY <2>2 DEF Goes
    <3> HIDE DEF w
    <3>2. QED
      BY <3>1
  <2>3. QED
    BY <2>1, <2>2
<1>2. worker'[d] = w /\ \A e \in Dispatcher : e # d => worker'[e] = worker[e]
  BY <1>1 DEF IInv, TypeOK
<1>3. \A u \in Turn : PlacingFor(u)' \subseteq PlacingFor(u)
  BY <1>1, StopsPlacing
<1>4. QED
  BY <1>1, <1>2, <1>3

LEMMA SoloDispatch ==
    ASSUME IInv, SInv, UNCHANGED <<expiries, life>>, NEW d \in Dispatcher, NEW t, NEW c,
           worker[d].turn = t, worker[d].pc # "idle",
           NEW pc \in {"attach", "ambiguous", "found"}, Stops(d) \/ Goes(d, pc, t, c),
           \A u \in Turn :
              \/ session'[u] = session[u]
              \/ session'[u].status \notin {"none", "requested", "dispatching", "failed"}
    PROVE  SInv'
<1> SUFFICES ASSUME NEW u \in Turn PROVE Solo(u)'
  BY DEF SInv
<1>1. /\ Solo(u) /\ expiries'[u] = expiries[u] /\ Placed(u)' = Placed(u)
  BY DEF SInv, Placed
<1>2. /\ PlacingFor(u)' \subseteq PlacingFor(u)
      /\ \A e \in Dispatcher :
            worker'[e] = worker[e] \/ worker'[e].turn # u \/ worker'[e].pc \in {"idle", "attach", "ambiguous", "found"}
      /\ \A e \in Dispatcher :
            worker'[e].turn = u /\ worker'[e].pc # "idle" => worker[e].turn = u /\ worker[e].pc # "idle"
  BY SoloWorker
<1>3. QED
  BY <1>1, <1>2, SoloQuiet

LEMMA AmbiguousOrAccepted ==
    ASSUME IInv, NEW t \in Turn, NEW c
    PROVE  /\ Accepted(session[t], c).status = "provider_accepted"
           /\ [session[t] EXCEPT !.status = "dispatch_ambiguous", !.leased = FALSE].status = "dispatch_ambiguous"
<1>1. session[t] \in Session
  BY DEF IInv, TypeOK
<1>2. Accepted(session[t], c) = Rec("provider_accepted", c, FALSE, session[t].analysis)
  BY <1>1, CallSet DEF Accepted
<1>3. [session[t] EXCEPT !.status = "dispatch_ambiguous", !.leased = FALSE]
        = Rec("dispatch_ambiguous", session[t].provider, FALSE, session[t].analysis)
  BY <1>1, StatusAndLeaseSet
<1>4. QED
  BY <1>2, <1>3 DEF Rec

LEMMA SoloAttach ==
    ASSUME IInv, SInv, NEW d \in Dispatcher, Attach(d) PROVE SInv'
<1>1. PICK t \in Turn : t = worker[d].turn
  BY WorkerType DEF IInv, Attach
<1>2. PICK c \in Call : c = worker[d].call
  BY WorkerType DEF IInv, Attach
<1>3. Stops(d) \/ Goes(d, "ambiguous", t, None)
  BY <1>1 DEF Attach
<1>4. UNCHANGED session \/ session' = [session EXCEPT ![t] = Accepted(session[t], c)]
  BY <1>1, <1>2 DEF Attach
<1>5. \A u \in Turn : \/ session'[u] = session[u]
                      \/ session'[u].status \notin {"none", "requested", "dispatching", "failed"}
  BY <1>4, AmbiguousOrAccepted DEF IInv, TypeOK
<1>6. worker[d].pc # "idle" /\ UNCHANGED <<expiries, life>>
  BY DEF Attach
<1>7. QED
  BY <1>1, <1>3, <1>5, <1>6, SoloDispatch

LEMMA SoloMarkAmbiguous ==
    ASSUME IInv, SInv, NEW d \in Dispatcher, MarkAmbiguous(d) PROVE SInv'
<1>1. PICK t \in Turn : t = worker[d].turn
  BY WorkerType DEF IInv, MarkAmbiguous
<1>2. \A u \in Turn : \/ session'[u] = session[u]
                      \/ session'[u].status \notin {"none", "requested", "dispatching", "failed"}
  <2> DEFINE s == [session[t] EXCEPT !.status = "dispatch_ambiguous", !.leased = FALSE]
  <2>1. s.status = "dispatch_ambiguous"
    BY AmbiguousOrAccepted
  <2>2. UNCHANGED session \/ session' = [session EXCEPT ![t] = s]
    BY <1>1 DEF MarkAmbiguous, Settled
  <2> HIDE DEF s
  <2>3. QED
    BY <2>1, <2>2 DEF IInv, TypeOK
<1>3. QED
  BY <1>1, <1>2, SoloDispatch DEF MarkAmbiguous

LEMMA SoloLookUpOrDies ==
    ASSUME IInv, SInv, NEW d \in Dispatcher, LookUp(d) \/ Dies(d) PROVE SInv'
<1>1. worker[d].pc # "idle" /\ UNCHANGED <<expiries, life, session>>
  BY DEF LookUp, Dies
<1>2. CASE Stops(d)
  BY <1>1, <1>2, SoloDispatch
<1>3. ASSUME NEW c, Goes(d, "found", worker[d].turn, c) PROVE SInv'
  BY <1>1, <1>3, SoloDispatch
<1>4. QED
  BY <1>2, <1>3 DEF LookUp, Dies

\* Steps of the ledger and of the provider that no dispatcher makes.
LEMMA SoloOthers ==
    ASSUME IInv, IInv', SInv, UNCHANGED <<expiries, worker>>, \A u \in Turn : Placed(u)' = Placed(u),
           \A u \in Turn :
              \/ session'[u] = session[u]
              \/ session[u].status = "none" /\ session'[u].status = "requested"
              \/ /\ session'[u].provider # None
                 /\ session'[u].status \notin {"none", "requested", "dispatching"}
    PROVE  SInv'
<1> SUFFICES ASSUME NEW u \in Turn PROVE Solo(u)'
  BY DEF SInv
<1>1. Solo(u) /\ PlacingFor(u)' \subseteq PlacingFor(u) /\ expiries'[u] = expiries[u]
  BY DEF SInv, PlacingFor
<1>2. QED
  BY <1>1, SoloQuiet

LEMMA SoloLedger ==
    ASSUME IInv, IInv', SInv,
           \/ \E t \in Turn : LooksForActiveCall(t) \/ Reserve(t)
           \/ \E c \in Call : CallStarts(c) \/ CallEnds(c) \/ Resolve(c)
           \/ \E c \in Call, kind \in Kind : AppendEvent(c, kind)
           \/ UNCHANGED vars
    PROVE  SInv'
<1>1. UNCHANGED <<expiries, worker>>
  BY DEF LooksForActiveCall, Reserve, CallStarts, CallEnds, Resolve, AppendEvent, vars
<1>2. \A u \in Turn : Placed(u)' = Placed(u)
  <2>1. CASE UNCHANGED life
    BY <2>1 DEF Placed
  <2>2. ASSUME NEW c \in Call, CallStarts(c) \/ CallEnds(c)
        PROVE  \A u \in Turn : Placed(u)' = Placed(u)
    <3>1. \A e \in Call : life'[e] # "none" <=> life[e] # "none"
      BY <2>2, CallAssumption DEF CallStarts, CallEnds, IInv, TypeOK, CallAssumption
    <3>2. QED
      BY <3>1 DEF Placed
  <2>3. QED
    BY <2>1, <2>2 DEF LooksForActiveCall, Reserve, Resolve, AppendEvent, vars
<1> DEFINE Allowed(u) ==
             \/ session'[u] = session[u]
             \/ session[u].status = "none" /\ session'[u].status = "requested"
             \/ /\ session'[u].provider # None
                /\ session'[u].status \notin {"none", "requested", "dispatching"}
<1>3. ASSUME NEW t \in Turn, Reserve(t), NEW u \in Turn PROVE Allowed(u)
  <2>1. session[t].status = "none" /\ session[t] \in Session
    BY <1>3 DEF Reserve, IInv, Uncommitted, NoSession, TypeOK
  <2>2. UNCHANGED session \/ session' = [session EXCEPT ![t].status = "requested"]
    BY <1>3 DEF Reserve
  <2>3. QED
    BY <2>1, <2>2 DEF IInv, TypeOK, Session
<1>4. ASSUME NEW c \in Call, Resolve(c) \/ \E kind \in Kind : AppendEvent(c, kind), NEW u \in Turn
      PROVE  Allowed(u)
  <2>1. TurnOf(c) \in Turn /\ c # None
    BY CallFacts
  <2>2. u # TurnOf(c) => session'[u] = session[u]
    BY <1>4, <2>1 DEF Resolve, AppendEvent, IInv, TypeOK
  <2>3. session'[TurnOf(c)].provider = c
    <3>1. CASE Resolve(c)
      <4>1. Accepted(session[TurnOf(c)], c) = Rec("provider_accepted", c, FALSE, session[TurnOf(c)].analysis)
        BY <2>1, CallSet DEF Accepted, IInv, TypeOK
      <4>2. QED
        BY <2>1, <3>1, <4>1 DEF Resolve, Rec, IInv, TypeOK
    <3>2. CASE \E kind \in Kind : AppendEvent(c, kind)
      BY <2>1, <3>2, RecomputedKeeps DEF AppendEvent, IInv, TypeOK
    <3>3. QED
      BY <1>4, <3>1, <3>2
  <2>4. session'[TurnOf(c)].status \notin {"none", "requested", "dispatching"}
    BY <2>1, <2>3 DEF IInv, SessionsOwnTheirCalls, Terminal
  <2>5. QED
    BY <2>1, <2>2, <2>3, <2>4
<1>5. ASSUME UNCHANGED session, NEW u \in Turn PROVE Allowed(u)
  BY <1>5
<1>6. \A u \in Turn : Allowed(u)
  BY <1>3, <1>4, <1>5 DEF LooksForActiveCall, CallStarts, CallEnds, vars
<1>7. QED
  BY <1>1, <1>2, <1>6, SoloOthers

LEMMA SoloLease ==
    ASSUME IInv, SInv, NEW t \in Turn, LeaseRunsOut(t) PROVE SInv'
<1> SUFFICES ASSUME NEW u \in Turn PROVE Solo(u)'
  BY DEF SInv
<1>1. CASE u = t
  <2>1. expiries'[u] = expiries[u] + 1 /\ expiries[u] \in Nat
    BY <1>1, CountType DEF LeaseRunsOut, IInv, TypeOK
  <2>2. QED
    BY <2>1 DEF Solo
<1>2. CASE u # t
  <2>1. /\ session'[u] = session[u] /\ expiries'[u] = expiries[u]
        /\ Placed(u)' = Placed(u) /\ PlacingFor(u)' = PlacingFor(u) /\ worker' = worker
    BY <1>2 DEF LeaseRunsOut, IInv, TypeOK, Placed, PlacingFor
  <2>2. QED
    BY <2>1 DEF SInv, Solo
<1>3. QED
  BY <1>1, <1>2

LEMMA SoloClaim ==
    ASSUME IInv, IInv', LInv, SInv, NEW d \in Dispatcher, NEW t \in Turn, Claim(d, t) PROVE SInv'
<1> SUFFICES ASSUME NEW u \in Turn, expiries[u] = 0 PROVE Solo(u)'
  BY DEF SInv, Solo, Claim
<1>0. /\ session \in [Turn -> Session] /\ worker \in [Dispatcher -> Worker]
      /\ Solo(u) /\ WithinLease(u) /\ Placed(u)' = Placed(u) /\ expiries' = expiries
      /\ worker[d].pc = "idle"
  BY DEF IInv, TypeOK, SInv, LInv, Claim, Placed
<1>1. PICK w : /\ worker' = [worker EXCEPT ![d] = w] /\ w.turn = t /\ w.pc \in {"place", "lookup"}
               /\ w.pc = "place" <=> Claimable(session[t])
  <2> DEFINE p == [pc |-> "place", turn |-> t, call |-> None]
             l == [pc |-> "lookup", turn |-> t, call |-> None]
  <2>1. p.turn = t /\ p.pc = "place" /\ l.turn = t /\ l.pc = "lookup"
    OBVIOUS
  <2>2. CASE Claimable(session[t])
    <3>1. worker' = [worker EXCEPT ![d] = p]
      BY <2>2 DEF Claim, Goes
    <3> HIDE DEF p
    <3>2. QED
      BY <2>1, <2>2, <3>1
  <2>3. CASE ~Claimable(session[t])
    <3>1. worker' = [worker EXCEPT ![d] = l]
      BY <2>3 DEF Claim, Goes
    <3> HIDE DEF l
    <3>2. QED
      BY <2>1, <2>3, <3>1
  <2>4. QED
    BY <2>2, <2>3
<1>2. worker'[d] = w /\ \A e \in Dispatcher : e # d => worker'[e] = worker[e]
  BY <1>0, <1>1
<1>3. CASE u # t
  <2>1. session'[u] = session[u]
    BY <1>0, <1>3 DEF Claim
  <2>2. PlacingFor(u)' \subseteq PlacingFor(u)
    BY <1>1, <1>2, <1>3 DEF PlacingFor
  <2>3. /\ \A e \in Dispatcher : worker'[e] = worker[e] \/ worker'[e].turn # u
        /\ \A e \in Dispatcher :
              worker'[e].turn = u /\ worker'[e].pc # "idle" => worker[e].turn = u /\ worker[e].pc # "idle"
    BY <1>1, <1>2, <1>3
  <2>4. QED
    BY <1>0, <2>1, <2>2, <2>3, SoloQuiet
<1>4. CASE u = t /\ ~Claimable(session[t])
  <2>1. session'[u] = session[u] /\ session[u].status = "dispatch_ambiguous"
    BY <1>4 DEF Claim
  <2>2. PlacingFor(u)' \subseteq PlacingFor(u)
    BY <1>1, <1>2, <1>4 DEF PlacingFor
  <2>3. \A e \in Dispatcher : worker'[e].pc = "rejected" => worker[e] = worker'[e]
    BY <1>1, <1>2
  <2>4. QED
    BY <1>0, <2>1, <2>2, <2>3 DEF Solo
<1>5. CASE u = t /\ Claimable(session[t])
  <2>1. session[u].status = "requested"
    BY <1>0, <1>5 DEF Claimable, Solo
  <2>2. \A e \in Dispatcher : worker'[e].pc = "rejected" => worker'[e].turn # u
    BY <1>0, <1>1, <1>2, <1>5, <2>1 DEF Solo
  <2>3. session'[u].status = "dispatching" /\ session'[u].leased
    <3>1. session'[u] = [session[u] EXCEPT !.status = "dispatching", !.leased = TRUE]
      BY <1>0, <1>5 DEF Claim
    <3>2. session'[u] = Rec("dispatching", session[u].provider, TRUE, session[u].analysis)
      BY <1>0, <3>1, StatusAndLeaseSet
    <3>3. QED
      BY <3>2 DEF Rec
  <2>4. QED
    BY <2>2, <2>3 DEF Solo
<1>6. QED
  BY <1>3, <1>4, <1>5

LEMMA SoloPlace ==
    ASSUME IInv, IInv', LInv, SInv, NEW d \in Dispatcher, Place(d) PROVE SInv'
<1> SUFFICES ASSUME NEW u \in Turn, expiries[u] = 0 PROVE Solo(u)'
  BY DEF SInv, Solo, Place
<1>1. PICK t \in Turn : t = worker[d].turn
  BY WorkerType DEF IInv, Place
<1>2. /\ session' = session /\ expiries' = expiries /\ worker[d].pc = "place"
      /\ WithinLease(u) /\ Solo(u)
  BY DEF Place, LInv, SInv
<1>3. PICK pc, a : /\ pc \in {"attach", "ambiguous", "rejected"}
                   /\ Goes(d, pc, t, a)
                   /\ pc = "rejected" => UNCHANGED life
  BY <1>1 DEF Place
<1>4. PlacingFor(u)' = PlacingFor(u) \ {d}
  BY <1>3, StopsOrGoes
<1> DEFINE w == [pc |-> pc, turn |-> t, call |-> a]
<1>5. w.pc = pc /\ w.turn = t /\ worker'[d] = w /\ \A e \in Dispatcher : e # d => worker'[e] = worker[e]
  BY <1>3 DEF Goes, IInv, TypeOK
<1> HIDE DEF w
<1>6. CASE u # t
  <2>1. Placed(u)' = Placed(u)
    <3>1. CASE UNCHANGED life
      BY <3>1 DEF Placed
    <3>2. CASE \E n : <<t, n>> \in Call /\ life' = [life EXCEPT ![<<t, n>>] = "dialling"]
      <4>1. \A e \in Call : TurnOf(e) = u => life'[e] = life[e]
        BY <1>6, <3>2 DEF TurnOf, IInv, TypeOK
      <4>2. QED
        BY <4>1 DEF Placed
    <3>3. QED
      BY <1>1, <3>1, <3>2 DEF Place
  <2>2. \A e \in Dispatcher : worker'[e].turn = u => worker'[e] = worker[e]
    BY <1>5, <1>6
  <2>3. QED
    BY <1>2, <1>4, <2>1, <2>2 DEF Solo
<1>7. CASE u = t
  <2>1. d \in PlacingFor(u)
    BY <1>1, <1>2, <1>7 DEF PlacingFor
  <2>2. session[u].status \notin {"none", "requested"}
    BY <2>1, <1>2 DEF WithinLease
  <2>3. ~(\E e \in Dispatcher : worker[e].pc = "rejected" /\ worker[e].turn = u)
        /\ ~(session[u].status = "failed" /\ session[u].provider = None)
    BY <1>2, <2>1 DEF Solo
  <2>4. pc = "rejected" => Placed(u)' = {} /\ PlacingFor(u)' = {}
    <3> SUFFICES ASSUME pc = "rejected" PROVE Placed(u)' = {} /\ PlacingFor(u)' = {}
      OBVIOUS
    <3>1. Placed(u)' = Placed(u)
      BY <1>3 DEF Placed
    <3>2. Cardinality(Placed(u)) + Cardinality(PlacingFor(u)) <= 1
      BY <1>2, CountType DEF WithinLease
    <3>3. Cardinality(PlacingFor(u) \ {d}) = Cardinality(PlacingFor(u)) - 1
          /\ IsFiniteSet(PlacingFor(u) \ {d})
      BY <2>1, CountType, FS_RemoveElement
    <3>4. Cardinality(PlacingFor(u) \ {d}) \in Nat
      BY <3>3, FS_CardinalityType
    <3>5. Cardinality(Placed(u)) = 0 /\ Cardinality(PlacingFor(u) \ {d}) = 0
      BY <3>2, <3>3, <3>4, CountType
    <3>6. IsFiniteSet(Placed(u))
      BY PlacedFinite
    <3>7. QED
      BY <1>4, <3>1, <3>3, <3>5, <3>6, FS_EmptySet
  <2>5. \A e \in Dispatcher : worker'[e].pc = "rejected" /\ worker'[e].turn = u => e = d /\ pc = "rejected"
    BY <1>5, <2>3
  <2>6. QED
    BY <1>2, <2>2, <2>3, <2>4, <2>5 DEF Solo
<1>8. QED
  BY <1>6, <1>7

LEMMA SoloMarkFailed ==
    ASSUME IInv, SInv, NEW d \in Dispatcher, MarkFailed(d) PROVE SInv'
<1> SUFFICES ASSUME NEW u \in Turn, expiries[u] = 0 PROVE Solo(u)'
  BY DEF SInv, Solo, MarkFailed
<1>1. PICK t \in Turn : t = worker[d].turn
  BY WorkerType DEF IInv, MarkFailed
<1>2. /\ expiries' = expiries /\ worker[d].pc = "rejected" /\ Solo(u)
      /\ Placed(u)' = Placed(u) /\ PlacingFor(u)' \subseteq PlacingFor(u)
  BY StopsOrGoes DEF MarkFailed, SInv, Placed
<1>3. worker'[d].pc = "idle" /\ \A e \in Dispatcher : e # d => worker'[e] = worker[e]
  BY DEF MarkFailed, Stops, IdleWorker, IInv, TypeOK
<1>4. \A e \in Dispatcher : worker'[e] = worker[e] \/ worker'[e].pc = "idle"
  BY <1>3
<1>5. CASE session'[u] = session[u]
  BY <1>2, <1>4, <1>5 DEF Solo
<1>6. CASE session'[u] # session[u]
  <2> DEFINE s == [session[t] EXCEPT !.status = "failed", !.leased = FALSE]
  <2>1. UNCHANGED session \/ session' = [session EXCEPT ![t] = s]
    BY <1>1 DEF MarkFailed, Settled
  <2>2. s.status = "failed"
    <3>1. s = Rec("failed", session[t].provider, FALSE, session[t].analysis)
      BY StatusAndLeaseSet DEF IInv, TypeOK
    <3>2. QED
      BY <3>1 DEF Rec
  <2> HIDE DEF s
  <2>3. u = t /\ session'[u].status = "failed"
    BY <1>6, <2>1, <2>2 DEF IInv, TypeOK
  <2>4. Placed(u) = {} /\ PlacingFor(u) = {}
    BY <1>1, <1>2, <2>3 DEF Solo
  <2>5. QED
    BY <1>2, <2>3, <2>4 DEF Solo
<1>7. QED
  BY <1>5, <1>6

LEMMA SoloStep == IInv /\ LInv /\ SInv /\ [Next]_vars => SInv'
<1> SUFFICES ASSUME IInv, LInv, SInv, [Next]_vars PROVE SInv'
  OBVIOUS
<1>1. IInv'
  BY StepHolds
<1>2. ASSUME NEW t \in Turn, LeaseRunsOut(t) PROVE SInv'
  BY <1>2, SoloLease
<1>3. ASSUME NEW d \in Dispatcher, NEW t \in Turn, Claim(d, t) PROVE SInv'
  BY <1>1, <1>3, SoloClaim
<1>4. ASSUME NEW d \in Dispatcher, Place(d) \/ Attach(d) PROVE SInv'
  BY <1>1, <1>4, SoloPlace, SoloAttach
<1>5. ASSUME NEW d \in Dispatcher, MarkAmbiguous(d) \/ MarkFailed(d) PROVE SInv'
  BY <1>5, SoloMarkAmbiguous, SoloMarkFailed
<1>6. ASSUME NEW d \in Dispatcher, LookUp(d) \/ Dies(d) PROVE SInv'
  BY <1>6, SoloLookUpOrDies
<1>7. CASE \/ \E t \in Turn : LooksForActiveCall(t) \/ Reserve(t)
           \/ \E c \in Call : CallStarts(c) \/ CallEnds(c) \/ Resolve(c)
           \/ \E c \in Call, kind \in Kind : AppendEvent(c, kind)
           \/ UNCHANGED vars
  BY <1>1, <1>7, SoloLedger
<1>8. QED
  BY <1>2, <1>3, <1>4, <1>5, <1>6, <1>7 DEF Next, Dispatch

\* A turn whose lease never ran out has at most one call, and its session is
\* active while the call is under way.
LEMMA LiveIsActive ==
    ASSUME IInv, LInv, SInv, NEW t \in Turn, expiries[t] = 0, NEW c \in Placed(t),
           life[c] \in {"dialling", "talking"}
    PROVE  Placed(t) = {c} /\ session[t].status \in Active
<1>1. Cardinality(Placed(t)) <= 1 /\ IsFiniteSet(Placed(t))
  <2>1. WithinLease(t)
    BY DEF LInv
  <2>2. Cardinality(Placed(t)) <= 1
    BY <2>1, CountType DEF WithinLease
  <2>3. QED
    BY <2>2, PlacedFinite
<1>2. Placed(t) = {c}
  <2>1. {c} \in SUBSET Placed(t) /\ Cardinality({c}) = 1 /\ Cardinality({c}) <= Cardinality(Placed(t))
    BY <1>1, FS_Singleton, FS_Subset
  <2>2. Cardinality(Placed(t)) \in Nat
    BY CountType
  <2>3. Cardinality(Placed(t)) = Cardinality({c})
    BY <1>1, <2>1, <2>2
  <2>4. QED
    BY <1>1, <2>1, <2>3, FS_Subset
<1>3. life[c] \notin Reason /\ c \in Call
  BY CallAssumption DEF CallAssumption, Placed
<1>4. session[t].status \notin {"none", "requested"}
  BY <1>2 DEF LInv, WithinLease
<1>5. CASE session[t].provider = None
  <2>1. session[t].status # "failed"
    BY <1>2, <1>5 DEF SInv, Solo
  <2>2. QED
    BY <1>2, <1>4, <1>5, <2>1 DEF IInv, SessionsOwnTheirCalls, Active
<1>6. CASE session[t].provider # None
  <2> DEFINE p == session[t].provider
  <2>1. p \in Call /\ TurnOf(p) = t
    BY <1>6 DEF IInv, TypeOK, Session, SessionsOwnTheirCalls
  <2>2. <<p, "ended">> \notin recorded
    <3> SUFFICES ASSUME <<p, "ended">> \in recorded PROVE FALSE
      OBVIOUS
    <3>1. life[p] \in Reason
      BY DEF IInv, RecordIsTrue
    <3>2. life[p] # "none"
      BY <3>1, CallAssumption DEF CallAssumption
    <3>3. p \in Placed(t)
      BY <2>1, <3>2 DEF Placed
    <3>4. QED
      BY <1>2, <1>3, <3>1, <3>3
  <2>3. session[t].status = Tells(p, recorded, life)
    BY <1>6 DEF IInv, StatusIsTold
  <2>4. QED
    BY <1>2, <2>2, <2>3 DEF Tells, Active
<1>7. QED
  BY <1>5, <1>6

\* While no lease of a contact's sessions ran out (dispatch_lease_until), the
\* contact has at most one call under way.
THEOREM OneLive == Spec => []OneLiveCall
<1>1. IInv /\ LInv /\ SInv => OneLiveCall
  <2> SUFFICES ASSUME IInv, LInv, SInv, NEW k \in Contact,
                      \A t \in Turn : ContactOf[t] = k => expiries[t] = 0
               PROVE  Cardinality(Live(k)) <= 1
    BY DEF OneLiveCall
  <2>1. ASSUME NEW c \in Live(k), NEW e \in Live(k) PROVE c = e
    <3>1. /\ TurnOf(c) \in Turn /\ TurnOf(e) \in Turn
          /\ ContactOf[TurnOf(c)] = k /\ ContactOf[TurnOf(e)] = k
          /\ life[c] \in {"dialling", "talking"} /\ life[e] \in {"dialling", "talking"}
      BY CallFacts DEF Live
    <3>2. c \in Placed(TurnOf(c)) /\ e \in Placed(TurnOf(e))
      BY <3>1 DEF Live, Placed
    <3>3. /\ Placed(TurnOf(c)) = {c} /\ session[TurnOf(c)].status \in Active
          /\ Placed(TurnOf(e)) = {e} /\ session[TurnOf(e)].status \in Active
      BY <3>1, <3>2, LiveIsActive
    <3>4. TurnOf(c) = TurnOf(e)
      BY <3>1, <3>3 DEF IInv, AloneInContact
    <3>5. QED
      BY <3>3, <3>4
  <2>2. CASE Live(k) = {}
    BY <2>2, FS_EmptySet
  <2>3. CASE Live(k) # {}
    <3>1. PICK c \in Live(k) : TRUE
      BY <2>3
    <3>2. Live(k) = {c}
      BY <2>1, <3>1
    <3>3. Cardinality({c}) = 1
      BY FS_Singleton
    <3>4. QED
      BY <3>2, <3>3
  <2>4. QED
    BY <2>2, <2>3
<1>2. Spec => [](IInv /\ LInv /\ SInv)
  BY InitHolds, StepHolds, WithinInit, WithinStep, SoloInit, SoloStep, PTL DEF Spec
<1>3. QED
  BY <1>1, <1>2, PTL

=============================================================================
