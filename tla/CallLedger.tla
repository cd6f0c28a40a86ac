----------------------------- MODULE CallLedger -----------------------------
(***************************************************************************)
(* The ledger of voice calls.  The commit of a turn's decision reserves    *)
(* one session; the bot asks the backend to dispatch it, perhaps several   *)
(* times; a dispatcher claims the session under a lease, asks the provider *)
(* to place the call and attaches the call's id; the provider's webhooks   *)
(* find the session by the id or by the metadata the call carries, and put *)
(* events on record, from which the session's status is projected.         *)
(*                                                                         *)
(* Each transaction is a step, and so is the provider's answer.  A webhook *)
(* needs no state of its own: between its two transactions it keeps only   *)
(* that the session has its call's id, which nothing takes back            *)
(* (ProviderCallIsFixed).                                                  *)
(***************************************************************************)
EXTENDS Naturals, FiniteSets

CONSTANTS
    Turn,         \* inbound turns whose decision asks for a call
    Contact,
    ContactOf,    \* the contact of each turn
    Dispatcher,   \* requests to the dispatch route under way at a time
    Reason,       \* why a call ends
    Kind,         \* the events the webhooks bring
    None,
    Expiring,     \* bound: the turns whose session's lease may run out
    MaxExpiries   \* bound: how often it may

ASSUME CallAssumption ==
    /\ ContactOf \in [Turn -> Contact]
    /\ IsFiniteSet(Dispatcher)
    /\ None \notin Turn \cup (Turn \X (1 .. MaxExpiries + 1))
    /\ MaxExpiries \in Nat
    /\ Reason \subseteq {"user_hangup", "no_answer", "timed_out", "busy"}
    /\ Kind \subseteq {"started", "ended", "analyzed"}

Active == {"requested", "dispatching", "provider_accepted", "dispatch_ambiguous",
           "in_progress"}
Terminal == {"completed", "failed", "no_answer", "timed_out"}

\* A provider's call is named by the turn in its metadata and its number.
Call == Turn \X (1 .. MaxExpiries + 1)
TurnOf(c) == c[1]

VARIABLES
    commit,    \* a turn's commit: nothing yet, active calls looked for, or done
    session,   \* the turn's row of call_sessions
    expiries,  \* how often the row's lease has run out
    worker,    \* the dispatchers
    life,      \* the provider's calls
    recorded   \* the events of call_events, "requested" left out

vars == <<commit, session, expiries, worker, life, recorded>>

-----------------------------------------------------------------------------

Session == [status   : Active \cup Terminal \cup {"none"},
            provider : Call \cup {None},
            leased   : BOOLEAN,  \* dispatch_lease_until is still to come
            analysis : {"pending", "completed"}]
NoSession == [status |-> "none", provider |-> None, leased |-> FALSE, analysis |-> "pending"]

Worker == [pc   : {"idle", "place", "attach", "ambiguous", "rejected", "lookup", "found"},
           turn : Turn \cup {None},
           call : Call \cup {None}]
IdleWorker == [pc |-> "idle", turn |-> None, call |-> None]

TypeOK ==
    /\ commit \in [Turn -> {"open", "looked", "done"}]
    /\ session \in [Turn -> Session]
    /\ expiries \in [Turn -> 0 .. MaxExpiries]
    /\ worker \in [Dispatcher -> Worker]
    /\ life \in [Call -> {"none", "dialling", "talking"} \cup Reason]
    /\ recorded \in SUBSET (Call \X Kind)
    /\ \A d \in Dispatcher :
          /\ worker[d].pc # "idle" => worker[d].turn # None
          /\ worker[d].pc \in {"attach", "found"} => worker[d].call # None

Init ==
    /\ commit = [t \in Turn |-> "open"]
    /\ session = [t \in Turn |-> NoSession]
    /\ expiries = [t \in Turn |-> 0]
    /\ worker = [d \in Dispatcher |-> IdleWorker]
    /\ life = [c \in Call |-> "none"]
    /\ recorded = {}

-----------------------------------------------------------------------------
(* reserveCallForDecision, in the transaction of the decision's commit *)

ActiveOf(contact) ==
    {t \in Turn : ContactOf[t] = contact /\ session[t].status \in Active}

\* The SELECT of active calls.  Consent and workspace, which reject the call
\* before anything is written, are met.
LooksForActiveCall(t) ==
    /\ commit[t] = "open"
    /\ ActiveOf(ContactOf[t]) = {}
    /\ commit' = [commit EXCEPT ![t] = "looked"]
    /\ UNCHANGED <<session, expiries, worker, life, recorded>>

\* call_sessions_one_active_per_contact_uq
IndexAllows(t) == ActiveOf(ContactOf[t]) = {}

\* Both INSERTs; a violation of the index undoes the commit, which is tried again.
Reserve(t) ==
    /\ commit[t] = "looked"
    /\ IF IndexAllows(t)
         THEN /\ commit' = [commit EXCEPT ![t] = "done"]
              /\ session' = [session EXCEPT ![t].status = "requested"]
         ELSE /\ commit' = [commit EXCEPT ![t] = "open"]
              /\ UNCHANGED session
    /\ UNCHANGED <<expiries, worker, life, recorded>>

-----------------------------------------------------------------------------
(* dispatchCall *)

Stops(d) == worker' = [worker EXCEPT ![d] = IdleWorker]
Goes(d, pc, t, c) == worker' = [worker EXCEPT ![d] = [pc |-> pc, turn |-> t, call |-> c]]

\* A mistake: the lease of another dispatcher is not looked at.
ClaimableAnyway(s) == s.status \in {"requested", "dispatching"}

\* The outcome of claimDispatch that goes on to place the call.
Claimable(s) == s.status = "requested" \/ (s.status = "dispatching" /\ ~s.leased)

\* claimDispatch; the outcomes that end the request at once leave no trace.
Claim(d, t) ==
    /\ worker[d].pc = "idle"
    /\ IF Claimable(session[t])
         THEN /\ session' = [session EXCEPT ![t].status = "dispatching", ![t].leased = TRUE]
              /\ Goes(d, "place", t, None)
         ELSE /\ session[t].status = "dispatch_ambiguous"
              /\ Goes(d, "lookup", t, None)
              /\ UNCHANGED session
    /\ UNCHANGED <<commit, expiries, life, recorded>>

\* The 60 seconds of a lease pass; whoever holds it is not told.
LeaseRunsOut(t) ==
    /\ session[t].leased
    /\ t \in Expiring
    /\ expiries[t] < MaxExpiries
    /\ session' = [session EXCEPT ![t].leased = FALSE]
    /\ expiries' = [expiries EXCEPT ![t] = @ + 1]
    /\ UNCHANGED <<commit, worker, life, recorded>>

Placed(t) == {c \in Call : TurnOf(c) = t /\ life[c] # "none"}

\* placeCall: taken by the provider and answered, taken but the answer lost,
\* never received, or refused with a 4xx.
Place(d) ==
    /\ worker[d].pc = "place"
    /\ LET t == worker[d].turn
           c == <<t, Cardinality(Placed(t)) + 1>>
       IN
       \/ /\ c \in Call
          /\ life' = [life EXCEPT ![c] = "dialling"]
          /\ Goes(d, "attach", t, c) \/ Goes(d, "ambiguous", t, None)
       \/ /\ Goes(d, "ambiguous", t, None) \/ Goes(d, "rejected", t, None)
          /\ UNCHANGED life
    /\ UNCHANGED <<commit, session, expiries, recorded>>

\* A mistake: whichever call was placed last is the session's.
AttachableToAny(s, c) == s.status \in Active

Attachable(s, c) ==
    /\ s.status \in {"dispatching", "dispatch_ambiguous"}
    /\ s.provider \in {None, c}

\* What attachProviderCall and the correlation of a webhook both write.
Accepted(s, c) == [s EXCEPT !.status = "provider_accepted", !.provider = c, !.leased = FALSE]

\* attachProviderCall; a lost fence, or a write that fails, ends in the same
\* catch as a call whose outcome is unknown, unless the id came of a lookup.
Attach(d) ==
    /\ worker[d].pc \in {"attach", "found"}
    /\ LET t == worker[d].turn
           c == worker[d].call
           GivesUp == IF worker[d].pc = "attach" THEN Goes(d, "ambiguous", t, None) ELSE Stops(d)
       IN
       \/ /\ Attachable(session[t], c)
          /\ session' = [session EXCEPT ![t] = Accepted(@, c)]
          /\ Stops(d)
       \/ /\ session[t].provider = c
          /\ session[t].status \in {"provider_accepted", "in_progress"} \cup (Terminal \ {"failed"})
          /\ Stops(d)
          /\ UNCHANGED session
       \/ /\ GivesUp
          /\ UNCHANGED session
    /\ UNCHANGED <<commit, expiries, life, recorded>>

\* A mistake: an unknown outcome is taken for a refusal.
SettledAsFailed(t, status) ==
    IF session[t].status = "dispatching"
      THEN session' = [session EXCEPT ![t].status = "failed", ![t].leased = FALSE]
      ELSE UNCHANGED session

\* markDispatchAmbiguous and markDispatchFailed: neither looks at the lease.
Settled(t, status) ==
    IF session[t].status = "dispatching"
      THEN session' = [session EXCEPT ![t].status = status, ![t].leased = FALSE]
      ELSE UNCHANGED session

MarkAmbiguous(d) ==
    /\ worker[d].pc = "ambiguous"
    /\ Settled(worker[d].turn, "dispatch_ambiguous")
    /\ Stops(d)
    /\ UNCHANGED <<commit, expiries, life, recorded>>

MarkFailed(d) ==
    /\ worker[d].pc = "rejected"
    /\ Settled(worker[d].turn, "failed")
    /\ Stops(d)
    /\ UNCHANGED <<commit, expiries, life, recorded>>

\* findCallByInternalId: nothing, more than one, or an answer that does not
\* come leave the session as it is.
LookUp(d) ==
    /\ worker[d].pc = "lookup"
    /\ \/ \E c \in Placed(worker[d].turn) :
             /\ Placed(worker[d].turn) = {c}
             /\ Goes(d, "found", worker[d].turn, c)
       \/ Stops(d)
    /\ UNCHANGED <<commit, session, expiries, life, recorded>>

\* The process of a dispatcher ends between two of its steps.
Dies(d) ==
    /\ worker[d].pc # "idle"
    /\ Stops(d)
    /\ UNCHANGED <<commit, session, expiries, life, recorded>>

-----------------------------------------------------------------------------
(* The provider: a call is answered and ends, or ends unanswered *)

CallStarts(c) ==
    /\ life[c] = "dialling"
    /\ life' = [life EXCEPT ![c] = "talking"]
    /\ UNCHANGED <<commit, session, expiries, worker, recorded>>

CallEnds(c) ==
    /\ life[c] \in {"dialling", "talking"}
    /\ \E r \in Reason :
          /\ r \in {"user_hangup", "timed_out"} <=> life[c] = "talking"
          /\ life' = [life EXCEPT ![c] = r]
    /\ UNCHANGED <<commit, session, expiries, worker, recorded>>

\* The webhooks there are to deliver, in any order and any number of times.
Happened(c, kind) ==
    CASE kind = "started" -> life[c] \in {"talking", "user_hangup", "timed_out"}
      [] OTHER -> life[c] \in Reason

-----------------------------------------------------------------------------
(* The webhook: resolveRetellCall (resolveRetellToolCall for a tool), then *)
(* recordCallEvent                                                         *)

\* A mistake: a session no dispatcher is at work on is not waiting for a call.
CorrelatableWhileDispatched(s) == s.provider = None /\ s.status = "dispatching"

Correlatable(s) ==
    s.provider = None /\ s.status \in {"dispatching", "dispatch_ambiguous"}

\* The metadata always names the session; its conditions answer 409 else.
Resolve(c) ==
    LET t == TurnOf(c) IN
    /\ life[c] # "none"
    /\ Correlatable(session[t])
    /\ session' = [session EXCEPT ![t] = Accepted(@, c)]
    /\ UNCHANGED <<commit, expiries, worker, life, recorded>>

EndStatus(r) == CASE r = "user_hangup" -> "completed"
                  [] r = "no_answer" -> "no_answer"
                  [] r = "timed_out" -> "timed_out"
                  [] OTHER -> "failed"

\* projectCallState
Projected(t, provider, events) ==
    LET ended == {e \in events : TurnOf(e[1]) = t /\ e[2] = "ended"} IN
    IF ended # {} THEN EndStatus(life[(CHOOSE e \in ended : TRUE)[1]])
    ELSE IF \E e \in events : TurnOf(e[1]) = t /\ e[2] = "started" THEN "in_progress"
    ELSE IF provider # None THEN "provider_accepted"
    ELSE "requested"

AnalysisOf(t, events) ==
    IF \E e \in events : TurnOf(e[1]) = t /\ e[2] = "analyzed" THEN "completed" ELSE "pending"

\* A mistake: a call under way is taken to have been projected.
RecomputedOnce(t, s, events) ==
    [s EXCEPT !.status = IF s.status \in Terminal \cup {"in_progress"} THEN s.status
                         ELSE Projected(t, s.provider, events),
              !.analysis = AnalysisOf(t, events)]

\* recomputeProjectionOnTransaction
Recomputed(t, s, events) ==
    [s EXCEPT !.status = IF s.status \in Terminal THEN s.status
                         ELSE Projected(t, s.provider, events),
              !.analysis = AnalysisOf(t, events)]

\* appendEvent and the projection, one transaction; a duplicate recomputes too.
AppendEvent(c, kind) ==
    LET t == TurnOf(c) IN
    /\ Happened(c, kind)
    /\ session[t].provider = c
    /\ recorded' = recorded \cup {<<c, kind>>}
    /\ session' = [session EXCEPT ![t] = Recomputed(t, @, recorded')]
    /\ UNCHANGED <<commit, expiries, worker, life>>

-----------------------------------------------------------------------------

Dispatch(d) ==
    \/ \E t \in Turn : Claim(d, t)
    \/ Place(d) \/ Attach(d) \/ MarkAmbiguous(d) \/ MarkFailed(d) \/ LookUp(d)
    \/ Dies(d)

Next ==
    \/ \E t \in Turn : LooksForActiveCall(t) \/ Reserve(t) \/ LeaseRunsOut(t)
    \/ \E d \in Dispatcher : Dispatch(d)
    \/ \E c \in Call : CallStarts(c) \/ CallEnds(c) \/ Resolve(c)
    \/ \E c \in Call, kind \in Kind : AppendEvent(c, kind)

\* A call comes to its end, and the provider repeats a webhook until the
\* backend takes it.  Nothing is assumed of the dispatchers.
Fairness ==
    \A c \in Call :
       /\ WF_vars(CallEnds(c))
       /\ WF_vars(Resolve(c))
       /\ WF_vars(AppendEvent(c, "ended"))

Spec == Init /\ [][Next]_vars /\ Fairness

-----------------------------------------------------------------------------
(* Properties *)

\* However the commits of two turns interleave, a contact has at most one
\* session that is not over, whoever looked for active calls before whom.
OneActiveCall == \A k \in Contact : Cardinality(ActiveOf(k)) <= 1

\* A session is dialled once, and once more for each lease that ran out under
\* a dispatcher; never because an outcome was unknown.
PlacingFor(t) == {d \in Dispatcher : worker[d].pc = "place" /\ worker[d].turn = t}
CallsPerLease ==
    \A t \in Turn : Cardinality(Placed(t)) + Cardinality(PlacingFor(t)) <= 1 + expiries[t]

\* While no lease runs out, a contact's phone never rings, or talks, twice at a
\* time: the sessions the ledger calls over have no call under way.
Live(k) == {c \in Call : ContactOf[TurnOf(c)] = k /\ life[c] \in {"dialling", "talking"}}
OneLiveCall ==
    \A k \in Contact :
       (\A t \in Turn : ContactOf[t] = k => expiries[t] = 0) => Cardinality(Live(k)) <= 1

\* The status of a session with a call is what its events on record say taken
\* together, in whatever order and how often they came.
StatusFollowsRecord ==
    \A t \in Turn :
       session[t].provider # None =>
          session[t].status = Projected(t, session[t].provider, recorded)

\* A session's call is never exchanged for another, and what is over stays so,
\* against late dispatchers and late webhooks alike.
ProviderCallIsFixed ==
    [][\A t \in Turn :
          /\ session[t].provider # None => session'[t].provider = session[t].provider
          /\ session[t].status \in Terminal =>
                /\ session'[t].status = session[t].status
                /\ session'[t].provider = session[t].provider]_vars

\* A session whose call was placed comes to an end, and frees its contact,
\* even if every dispatcher died before it attached the call.
PlacedCallsAreClosed ==
    \A t \in Turn : Placed(t) # {} ~> session[t].status \in Terminal

=============================================================================
