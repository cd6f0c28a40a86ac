-------------------------- MODULE PostCallFollowup --------------------------
(***************************************************************************)
(* The sweep that follows a finished call up (runPostCallFollowup): a cron *)
(* lists the oldest finished calls without a marker, and for each of them  *)
(* either revokes the contact's permission, sends one message or leaves    *)
(* the call for a later run.  Runs overlap, end half way, and race the     *)
(* analyses of the calls, which Agent B's tool and the provider's webhook  *)
(* put on record.                                                          *)
(*                                                                         *)
(* The message goes out through sendOutboundMessage under one key per      *)
(* call, on the one channel the cron configures, so a call has one row in  *)
(* outbound_deliveries: its letter.  DirectDelivery has that use case      *)
(* statement by statement, with the reconciler, which changes the state of *)
(* no such row; here it is the gate, the lease of the row and the          *)
(* provider's answer.  The text, and the payment it may depend on, make no *)
(* difference to what is done.                                             *)
(***************************************************************************)
EXTENDS Naturals, FiniteSetsExt

CONSTANTS
    NCalls,   \* Retell calls, numbered in the order in which they finished
    Sweep,    \* runs of the cron under way at a time
    Limit,    \* how many calls a run lists
    MaxAsking, \* how many of their persons ask not to be contacted
    MaxSends, \* max_attempts of a letter
    MaxMishaps \* how often a run ends half way, a statement fails, a send comes to
              \* nothing, a contact is blocked or a reply window runs out

ASSUME FollowupAssumption ==
    /\ NCalls \in Nat /\ Limit \in Nat \ {0}
    /\ MaxAsking \in Nat /\ MaxSends \in Nat \ {0} /\ MaxMishaps \in Nat

Call == 1 .. NCalls
Source == {"tool", "webhook"}

VARIABLES
    asks,       \* the sources by which the person asked not to be contacted
    analysed,   \* the analyses on record, by call
    optOut,     \* the calls whose opt-out is in consent_events
    permitted,  \* the calls whose contact may be written to on WhatsApp
    reachable,  \* the calls whose contact has a usable channel now
    marker,     \* the calls with a system_call_result event
    sweep,      \* the runs
    letter,     \* the delivery of the key post-call:<call>
    written,    \* the calls whose message the provider took
    mishaps     \* how many of the things happened that keep a call from its message

\* what sending and marking leave alone
beside == <<asks, analysed, optOut, permitted>>
fvars == <<asks, analysed, optOut, permitted, reachable, marker, sweep, letter,
           written, mishaps>>

-----------------------------------------------------------------------------

Stage == {"idle", "check", "blocked?", "recheck", "gate", "send", "provider", "mark"}
Run == [pc     : Stage,
        rest   : SUBSET Call]  \* the calls still to do, the first the current one
IdleRun == [pc |-> "idle", rest |-> {}]

\* A row that is not there, or that nobody has leased yet, is "absent".
Outcome == {"submitted", "failed_retryable", "dead_letter", "cancelled"}
Letter == [state    : Outcome \cup {"absent", "leased"},
           attempts : 0 .. MaxSends]
NoLetter == [state |-> "absent", attempts |-> 0]

FollowupTypeOK ==
    /\ asks \in [Call -> SUBSET Source]
    /\ analysed \in [Call -> SUBSET Source]
    /\ optOut \subseteq Call /\ permitted \subseteq Call /\ marker \subseteq Call
    /\ written \subseteq Call /\ reachable \subseteq Call
    /\ letter \in [Call -> Letter]
    /\ sweep \in [Sweep -> Run]
    /\ mishaps \in 0 .. MaxMishaps
    /\ \A w \in Sweep : sweep[w].pc # "idle" => sweep[w].rest # {}

FollowupInit ==
    /\ asks \in [Call -> SUBSET Source]
    /\ Cardinality({c \in Call : asks[c] # {}}) <= MaxAsking
    /\ analysed = [c \in Call |-> {}]
    /\ optOut = {}
    /\ permitted = Call
    /\ reachable = Call
    /\ marker = {}
    /\ sweep = [w \in Sweep |-> IdleRun]
    /\ letter = [c \in Call |-> NoLetter]
    /\ written = {}
    /\ mishaps = 0

-----------------------------------------------------------------------------
(* What happens to the call beside the sweep *)

Mishap == mishaps < MaxMishaps /\ mishaps' = mishaps + 1

\* A mistake: the flag is merged like the fields beside it, the webhook first.
MergedLikeTheRest(c, s) ==
    IF "webhook" \in analysed[c] \cup {s} THEN "webhook" \in asks[c] ELSE s \in asks[c]

\* mergeCallAnalyses, pidio_no_contactar: once true in any source, true.
MergedOptOut(c, s) == (analysed[c] \cup {s}) \cap asks[c] # {}

\* appendEvent of an analysis and convergeDoNotContact, which writes one
\* consent event per call: a repetition revokes nothing again.  The tool's
\* analysis changes nothing here for a person who asks nothing: it is left out.
Analyse(c, s) ==
    /\ s = "webhook" \/ asks[c] # {}
    /\ analysed' = [analysed EXCEPT ![c] = @ \cup {s}]
    /\ IF MergedOptOut(c, s) /\ c \notin optOut
         THEN optOut' = optOut \cup {c} /\ permitted' = permitted \ {c}
         ELSE UNCHANGED <<optOut, permitted>>
    /\ UNCHANGED <<asks, reachable, marker, sweep, letter, written, mishaps>>

\* The contact is blocked, or opts out in a message of its own and the
\* permission takes it.
Block(c) ==
    /\ c \in permitted
    /\ permitted' = permitted \ {c}
    /\ Mishap
    /\ UNCHANGED <<asks, analysed, optOut, reachable, marker, sweep, letter, written>>

\* The reply window runs out, and the contact's next message opens it.
Window(c) ==
    /\ \/ /\ c \in reachable /\ reachable' = reachable \ {c} /\ Mishap
       \/ /\ c \notin reachable
          /\ reachable' = reachable \cup {c} /\ UNCHANGED mishaps
    /\ UNCHANGED <<beside, marker, sweep, letter, written>>

-----------------------------------------------------------------------------
(* One run *)

\* do_not_contact, in the listing and in revalidateFollowup.
OptedOut(c) == analysed[c] \cap asks[c] # {} \/ c \in optOut

\* A Retell call is listed once its webhook's analysis is there, or an opt-out.
Due(c) == c \notin marker /\ ("webhook" \in analysed[c] \/ OptedOut(c))

\* The oldest first.
Listed == {c \in Call : Due(c) /\ Cardinality({d \in 1 .. c - 1 : Due(d)}) < Limit}

Turns(w, rest) ==
    sweep' = [sweep EXCEPT ![w] =
                 IF rest = {} THEN IdleRun ELSE [IdleRun EXCEPT !.pc = "check", !.rest = rest]]

CurrentCall(w) == Min(sweep[w].rest)
Goes(w, pc) == sweep' = [sweep EXCEPT ![w].pc = pc]
LeavesIt(w) == Turns(w, sweep[w].rest \ {CurrentCall(w)})

ListCalls(w) ==
    /\ sweep[w].pc = "idle"
    /\ Listed # {}
    /\ Turns(w, Listed)
    /\ UNCHANGED <<beside, reachable, marker, letter, written, mishaps>>

\* ensureDncPermission and synthesizeCallResultTurn, one transaction.
Revoke(w) ==
    LET c == CurrentCall(w) IN
    /\ optOut' = optOut \cup {c}
    /\ permitted' = IF c \in optOut THEN permitted ELSE permitted \ {c}
    /\ marker' = marker \cup {c}
    /\ LeavesIt(w)

\* revalidateFollowup, before anything else is read and again before sending.
Revalidate(w, at, next) ==
    /\ sweep[w].pc = at
    /\ IF OptedOut(CurrentCall(w))
         THEN Revoke(w)
         ELSE Goes(w, next) /\ UNCHANGED <<optOut, permitted, marker>>
    /\ UNCHANGED <<asks, analysed, reachable, letter, written, mishaps>>

Check(w) == Revalidate(w, "check", "blocked?")
Recheck(w) == Revalidate(w, "recheck", "gate")

\* A mistake: a contact that may not be written to ends the run.
EndsRun(w) == sweep' = [sweep EXCEPT ![w] = IdleRun]

SkipsIt(w) == LeavesIt(w)

\* isContactBlocked: the call is left for the next run, without a marker.
BlockedCheck(w) ==
    /\ sweep[w].pc = "blocked?"
    /\ IF CurrentCall(w) \in permitted THEN Goes(w, "recheck") ELSE SkipsIt(w)
    /\ UNCHANGED <<beside, reachable, marker, letter, written, mishaps>>

\* A mistake: the call counts as followed up.
MarksAnyway(w) == Goes(w, "mark")

\* An outcome other than sent, and an error, leave the call for the next run.
PutsItOff(w) == LeavesIt(w)

\* evaluateSendEligibility, and selectChannels.
Gate(w) ==
    LET c == CurrentCall(w) IN
    /\ sweep[w].pc = "gate"
    /\ IF c \in permitted /\ c \in reachable THEN Goes(w, "send") ELSE PutsItOff(w)
    /\ UNCHANGED <<beside, reachable, marker, letter, written, mishaps>>

\* What the lease's UPDATE finds; one attempt more than max_attempts is refused by
\* a check of the table.
MayBeLeased(r) == r.state \in {"absent", "failed_retryable"} /\ r.attempts < MaxSends

Leased(r) == [state |-> "leased", attempts |-> r.attempts + 1]

\* The row decides: a message already taken is not sent again, and one that is
\* leased, by whomever and since whenever, is CONCURRENT_SEND_IN_PROGRESS.
Send(w) ==
    LET c == CurrentCall(w) IN
    /\ sweep[w].pc = "send"
    /\ IF MayBeLeased(letter[c])
         THEN letter' = [letter EXCEPT ![c] = Leased(@)] /\ Goes(w, "provider")
         ELSE /\ IF letter[c].state = "submitted" THEN Goes(w, "mark") ELSE PutsItOff(w)
              /\ UNCHANGED letter
    /\ UNCHANGED <<beside, reachable, marker, written, mishaps>>

\* The provider takes the message, takes it and is not understood, fails, rejects
\* the recipient or says that the window is shut; the row is settled with that,
\* and the last two correct what is believed of the channel.
Answered(w) ==
    LET c == CurrentCall(w) IN
    /\ sweep[w].pc = "provider"
    /\ \E state \in Outcome :
          /\ IF state = "submitted" THEN UNCHANGED mishaps ELSE Mishap
          /\ letter' = [letter EXCEPT ![c].state = state]
          /\ \/ state # "submitted" /\ UNCHANGED written
             \/ state \in {"submitted", "failed_retryable"} /\ written' = written \cup {c}
          /\ reachable' = IF state \in {"dead_letter", "cancelled"}
                          THEN reachable \ {c} ELSE reachable
          /\ IF state = "submitted" THEN Goes(w, "mark") ELSE PutsItOff(w)
    /\ UNCHANGED <<beside, marker>>

\* markFollowupCompleted
Mark(w) ==
    /\ sweep[w].pc = "mark"
    /\ marker' = marker \cup {CurrentCall(w)}
    /\ LeavesIt(w)
    /\ UNCHANGED <<beside, reachable, letter, written, mishaps>>

\* The function is stopped, or a statement fails and the error is caught.  The row
\* of a message that is at the provider stays leased, taken or not.
Breaks(w) ==
    /\ sweep[w].pc # "idle"
    /\ Mishap
    /\ \/ UNCHANGED written
       \/ sweep[w].pc = "provider" /\ written' = written \cup {CurrentCall(w)}
    /\ UNCHANGED <<beside, reachable, marker, letter>>

Dies(w) == Breaks(w) /\ sweep' = [sweep EXCEPT ![w] = IdleRun]
Throws(w) == Breaks(w) /\ LeavesIt(w)

Proceeds(w) ==
    \/ ListCalls(w) \/ Check(w) \/ BlockedCheck(w) \/ Recheck(w)
    \/ Gate(w) \/ Send(w) \/ Answered(w) \/ Mark(w)

FollowupNext ==
    \/ \E c \in Call : Block(c) \/ Window(c) \/ \E s \in Source : Analyse(c, s)
    \/ \E w \in Sweep : Proceeds(w) \/ Dies(w) \/ Throws(w)

\* The cron keeps coming round and a run that is not stopped goes on; a call to the
\* provider ends in one of its ways, whichever.
Fairness == \A w \in Sweep : WF_fvars(Proceeds(w))

FollowupSpec == FollowupInit /\ [][FollowupNext]_fvars /\ Fairness

-----------------------------------------------------------------------------
(* Properties *)

\* The last thing a run reads before the provider is asked, a permission, takes
\* account of every wish on record, also of one that came after the run's two
\* looks at the call.
GateHeedsOptOut ==
    [][\A w \in Sweep :
          sweep[w].pc = "gate" /\ sweep'[w].pc = "send" =>
             analysed[CurrentCall(w)] \cap asks[CurrentCall(w)] = {}]_fvars

\* A call that is off the list was answered by a message or by a revocation.
MarkerMeansDone == \A c \in marker : c \in written \/ c \in optOut

\* The letter cannot be leased again and no run has it: it was left leased by a run
\* that ended or failed, its attempts are used up, or it was rejected or cancelled.
Stuck(c) ==
    /\ letter[c].state # "submitted" /\ ~MayBeLeased(letter[c])
    /\ \A w \in Sweep : ~(sweep[w].pc = "provider" /\ CurrentCall(w) = c)

\* A run that comes to the call leaves it without a marker.
Hindered(c) ==
    /\ Due(c) /\ ~OptedOut(c)
    /\ c \notin permitted \/ c \notin reachable \/ Stuck(c)

\* Calls that are hindered for good, or again and again, and that are older, are as
\* many as a run lists.
Crowded(c) ==
    \E D \in SUBSET (1 .. c - 1) :
       Cardinality(D) >= Limit /\ \A d \in D : []<>Hindered(d)

\* A call whose analysis has come and that gets no marker is hindered itself, for
\* good or again and again, or such calls fill the list before it: one call that
\* cannot be followed up does not keep the rest of its batch from it (spec 007,
\* FR-7), and a wish not to be contacted is followed up whatever became of the letter.
FollowupHappens ==
    \A c \in Call :
       <>[]("webhook" \in analysed[c] /\ c \notin marker) => []<>Hindered(c) \/ Crowded(c)

=============================================================================
