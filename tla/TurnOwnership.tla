---------------------------- MODULE TurnOwnership ---------------------------
(***************************************************************************)
(* What the batches of a conversation promise, without windows, leases,    *)
(* workflows or messages: at most one batch is open, a batch is granted to *)
(* one owner after another, it is decided once and only if somebody was    *)
(* granted it, and it ends done (decided) or dropped, for good.            *)
(***************************************************************************)
EXTENDS Naturals

CONSTANTS Batch, Verdict, Undecided

VARIABLES phase, grants, verdict

ovars == <<phase, grants, verdict>>

OInit ==
    /\ phase = [b \in Batch |-> "absent"]
    /\ grants = [b \in Batch |-> 0]
    /\ verdict = [b \in Batch |-> Undecided]

\* A new batch takes the place of the one nobody claimed in time.
Create(b) ==
    /\ phase[b] = "absent"
    /\ phase' = [x \in Batch |-> IF x = b THEN "open"
                                 ELSE IF phase[x] = "open" THEN "dropped"
                                 ELSE phase[x]]
    /\ UNCHANGED <<grants, verdict>>

Grant(b) ==
    /\ phase[b] \in {"open", "owned"}
    /\ phase' = [phase EXCEPT ![b] = "owned"]
    /\ grants' = [grants EXCEPT ![b] = grants[b] + 1]
    /\ UNCHANGED verdict

\* Any of the owners, the present one or one that lost the batch meanwhile,
\* may be the one that decides: the first wins.
Decide(b) ==
    /\ phase[b] \in {"owned", "dropped"}
    /\ grants[b] > 0
    /\ verdict[b] = Undecided
    /\ \E v \in Verdict \ {Undecided} : verdict' = [verdict EXCEPT ![b] = v]
    /\ UNCHANGED <<phase, grants>>

Finish(b) ==
    /\ phase[b] = "owned"
    /\ verdict[b] # Undecided
    /\ phase' = [phase EXCEPT ![b] = "done"]
    /\ UNCHANGED <<grants, verdict>>

Drop(b) ==
    /\ phase[b] = "owned"
    /\ phase' = [phase EXCEPT ![b] = "dropped"]
    /\ UNCHANGED <<grants, verdict>>

ONext == \E b \in Batch : \/ Create(b) \/ Grant(b) \/ Decide(b)
                          \/ Finish(b) \/ Drop(b)

OSpec == OInit /\ [][ONext]_ovars
=============================================================================
