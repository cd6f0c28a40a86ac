------------------------- MODULE InboundBatchProofs -------------------------
(***************************************************************************)
(* Proofs about InboundBatch for every set of messages and runs, every     *)
(* window, lease and retry budget, with and without failures.              *)
(***************************************************************************)
EXTENDS InboundBatch, FiniteSetTheorems, TLAPS

-----------------------------------------------------------------------------
(* Every variable keeps its type. *)

LEMMA InitType == Init => TypeOK
BY DEF Init, TypeOK, Row, NoRow, BatchState, Decision, NoDecision, Kind,
       Run, IdleRun, Pc

\* What the updates of a row give is a row.
LEMMA RowUpdates ==
    ASSUME NEW r \in Row, NEW w \in Workflow
    PROVE  /\ NewRow \in Row
           /\ Extended(r) \in Row
           /\ Expired(r) \in Row
           /\ Claimed(r, w) \in Row
           /\ [r EXCEPT !.state = "completed", !.lease = 0] \in Row
<1> USE DEF Row, BatchState
<1>1. Window \in Nat /\ HardDeadline \in Nat /\ Lease \in Nat
  BY ConstantsAssumption DEF ConstantsAssumption
<1>2. Earliest(r.hard, Window) \in Nat
  BY <1>1 DEF Earliest
<1>3. r.count + 1 \in Nat /\ r.attempts + 1 \in Nat
  OBVIOUS
<1>5. NewRow \in Row
  BY <1>1 DEF NewRow, NoRow
<1>6. Extended(r) \in Row
  BY <1>2, <1>3 DEF Extended
<1>7. Expired(r) \in Row
  BY DEF Expired
<1>8. Claimed(r, w) \in Row
  BY <1>1, <1>3 DEF Claimed
<1>9. QED
  BY <1>5, <1>6, <1>7, <1>8

LEMMA IngestType ==
    ASSUME TypeOK, NEW w \in Workflow, NEW m \in Message, Ingest(w, m)
    PROVE  TypeOK'
<1>1. /\ seq' \in [Message -> Nat]
      /\ member' \in [Message -> Message \cup {None}]
      /\ member'[m] \in Message
  <2>1. CASE Replay(m)
    BY <2>1 DEF TypeOK, Replay
  <2>2. ASSUME NEW b \in Message, Admit(m, b)
        PROVE  /\ seq' \in [Message -> Nat]
               /\ member' \in [Message -> Message \cup {None}]
               /\ member'[m] \in Message
    BY <2>2 DEF TypeOK, Admit
  <2>3. QED
    BY <2>1, <2>2 DEF Ingest, Join, Open, Joinable, Waiting
<1>2. batch' \in [Message -> Row]
  <2>3. CASE Replay(m)
    BY <2>3 DEF TypeOK, Replay
  <2>4. CASE Join(m)
    <3>1. PICK b \in Message : batch' = [batch EXCEPT ![b] = Extended(batch[b])]
      BY <2>4 DEF Join, Joinable, Waiting
    <3>2. Extended(batch[b]) \in Row
      BY RowUpdates DEF TypeOK
    <3>3. QED
      BY <3>1, <3>2 DEF TypeOK
  <2>5. CASE Open(m)
    <3>1. \A b \in Message : Expired(batch[b]) \in Row /\ NewRow \in Row
      BY RowUpdates DEF TypeOK
    <3>2. QED
      BY <2>5, <3>1 DEF TypeOK, Open
  <2>6. QED
    BY <2>3, <2>4, <2>5 DEF Ingest
<1>3. wf' \in [Workflow -> Run]
  <2>1. batch'[member'[m]].due \in Nat
    BY <1>1, <1>2 DEF Row
  <2>2. QED
    <3>1. [wf[w] EXCEPT !.pc = "ingested", !.msg = m, !.batch = member'[m],
                        !.wake = batch'[member'[m]].due] \in Run
      BY <1>1, <2>1 DEF TypeOK, Run, Pc
    <3>2. QED
      BY <3>1 DEF TypeOK, Ingest
<1>4. QED
  BY <1>1, <1>2, <1>3 DEF TypeOK, Ingest

LEMMA NextType == TypeOK /\ [Next]_vars => TypeOK'
<1> SUFFICES ASSUME TypeOK, [Next]_vars PROVE TypeOK'
  OBVIOUS
<1> USE DEF TypeOK
<1>1. CASE Tick
  <2>1. \A n \in Nat : Less(n) \in Nat
    BY DEF Less
  <2>2. batch' \in [Message -> Row]
    <3>1. \A b \in Message : [batch[b] EXCEPT !.due = Less(@), !.hard = Less(@),
                                             !.lease = Less(@)] \in Row
      <4>1. ASSUME NEW r \in Row
            PROVE  [r EXCEPT !.due = Less(@), !.hard = Less(@), !.lease = Less(@)] \in Row
        BY <2>1 DEF Row
      <4>2. QED
        BY <4>1
    <3>2. QED
      BY <1>1, <3>1 DEF Tick
  <2>3. wf' \in [Workflow -> Run]
    <3>1. ASSUME NEW r \in Run
          PROVE  [r EXCEPT !.wake = Less(@), !.lease = Less(@)] \in Run
      BY <2>1 DEF Run
    <3>2. QED
      BY <1>1, <3>1 DEF Tick
  <2>4. ASSUME NEW w \in Workflow
        PROVE  /\ wf'[w].pc = wf[w].pc /\ wf'[w].msg = wf[w].msg
               /\ wf'[w].batch = wf[w].batch
    <3>1. wf[w] \in Run
      OBVIOUS
    <3>2. wf'[w] = [wf[w] EXCEPT !.wake = Less(@), !.lease = Less(@)]
      BY <1>1 DEF Tick
    <3>3. QED
      BY <3>1, <3>2 DEF Run
  <2>5. QED
    BY <1>1, <2>2, <2>3, <2>4 DEF Tick
<1>2. ASSUME NEW w \in Workflow, NEW m \in Message, Ingest(w, m)
      PROVE  TypeOK'
  BY <1>2, IngestType
<1>3. ASSUME NEW w \in Workflow, Progress(w)
      PROVE  TypeOK'
  <2>1. CASE ReadExisting(w)
    BY <2>1 DEF ReadExisting, Run, Pc
  <2>2. CASE ClaimWins(w)
    <3>1. Claimed(batch[wf[w].batch], w) \in Row
      BY <2>2, RowUpdates DEF ClaimWins
    <3>2. batch' \in [Message -> Row]
      BY <2>2, <3>1 DEF ClaimWins
    <3>3. batch'[wf[w].batch].token \in Nat
      BY <2>2, <3>2 DEF ClaimWins, Row
    <3>4. wf' \in [Workflow -> Run]
      <4>1. Lease \in Nat
        BY ConstantsAssumption DEF ConstantsAssumption
      <4>2. [wf[w] EXCEPT !.pc = "deciding", !.lease = Lease,
                          !.token = batch'[wf[w].batch].token] \in Run
        BY <3>3, <4>1 DEF Run, Pc
      <4>3. QED
        BY <2>2, <4>2 DEF ClaimWins
    <3>5. QED
      BY <2>2, <3>2, <3>4 DEF ClaimWins
  <2>3. CASE ClaimTooEarly(w)
    <3>1. batch[wf[w].batch].due \in Nat
      BY <2>3 DEF ClaimTooEarly, Row
    <3>2. wf[w].tries + 1 \in Nat
      BY DEF Run
    <3>3. wf' \in [Workflow -> Run]
      <4>1. wf[w] \in Run
        OBVIOUS
      <4>2. [wf[w] EXCEPT !.tries = wf[w].tries + 1,
                          !.wake = batch[wf[w].batch].due,
                          !.pc = IF wf[w].tries + 1 = MaxClaimTries
                                 THEN "exhausted" ELSE "sleeping"] \in Run
        BY <3>1, <3>2, <4>1 DEF Run, Pc
      <4>3. QED
        BY <2>3, <4>2 DEF ClaimTooEarly
    <3>4. QED
      BY <2>3, <3>3 DEF ClaimTooEarly, Run
  <2>4. CASE ClaimLoses(w)
    BY <2>4 DEF ClaimLoses, Run, Pc
  <2>5. ASSUME NEW p \in Payload, CommitNew(w, p)
        PROVE  TypeOK'
    <3>1. KindOf(wf[w].batch, p) \in Kind
      BY DEF KindOf, Kind
    <3>2. decision' \in [Message -> Decision]
      BY <2>5, <3>1 DEF CommitNew, Decision
    <3>3. wf' \in [Workflow -> Run]
      BY <2>5 DEF CommitNew, Run, Pc
    <3>4. QED
      BY <2>5, <3>2, <3>3 DEF CommitNew
  <2>6. ASSUME NEW p \in Payload, CommitAgain(w, p)
        PROVE  TypeOK'
    BY <2>6 DEF CommitAgain, Run, Pc
  <2>7. CASE Close(w)
    <3>1. [batch[wf[w].batch] EXCEPT !.state = "completed", !.lease = 0] \in Row
      BY <2>7, RowUpdates DEF Close
    <3>2. wf' \in [Workflow -> Run]
      BY <2>7 DEF Close, AfterCommit, Run, Pc
    <3>3. QED
      BY <2>7, <3>1, <3>2 DEF Close
  <2>8. QED
    BY <1>3, <2>1, <2>2, <2>3, <2>4, <2>5, <2>6, <2>7 DEF Progress
<1>4. ASSUME NEW w \in Workflow, CloseFails(w)
      PROVE  TypeOK'
  BY <1>4 DEF CloseFails, AfterCommit, Run, Pc
<1>5. ASSUME NEW w \in Workflow, Crash(w)
      PROVE  TypeOK'
  BY <1>5 DEF Crash, Run, Pc
<1>6. ASSUME NEW b \in Message, ExpireClaim(b)
      PROVE  TypeOK'
  BY <1>6 DEF ExpireClaim, Row, BatchState
<1>7. CASE UNCHANGED vars
  BY <1>7 DEF vars
<1>8. QED
  BY <1>1, <1>2, <1>3, <1>4, <1>5, <1>6, <1>7 DEF Next

\* Every variable keeps its type, whatever the constants.
THEOREM TypeCorrect == Spec => []TypeOK
BY InitType, NextType, PTL DEF Spec

-----------------------------------------------------------------------------
(* The inductive invariant. *)

LEMMA InitIInv == Init => IInv
<1> SUFFICES ASSUME Init PROVE IInv
  OBVIOUS
<1>1. TypeOK
  BY InitType
<1>2. /\ \A b \in Message : batch[b].state = "absent" /\ batch[b].attempts = 0
      /\ \A m \in Message : seq[m] = 0 /\ member[m] = None
      /\ \A b \in Message : decision[b] = NoDecision
      /\ \A w \in Workflow : wf[w].pc = "idle"
  BY DEF Init, NoRow, IdleRun
<1>3. None \notin Message
  BY ConstantsAssumption DEF ConstantsAssumption
<1>4. MembersShape /\ OneWaiting /\ BatchesAreIntervals
  BY <1>2, <1>3 DEF MembersShape, OneWaiting, BatchesAreIntervals
<1>5. SeqShape /\ RowShape /\ RunShape
  BY <1>2 DEF SeqShape, RowShape, RunShape
<1>6. SupersededByNewer
  BY <1>2 DEF SupersededByNewer, NoDecision
<1>7. QED
  BY <1>1, <1>4, <1>5, <1>6 DEF IInv

\* What the messages and the windows satisfy together.
Structure == OneWaiting /\ BatchesAreIntervals /\ MembersShape /\ SeqShape

\* Only ingestion stores messages, and no window opens or vanishes elsewhere.
LEMMA StructureKept ==
    ASSUME TypeOK, Structure, UNCHANGED <<seq, member>>,
           \A b \in Message :
              /\ batch'[b].state = "absent" <=> batch[b].state = "absent"
              /\ batch'[b].state = "waiting" => batch[b].state = "waiting"
    PROVE  Structure'
<1>1. \A m \in Message : member[m] # None => member[m] \in Message
  BY DEF TypeOK
<1>2. OneWaiting' /\ BatchesAreIntervals' /\ MembersShape'
  BY <1>1 DEF Structure, OneWaiting, BatchesAreIntervals, MembersShape
<1>3. SeqShape'
  <2>1. ASSUME NEW x \in Message, NEW y \in Message
        PROVE  /\ seq'[x] = seq'[y] /\ seq'[x] # 0 => x = y
               /\ /\ member'[x] # None
                  /\ batch'[member'[x]].state = "waiting"
                  /\ seq'[x] < seq'[y]
                  => member'[y] = member'[x]
    BY <1>1 DEF Structure, SeqShape
  <2>2. QED
    BY <2>1 DEF SeqShape
<1>4. QED
  BY <1>2, <1>3 DEF Structure

\* The message stored last comes after every other and joins the open window.
LEMMA StructureAdmit ==
    ASSUME TypeOK, Structure, NEW m \in Message, NEW b \in Message,
           member[m] = None, Admit(m, b),
           b = m \/ batch[b].state = "waiting",
           batch'[b].state = "waiting",
           \A x \in Message \ {b} :
              /\ batch'[x].state # "waiting"
              /\ batch'[x].state = "absent" <=> batch[x].state = "absent"
    PROVE  Structure'
<1>1. PICK last \in Nat : /\ \A x \in Message : seq[x] <= last
                          /\ seq' = [seq EXCEPT ![m] = last + 1]
  <2>1. {0} \cup {seq[x] : x \in Message} \subseteq Nat
    BY DEF TypeOK
  <2>2. QED
    BY <2>1 DEF Admit
<1>2. /\ seq'[m] = last + 1
      /\ \A x \in Message \ {m} : seq'[x] = seq[x]
      /\ \A x \in Message : seq[x] \in Nat /\ seq[x] <= last
  BY <1>1 DEF TypeOK
<1>3. /\ member'[m] = b
      /\ \A x \in Message \ {m} : member'[x] = member[x]
      /\ None \notin Message
  BY ConstantsAssumption DEF Admit, TypeOK, ConstantsAssumption
<1>4. batch[m].state = "absent" /\ seq[m] = 0
  BY <1>3 DEF Structure, MembersShape
<1>5. OneWaiting'
  BY DEF OneWaiting
<1>6. MembersShape'
  <2>1. ASSUME NEW x \in Message
        PROVE  /\ member'[x] = None <=> seq'[x] = 0
               /\ batch'[x].state # "absent" <=> member'[x] = x
               /\ member'[x] # None => /\ batch'[member'[x]].state # "absent"
                                       /\ seq'[member'[x]] <= seq'[x]
    <3>1. CASE x = m
      BY <3>1, <1>2, <1>3, <1>4
    <3>2. CASE x # m
      <4>1. /\ member[x] = None <=> seq[x] = 0
            /\ batch[x].state # "absent" <=> member[x] = x
            /\ member[x] # None => /\ batch[member[x]].state # "absent"
                                   /\ seq[member[x]] <= seq[x]
        BY DEF Structure, MembersShape
      <4>2. member[x] # m
        BY <4>1, <1>3, <1>4
      <4>3. member[x] # None => member[x] \in Message
        BY DEF TypeOK
      <4>4. b # m => batch[b].state # "absent"
        OBVIOUS
      <4>5. QED
        BY <3>2, <4>1, <4>2, <4>3, <4>4, <1>2, <1>3
    <3>3. QED
      BY <3>1, <3>2
  <2>2. QED
    BY <2>1 DEF MembersShape
\* Those stored after a member of b are members of b.
<1>7. \A x, y \in Message \ {m} : member[x] = b /\ seq[x] < seq[y] => member[y] = b
  <2>1. CASE b = m
    BY <2>1, <1>3, <1>4 DEF Structure, MembersShape
  <2>2. CASE batch[b].state = "waiting"
    BY <2>2, <1>3 DEF Structure, SeqShape
  <2>3. QED
    BY <2>1, <2>2
<1>8. SeqShape'
  <2>1. ASSUME NEW x \in Message, NEW y \in Message
        PROVE  /\ seq'[x] = seq'[y] /\ seq'[x] # 0 => x = y
               /\ /\ member'[x] # None
                  /\ batch'[member'[x]].state = "waiting"
                  /\ seq'[x] < seq'[y]
                  => member'[y] = member'[x]
    <3>1. seq[x] = seq[y] /\ seq[x] # 0 => x = y
      BY DEF Structure, SeqShape
    <3>2. seq'[x] = seq'[y] /\ seq'[x] # 0 => x = y
      BY <3>1, <1>2
    <3>3. member'[x] # None /\ batch'[member'[x]].state = "waiting" => member'[x] = b
      BY <1>3 DEF TypeOK
    <3>4. member'[x] = b /\ seq'[x] < seq'[y] => member'[y] = b
      BY <1>2, <1>3, <1>7
    <3>5. QED
      BY <3>2, <3>3, <3>4
  <2>2. QED
    BY <2>1 DEF SeqShape
<1>9. BatchesAreIntervals'
  <2>1. ASSUME NEW x \in Message, NEW y \in Message, NEW z \in Message,
               member'[x] # None, member'[x] = member'[z],
               seq'[x] < seq'[y], seq'[y] < seq'[z]
        PROVE  member'[y] = member'[x]
    <3>1. x # m /\ y # m
      BY <2>1, <1>2
    <3>2. CASE z = m
      BY <2>1, <3>1, <3>2, <1>2, <1>3, <1>7
    <3>3. CASE z # m
      BY <2>1, <3>1, <3>3, <1>2, <1>3 DEF Structure, BatchesAreIntervals
    <3>4. QED
      BY <3>2, <3>3
  <2>2. QED
    BY <2>1 DEF BatchesAreIntervals
<1>10. QED
  BY <1>5, <1>6, <1>8, <1>9 DEF Structure

\* The steps that touch no table.
LEMMA RunStep ==
    ASSUME IInv, UNCHANGED <<seq, member, batch, decision>>, TypeOK', RunShape'
    PROVE  IInv'
<1>1. Structure'
  BY StructureKept DEF IInv, Structure
<1>2. RowShape' /\ SupersededByNewer'
  BY DEF IInv, RowShape, SupersededByNewer
<1>3. QED
  BY <1>1, <1>2 DEF IInv, Structure

LEMMA TickIInv == ASSUME IInv, Tick, TypeOK' PROVE IInv'
<1>1. ASSUME NEW b \in Message
      PROVE  /\ batch'[b].state = batch[b].state
             /\ batch'[b].attempts = batch[b].attempts
             /\ batch'[b].token = batch[b].token
             /\ batch'[b].owner = batch[b].owner
             /\ batch'[b].lease = Less(batch[b].lease)
  <2>1. batch[b] \in Row
    BY DEF IInv, TypeOK
  <2>2. batch'[b] = [batch[b] EXCEPT !.due = Less(@), !.hard = Less(@),
                                     !.lease = Less(@)]
    BY DEF Tick
  <2>3. QED
    BY <2>1, <2>2 DEF Row
<1>2. ASSUME NEW w \in Workflow
      PROVE  /\ wf'[w].pc = wf[w].pc
             /\ wf'[w].batch = wf[w].batch
             /\ wf'[w].token = wf[w].token
             /\ wf'[w].lease = Less(wf[w].lease)
             /\ wf[w].lease \in Nat
             /\ wf[w].pc # "idle" => wf[w].batch \in Message
  <2>1. wf[w] \in Run
    BY DEF IInv, TypeOK
  <2>2. wf'[w] = [wf[w] EXCEPT !.wake = Less(@), !.lease = Less(@)]
    BY DEF Tick
  <2>3. QED
    BY <2>1, <2>2 DEF Run, IInv, TypeOK
<1>3. UNCHANGED <<seq, member, decision>>
  BY DEF Tick
<1>4. Structure'
  BY <1>1, <1>3, StructureKept DEF IInv, Structure
<1>5. RowShape'
  BY <1>1, <1>3 DEF IInv, RowShape
<1>6. SupersededByNewer'
  BY <1>1, <1>3 DEF IInv, SupersededByNewer
<1>7. RunShape'
  <2>1. ASSUME NEW w \in Workflow
        PROVE  wf'[w].lease > 0 => wf[w].lease > 0
    BY <1>2 DEF Less
  <2>2. QED
    BY <1>1, <1>2, <1>3, <2>1 DEF IInv, RunShape
<1>8. QED
  BY <1>4, <1>5, <1>6, <1>7 DEF IInv, Structure

LEMMA IngestIInv ==
    ASSUME IInv, NEW w \in Workflow, NEW m \in Message, Ingest(w, m), TypeOK'
    PROVE  IInv'
<1> USE DEF IInv
<1>1. None \notin Message
  BY ConstantsAssumption DEF ConstantsAssumption
<1>2. /\ wf'[w].pc = "ingested"
      /\ wf'[w].batch = member'[m]
      /\ \A v \in Workflow \ {w} : wf'[v] = wf[v]
      /\ UNCHANGED decision
  BY DEF Ingest, TypeOK, Run
<1>3. /\ member'[m] \in Message
      /\ Structure'
      /\ RowShape'
      /\ SupersededByNewer'
      /\ \A b \in Message :
            /\ batch[b].state # "absent" =>
                  /\ batch'[b].state # "absent"
                  /\ batch'[b].attempts = batch[b].attempts
            /\ batch[b].state = "claimed" => batch'[b] = batch[b]
            /\ batch[b].state \notin {"absent", "waiting"} => batch'[b] = batch[b]
  <2>1. CASE Replay(m)
    <3>1. Structure'
      BY <2>1, StructureKept DEF Replay, Structure
    <3>2. QED
      BY <2>1, <3>1, <1>2 DEF Replay, RowShape, SupersededByNewer, TypeOK
  <2>2. CASE Join(m)
    <3>1. PICK b \in Message :
             /\ batch[b].state = "waiting"
             /\ batch' = [batch EXCEPT ![b] = Extended(batch[b])]
             /\ Admit(m, b)
      BY <2>2 DEF Join, Joinable, Waiting
    <3>2. /\ batch'[b].state = batch[b].state
          /\ batch'[b].attempts = batch[b].attempts
          /\ batch'[b].token = batch[b].token
          /\ \A x \in Message \ {b} : batch'[x] = batch[x]
      BY <3>1 DEF TypeOK, Row, Extended
    <3>3. member[m] = None
      BY <2>2 DEF Join
    <3>4. Structure'
      <4>1. \A x \in Message \ {b} : batch'[x].state # "waiting"
        BY <3>1, <3>2 DEF OneWaiting
      <4>2. QED
        BY <3>1, <3>2, <3>3, <4>1, StructureAdmit DEF Structure
    <3>5. RowShape'
      BY <3>1, <3>2, <1>2 DEF RowShape
    <3>6. SupersededByNewer'
      <4>1. ASSUME NEW d \in Message, decision'[d].kind = "superseded"
            PROVE  \E c \in Message :
                      /\ batch'[c].state # "absent"
                      /\ seq'[c] > seq'[d]
                      /\ \A x \in Message : member'[x] = d => seq'[x] < seq'[c]
        <5>1. PICK c \in Message :
                 /\ batch[c].state # "absent"
                 /\ seq[c] > seq[d]
                 /\ \A x \in Message : member[x] = d => seq[x] < seq[c]
          BY <4>1, <1>2 DEF SupersededByNewer
        <5>2. d # b
          BY <4>1, <3>1, <1>2 DEF RowShape, NoDecision
        <5>3. /\ \A x \in Message \ {m} : seq'[x] = seq[x] /\ member'[x] = member[x]
              /\ member'[m] = b
          BY <3>1 DEF Admit, TypeOK
        <5>4. c # m /\ d # m
          <6>1. batch[m].state = "absent"
            BY <3>3, <1>1 DEF MembersShape
          <6>2. batch[d].state # "absent"
            BY <4>1, <1>2 DEF RowShape, NoDecision
          <6>3. QED
            BY <5>1, <6>1, <6>2
        <5>5. QED
          BY <5>1, <5>2, <5>3, <5>4, <3>2
      <4>2. QED
        BY <4>1 DEF SupersededByNewer
    <3>7. member'[m] \in Message
      BY <3>1 DEF Admit, TypeOK
    <3>8. QED
      BY <3>1, <3>2, <3>4, <3>5, <3>6, <3>7
  <2>3. CASE Open(m)
    <3>1. member[m] = None /\ Admit(m, m)
      BY <2>3 DEF Open
    <3>2. batch[m].state = "absent" /\ decision[m] = NoDecision
      BY <3>1, <1>1 DEF MembersShape, RowShape
    <3>3. /\ batch'[m].state = "waiting" /\ batch'[m].attempts = 0
          /\ \A x \in Message \ {m} :
                /\ batch[x].state = "waiting" =>
                      batch'[x].state = "abandoned" /\ batch'[x].attempts = batch[x].attempts
                /\ batch[x].state # "waiting" => batch'[x] = batch[x]
      <4>1. batch'[m] = NewRow
        BY <2>3 DEF Open
      <4>2. ASSUME NEW x \in Message \ {m}
            PROVE  batch'[x] = IF batch[x].state = "waiting" THEN Expired(batch[x])
                               ELSE batch[x]
        BY <2>3 DEF Open, Waiting
      <4>3. ASSUME NEW r \in Row
            PROVE  Expired(r).state = "abandoned" /\ Expired(r).attempts = r.attempts
        BY DEF Expired, Row
      <4>4. QED
        BY <4>1, <4>2, <4>3 DEF NewRow, NoRow, TypeOK
    <3>4. Structure'
      BY <3>1, <3>3, StructureAdmit DEF Structure
    <3>5. RowShape'
      BY <3>2, <3>3, <1>2 DEF RowShape
    <3>6. SupersededByNewer'
      <4>1. ASSUME NEW d \in Message, decision'[d].kind = "superseded"
            PROVE  \E c \in Message :
                      /\ batch'[c].state # "absent"
                      /\ seq'[c] > seq'[d]
                      /\ \A x \in Message : member'[x] = d => seq'[x] < seq'[c]
        <5>1. PICK c \in Message :
                 /\ batch[c].state # "absent"
                 /\ seq[c] > seq[d]
                 /\ \A x \in Message : member[x] = d => seq[x] < seq[c]
          BY <4>1, <1>2 DEF SupersededByNewer
        <5>2. /\ \A x \in Message \ {m} : seq'[x] = seq[x] /\ member'[x] = member[x]
              /\ member'[m] = m
          BY <3>1 DEF Admit, TypeOK
        <5>3. c # m /\ d # m
          BY <4>1, <5>1, <3>2, <1>2 DEF NoDecision
        <5>4. batch'[c].state # "absent"
          BY <5>1, <5>3, <3>3
        <5>5. QED
          BY <5>1, <5>2, <5>3, <5>4
      <4>2. QED
        BY <4>1 DEF SupersededByNewer
    <3>7. member'[m] \in Message
      BY <3>1 DEF Admit, TypeOK
    <3>8. QED
      BY <3>2, <3>3, <3>4, <3>5, <3>6, <3>7
  <2>4. QED
    BY <2>1, <2>2, <2>3 DEF Ingest
<1>4. RunShape'
  <2>1. ASSUME NEW v \in Workflow \ {w}, wf[v].pc # "idle"
        PROVE  wf[v].batch \in Message /\ batch[wf[v].batch].state # "absent"
    BY <2>1 DEF RunShape, TypeOK
  <2>2. ASSUME NEW v \in Workflow \ {w}, wf[v].pc \in {"deciding", "closing"}
        PROVE  batch'[wf[v].batch] = batch[wf[v].batch]
    <3>1. wf[v].batch \in Message /\ batch[wf[v].batch].state # "absent"
      BY <2>1, <2>2
    <3>2. batch[wf[v].batch].attempts # 0
      BY <2>2, <3>1 DEF RunShape, TypeOK, Row, Run
    <3>3. QED
      BY <3>1, <3>2, <1>3 DEF RowShape
  <2>3. batch'[member'[m]].state # "absent"
    BY <1>3, <1>1 DEF Structure, MembersShape
  <2>4. QED
    BY <2>1, <2>2, <2>3, <1>2, <1>3 DEF RunShape
<1>5. QED
  BY <1>3, <1>4 DEF Structure

\* The steps in which one run moves and the tables stay as they are.
LEMMA RunMoves ==
    ASSUME IInv, TypeOK', NEW w \in Workflow,
           UNCHANGED <<seq, member, batch, decision>>,
           \A v \in Workflow \ {w} : wf'[v] = wf[v],
           wf[w].pc # "idle", wf'[w].batch = wf[w].batch,
           \/ wf'[w].pc \notin {"deciding", "closing"}
           \/ /\ wf[w].pc = "deciding" /\ wf'[w].pc = "closing"
              /\ wf'[w].token = wf[w].token
              /\ decision[wf[w].batch] # NoDecision
    PROVE  IInv'
<1>1. RunShape'
  BY DEF IInv, RunShape
<1>2. QED
  BY <1>1, RunStep

LEMMA ClaimWinsIInv ==
    ASSUME IInv, NEW w \in Workflow, ClaimWins(w), TypeOK'
    PROVE  IInv'
<1> DEFINE b == wf[w].batch
<1>1. /\ b \in Message /\ batch[b] \in Row /\ wf[w] \in Run
      /\ batch[b].state # "absent"
  BY DEF IInv, TypeOK, RunShape, ClaimWins
<1>2. /\ batch'[b] = Claimed(batch[b], w)
      /\ \A x \in Message \ {b} : batch'[x] = batch[x]
      /\ UNCHANGED <<seq, member, decision>>
  BY <1>1 DEF IInv, TypeOK, ClaimWins
<1>3. /\ batch'[b].state = "claimed" /\ batch'[b].owner = w
      /\ batch'[b].attempts = batch[b].attempts + 1
      /\ batch'[b].token = batch[b].attempts + 1
      /\ batch'[b].lease = Lease
      /\ batch[b].attempts \in Nat
  BY <1>1, <1>2 DEF Claimed, Row
<1>4. /\ wf'[w].pc = "deciding" /\ wf'[w].batch = b
      /\ wf'[w].lease = Lease /\ wf'[w].token = batch'[b].token
      /\ \A v \in Workflow \ {w} : wf'[v] = wf[v]
  BY <1>1 DEF IInv, TypeOK, ClaimWins, Run
<1>5. Structure'
  BY <1>1, <1>2, <1>3, StructureKept DEF IInv, Structure
<1>6. RowShape'
  BY <1>1, <1>2, <1>3 DEF IInv, RowShape
<1>7. SupersededByNewer'
  <2>1. \A c \in Message : batch[c].state # "absent" => batch'[c].state # "absent"
    BY <1>2, <1>3
  <2>2. QED
    BY <1>2, <2>1 DEF IInv, SupersededByNewer
<1>8. RunShape'
  <2>1. ASSUME NEW v \in Workflow \ {w}, wf[v].pc # "idle"
        PROVE  /\ wf[v].batch \in Message
               /\ batch[wf[v].batch].state # "absent"
               /\ batch'[wf[v].batch].state # "absent"
    BY <2>1, <1>2, <1>3 DEF IInv, RunShape, TypeOK
  \* Another run at work on b no longer holds the last token, and its lease
  \* is over: b could not have been claimed before.
  <2>2. ASSUME NEW v \in Workflow \ {w}, wf[v].pc \in {"deciding", "closing"},
               wf[v].batch = b
        PROVE  /\ 0 < wf[v].token
               /\ wf[v].token < batch'[b].attempts
               /\ ~(wf[v].pc = "deciding" /\ wf[v].lease > 0)
    <3>1. /\ 0 < wf[v].token /\ wf[v].token <= batch[b].attempts
          /\ wf[v].token \in Nat /\ wf[v].lease \in Nat
      BY <2>2 DEF IInv, RunShape, TypeOK, Run
    <3>2. ~(wf[v].pc = "deciding" /\ wf[v].lease > 0)
      BY <2>2 DEF IInv, RunShape, ClaimWins, Claimable
    <3>3. QED
      BY <3>1, <3>2, <1>3
  <2>3. Lease \in Nat
    BY ConstantsAssumption DEF ConstantsAssumption
  <2>4. ASSUME NEW v \in Workflow \ {w}
        PROVE  /\ wf'[v].pc # "idle" => batch'[wf'[v].batch].state # "absent"
               /\ wf'[v].pc \in {"deciding", "closing"} =>
                    /\ 0 < wf'[v].token
                    /\ wf'[v].token <= batch'[wf'[v].batch].attempts
                    /\ wf'[v].token = batch'[wf'[v].batch].attempts =>
                          batch'[wf'[v].batch].owner = v
               /\ wf'[v].pc = "closing" => decision'[wf'[v].batch] # NoDecision
               /\ wf'[v].pc = "deciding" /\ wf'[v].lease > 0 =>
                    /\ batch'[wf'[v].batch].state = "claimed"
                    /\ batch'[wf'[v].batch].owner = v
                    /\ batch'[wf'[v].batch].lease = wf'[v].lease
    <3>1. wf'[v] = wf[v] /\ wf[v] \in Run
      BY <1>4 DEF IInv, TypeOK
    <3>2. CASE wf[v].pc \in {"deciding", "closing"} /\ wf[v].batch = b
      <4>1. wf[v].token \in Nat /\ batch'[b].attempts \in Nat
        BY <3>1, <1>3 DEF Run
      <4>2. wf[v].pc = "closing" => decision[b] # NoDecision
        BY <3>2 DEF IInv, RunShape
      <4>3. QED
        BY <3>1, <3>2, <4>1, <4>2, <2>1, <2>2, <1>2
    <3>3. CASE wf[v].pc \in {"deciding", "closing"} /\ wf[v].batch # b
      BY <3>1, <3>3, <2>1, <1>2 DEF IInv, RunShape
    <3>4. CASE wf[v].pc \notin {"deciding", "closing"}
      BY <3>1, <3>4, <2>1
    <3>5. QED
      BY <3>2, <3>3, <3>4
  <2>5. QED
    BY <2>3, <2>4, <1>2, <1>3, <1>4 DEF RunShape
<1>9. QED
  BY <1>5, <1>6, <1>7, <1>8 DEF IInv, Structure

LEMMA CommitNewIInv ==
    ASSUME IInv, NEW w \in Workflow, NEW p \in Payload, CommitNew(w, p), TypeOK'
    PROVE  IInv'
<1> DEFINE b == wf[w].batch
<1>1. /\ b \in Message /\ wf[w] \in Run /\ wf[w].pc = "deciding"
      /\ batch[b].state # "absent"
      /\ 0 < wf[w].token /\ wf[w].token <= batch[b].attempts
      /\ wf[w].token = batch[b].attempts => batch[b].owner = w
  BY DEF IInv, TypeOK, RunShape, CommitNew
<1>2. batch[b].attempts > 0
  <2>1. wf[w].token \in Nat /\ batch[b].attempts \in Nat
    BY <1>1 DEF IInv, TypeOK, Row, Run
  <2>2. QED
    BY <1>1, <2>1
<1>3. /\ decision'[b] = [kind |-> KindOf(b, p), payload |-> p]
      /\ \A x \in Message \ {b} : decision'[x] = decision[x]
      /\ UNCHANGED <<seq, member, batch>>
  BY <1>1 DEF IInv, TypeOK, CommitNew
<1>4. decision'[b] # NoDecision
  BY <1>3 DEF KindOf, NoDecision
<1>5. /\ wf'[w].pc = "closing" /\ wf'[w].batch = b /\ wf'[w].token = wf[w].token
      /\ \A v \in Workflow \ {w} : wf'[v] = wf[v]
  BY <1>1 DEF IInv, TypeOK, CommitNew, Run
<1>6. Structure'
  BY <1>3, StructureKept DEF IInv, Structure
<1>7. RowShape'
  BY <1>1, <1>2, <1>3, <1>4 DEF IInv, RowShape
<1>8. RunShape'
  <2>1. ASSUME NEW v \in Workflow, wf[v].pc = "closing"
        PROVE  decision'[wf[v].batch] # NoDecision
    <3>1. wf[v].batch \in Message /\ decision[wf[v].batch] # NoDecision
      BY <2>1 DEF IInv, TypeOK, RunShape
    <3>2. QED
      BY <3>1, <1>3, <1>4
  <2>2. QED
    BY <2>1, <1>1, <1>3, <1>4, <1>5 DEF IInv, RunShape
<1>9. ASSUME Superseded(b)
      PROVE  \E c \in Message :
                /\ batch[c].state # "absent"
                /\ seq[c] > seq[b]
                /\ \A m \in Message : member[m] = b => seq[m] < seq[c]
  <2>1. \A m \in Message : seq[m] \in Nat
    BY DEF IInv, TypeOK
  <2>2. PICK x \in Message : seq[x] > seq[b] /\ member[x] # b
    BY <1>9 DEF Superseded
  <2>3. member[x] # None
    BY <2>1, <2>2, <1>1 DEF IInv, MembersShape
  \* The message that opened the batch of x.
  <2> DEFINE c == member[x]
  <2>4. /\ c \in Message /\ batch[c].state # "absent"
        /\ member[c] = c /\ seq[c] <= seq[x] /\ seq[c] # 0
    <3>1. c \in Message
      BY <2>3 DEF IInv, TypeOK
    <3>2. batch[c].state # "absent" /\ seq[c] <= seq[x]
      BY <2>3 DEF IInv, MembersShape
    <3>3. member[c] = c
      BY <3>1, <3>2 DEF IInv, MembersShape
    <3>4. c # None
      BY <3>1, ConstantsAssumption DEF ConstantsAssumption
    <3>5. seq[c] # 0
      BY <3>1, <3>3, <3>4 DEF IInv, MembersShape
    <3>6. QED
      BY <3>1, <3>2, <3>3, <3>5
  <2>5. member[b] = b /\ c # b /\ b # None
    BY <1>1, <2>2, ConstantsAssumption DEF IInv, MembersShape, ConstantsAssumption
  <2>6. \A m \in Message : seq[m] = seq[c] => m = c
    BY <2>4 DEF IInv, SeqShape
  \* b cannot lie between two messages of the batch of x.
  <2>7. seq[b] < seq[c]
    <3>1. ASSUME seq[c] < seq[b] PROVE FALSE
      BY <3>1, <1>1, <2>2, <2>4, <2>5, <2>3 DEF IInv, BatchesAreIntervals
    <3>2. QED
      BY <3>1, <2>1, <2>4, <2>5, <2>6, <1>1
  \* Nor can c lie between two messages of b.
  <2>8. ASSUME NEW m \in Message, member[m] = b
        PROVE  seq[m] < seq[c]
    <3>1. ASSUME seq[c] < seq[m] PROVE FALSE
      BY <3>1, <1>1, <2>4, <2>5, <2>7, <2>8 DEF IInv, BatchesAreIntervals
    <3>2. QED
      BY <3>1, <2>1, <2>4, <2>5, <2>6, <2>8
  <2>9. QED
    BY <2>4, <2>7, <2>8
<1>10. SupersededByNewer'
  <2>1. decision'[b].kind = "superseded" => Superseded(b)
    BY <1>3 DEF KindOf
  <2>2. QED
    BY <1>1, <1>3, <1>9, <2>1 DEF IInv, SupersededByNewer
<1>11. QED
  BY <1>6, <1>7, <1>8, <1>10 DEF IInv, Structure

\* The end of a batch moves no run but the one that ends it.
LEMMA RowEnds ==
    ASSUME IInv, TypeOK', NEW b \in Message,
           batch[b].state = "claimed",
           batch'[b].state \in Terminal,
           batch'[b].attempts = batch[b].attempts,
           batch'[b].owner = batch[b].owner,
           batch'[b].state = "completed" => decision[b] # NoDecision,
           \A x \in Message \ {b} : batch'[x] = batch[x],
           UNCHANGED <<seq, member, decision>>,
           \A v \in Workflow :
              \/ wf'[v] = wf[v] /\ ~(wf[v].pc = "deciding" /\ wf[v].lease > 0
                                   /\ wf[v].batch = b)
              \/ /\ wf'[v].pc \notin {"idle", "deciding", "closing"}
                 /\ wf[v].pc # "idle" /\ wf'[v].batch = wf[v].batch
    PROVE  IInv'
<1>1. \A x \in Message : /\ batch'[x].state = "absent" <=> batch[x].state = "absent"
                         /\ batch'[x].state = "waiting" => batch[x].state = "waiting"
  BY DEF Terminal
<1>2. Structure'
  BY <1>1, StructureKept DEF IInv, Structure
<1>3. RowShape'
  BY DEF IInv, RowShape, Terminal
<1>4. SupersededByNewer'
  BY <1>1 DEF IInv, SupersededByNewer
<1>5. RunShape'
  <2>1. ASSUME NEW v \in Workflow, wf[v].pc # "idle"
        PROVE  /\ wf[v].batch \in Message
               /\ batch'[wf[v].batch].state # "absent"
    BY <2>1, <1>1 DEF IInv, TypeOK, RunShape
  <2>2. ASSUME NEW v \in Workflow, wf'[v] = wf[v], wf[v].pc \in {"deciding", "closing"},
               ~(wf[v].pc = "deciding" /\ wf[v].lease > 0 /\ wf[v].batch = b)
        PROVE  /\ 0 < wf[v].token
               /\ wf[v].token <= batch'[wf[v].batch].attempts
               /\ wf[v].token = batch'[wf[v].batch].attempts =>
                     batch'[wf[v].batch].owner = v
               /\ wf[v].pc = "closing" => decision'[wf[v].batch] # NoDecision
               /\ wf[v].pc = "deciding" /\ wf[v].lease > 0 =>
                     /\ batch'[wf[v].batch].state = "claimed"
                     /\ batch'[wf[v].batch].owner = v
                     /\ batch'[wf[v].batch].lease = wf[v].lease
    <3>1. wf[v].batch \in Message
      BY <2>1, <2>2
    <3>2. CASE wf[v].batch = b
      BY <3>2, <2>2 DEF IInv, RunShape
    <3>3. CASE wf[v].batch # b
      BY <3>1, <3>3, <2>2 DEF IInv, RunShape
    <3>4. QED
      BY <3>2, <3>3
  <2>3. ASSUME NEW v \in Workflow, wf'[v].pc # "idle"
        PROVE  batch'[wf'[v].batch].state # "absent"
    BY <2>3, <2>1
  <2>4. QED
    BY <2>2, <2>3 DEF RunShape
<1>6. QED
  BY <1>2, <1>3, <1>4, <1>5 DEF IInv, Structure

LEMMA CloseIInv == ASSUME IInv, NEW w \in Workflow, Close(w), TypeOK' PROVE IInv'
<1> DEFINE b == wf[w].batch
<1>1. /\ b \in Message /\ batch[b] \in Row /\ wf[w] \in Run
      /\ wf[w].pc = "closing" /\ decision[b] # NoDecision
  BY DEF IInv, TypeOK, RunShape, Close
<1>2. /\ wf'[w].pc \in {"sending", "stopped"} /\ wf'[w].batch = b
      /\ \A v \in Workflow \ {w} : wf'[v] = wf[v]
      /\ UNCHANGED <<seq, member, decision>>
  BY <1>1 DEF IInv, TypeOK, Close, AfterCommit, Run
<1>3. CASE Completable(batch[b], wf[w].token)
  <2>1. /\ batch[b].state = "claimed"
        /\ wf[w].token = batch[b].attempts /\ batch[b].owner = w
    BY <1>1, <1>3 DEF Completable, IInv, RowShape, RunShape
  <2>2. /\ batch'[b] = [batch[b] EXCEPT !.state = "completed", !.lease = 0]
        /\ \A x \in Message \ {b} : batch'[x] = batch[x]
    BY <1>1, <1>3 DEF Close, IInv, TypeOK
  <2>3. /\ batch'[b].state = "completed"
        /\ batch'[b].attempts = batch[b].attempts
        /\ batch'[b].owner = batch[b].owner
    BY <1>1, <2>2 DEF Row
  \* The run that closes is the owner, so no other has time left on b.
  <2>4. \A v \in Workflow \ {w} :
           ~(wf[v].pc = "deciding" /\ wf[v].lease > 0 /\ wf[v].batch = b)
    BY <2>1 DEF IInv, RunShape
  <2>5. ASSUME NEW v \in Workflow
        PROVE  \/ wf'[v] = wf[v] /\ ~(wf[v].pc = "deciding" /\ wf[v].lease > 0
                                     /\ wf[v].batch = b)
               \/ /\ wf'[v].pc \notin {"idle", "deciding", "closing"}
                  /\ wf[v].pc # "idle" /\ wf'[v].batch = wf[v].batch
    BY <1>1, <1>2, <2>4
  <2>6. batch'[b].state \in Terminal
    BY <2>3 DEF Terminal
  <2>7. QED
    BY <1>1, <1>2, <2>1, <2>2, <2>3, <2>5, <2>6, RowEnds
<1>4. CASE ~Completable(batch[b], wf[w].token)
  BY <1>1, <1>2, <1>4, RunMoves DEF Close
<1>5. QED
  BY <1>3, <1>4

LEMMA ExpireClaimIInv ==
    ASSUME IInv, NEW b \in Message, ExpireClaim(b), TypeOK'
    PROVE  IInv'
<1>1. /\ batch[b] \in Row /\ batch[b].state = "claimed" /\ batch[b].lease = 0
      /\ batch' = [batch EXCEPT ![b].state = "abandoned"]
      /\ UNCHANGED <<seq, member, decision, wf>>
  BY DEF IInv, TypeOK, ExpireClaim, Exhausted
<1>2. /\ batch'[b].state = "abandoned"
      /\ batch'[b].attempts = batch[b].attempts
      /\ batch'[b].owner = batch[b].owner
      /\ \A x \in Message \ {b} : batch'[x] = batch[x]
  BY <1>1 DEF IInv, TypeOK, Row
<1>3. ASSUME NEW v \in Workflow
      PROVE  ~(wf[v].pc = "deciding" /\ wf[v].lease > 0 /\ wf[v].batch = b)
  <2>1. wf[v].lease \in Nat
    BY DEF IInv, TypeOK, Run
  <2>2. QED
    BY <1>1, <2>1 DEF IInv, RunShape
<1>4. QED
  BY <1>1, <1>2, <1>3, RowEnds DEF Terminal

LEMMA NextIInv == IInv /\ [Next]_vars => IInv'
<1> SUFFICES ASSUME IInv, [Next]_vars PROVE IInv'
  OBVIOUS
<1>1. TypeOK'
  BY NextType DEF IInv
<1>2. CASE Tick
  BY <1>1, <1>2, TickIInv
<1>3. ASSUME NEW w \in Workflow, NEW m \in Message, Ingest(w, m)
      PROVE  IInv'
  BY <1>1, <1>3, IngestIInv
<1>4. ASSUME NEW w \in Workflow, Progress(w) \/ CloseFails(w) \/ Crash(w)
      PROVE  IInv'
  <2>1. wf[w] \in Run /\ wf \in [Workflow -> Run]
    BY DEF IInv, TypeOK
  <2>2. CASE \/ ReadExisting(w) \/ ClaimTooEarly(w) \/ ClaimLoses(w)
             \/ CloseFails(w) \/ Crash(w)
    <3>1. /\ UNCHANGED <<seq, member, batch, decision>>
          /\ \A v \in Workflow \ {w} : wf'[v] = wf[v]
          /\ wf[w].pc # "idle"
      BY <2>1, <2>2 DEF ReadExisting, ClaimTooEarly, ClaimLoses, CloseFails, Crash
    <3>2. wf'[w].batch = wf[w].batch /\ wf'[w].pc \notin {"deciding", "closing"}
      <4>1. CASE ReadExisting(w) \/ ClaimLoses(w) \/ Crash(w)
        BY <2>1, <4>1 DEF ReadExisting, ClaimLoses, Crash, Run
      <4>2. CASE ClaimTooEarly(w)
        BY <2>1, <4>2 DEF ClaimTooEarly, Run
      <4>3. CASE CloseFails(w)
        BY <2>1, <4>3 DEF CloseFails, AfterCommit, Run
      <4>4. QED
        BY <2>2, <4>1, <4>2, <4>3
    <3>3. QED
      BY <1>1, <3>1, <3>2, RunMoves
  <2>3. CASE ClaimWins(w)
    BY <1>1, <2>3, ClaimWinsIInv
  <2>4. ASSUME NEW p \in Payload, CommitNew(w, p)
        PROVE  IInv'
    BY <1>1, <2>4, CommitNewIInv
  <2>5. ASSUME NEW p \in Payload, CommitAgain(w, p)
        PROVE  IInv'
    <3>1. /\ UNCHANGED <<seq, member, batch, decision>>
          /\ \A v \in Workflow \ {w} : wf'[v] = wf[v]
          /\ wf[w].pc = "deciding" /\ decision[wf[w].batch] # NoDecision
          /\ wf'[w].batch = wf[w].batch /\ wf'[w].token = wf[w].token
          /\ wf'[w].pc \in {"closing", "stopped"}
      BY <2>1, <2>5 DEF CommitAgain, Run
    <3>2. QED
      BY <1>1, <3>1, RunMoves
  <2>6. CASE Close(w)
    BY <1>1, <2>6, CloseIInv
  <2>7. QED
    BY <1>4, <2>2, <2>3, <2>4, <2>5, <2>6 DEF Progress
<1>5. ASSUME NEW b \in Message, ExpireClaim(b)
      PROVE  IInv'
  BY <1>1, <1>5, ExpireClaimIInv
<1>6. CASE UNCHANGED vars
  <2>1. UNCHANGED <<seq, member, batch, decision, wf>>
    BY <1>6 DEF vars
  <2>2. RunShape'
    BY <2>1 DEF IInv, RunShape
  <2>3. QED
    BY <1>1, <2>1, <2>2, RunStep
<1>7. QED
  BY <1>2, <1>3, <1>4, <1>5, <1>6 DEF Next

\* The parts of the invariant hold together in every reachable state.
THEOREM Inductive == Spec => []IInv
BY InitIInv, NextIInv, PTL DEF Spec

-----------------------------------------------------------------------------
(* What follows from it. *)

\* A conversation never has two open windows.
THEOREM OneWaitingHolds == Spec => []OneWaiting
BY Inductive, PTL DEF IInv

\* The messages of a batch are consecutive in the conversation.
THEOREM IntervalsHold == Spec => []BatchesAreIntervals
BY Inductive, PTL DEF IInv

\* A decision is dropped only in favour of a batch opened after all the messages
\* it was to answer.
THEOREM SupersededHolds == Spec => []SupersededByNewer
BY Inductive, PTL DEF IInv

\* Of the runs at work on a batch at most one has time left on its lease, the
\* one the row names.
THEOREM OneLiveLeaseHolds == Spec => []OneLiveLease
<1>1. IInv => OneLiveLease
  BY DEF IInv, RunShape, OneLiveLease
<1>2. QED
  BY <1>1, Inductive, PTL

\* No message joins a batch that has been claimed.
THEOREM FrozenHolds == Spec => FrozenOnceClaimed
<1> DEFINE Frozen == \A m \in Message :
                        member'[m] # member[m] =>
                            batch[member'[m]].state \in {"absent", "waiting"}
<1>1. ASSUME IInv, [Next]_vars
      PROVE  [Frozen]_vars
  <2>1. ASSUME NEW w \in Workflow, NEW m \in Message, Ingest(w, m)
        PROVE  Frozen
    <3>1. CASE Replay(m)
      BY <3>1 DEF Replay
    <3>2. CASE Join(m)
      BY <3>2 DEF Join, Joinable, Waiting, Admit, IInv, TypeOK
    <3>3. CASE Open(m)
      <4>1. batch[m].state = "absent"
        BY <1>1, <3>3, ConstantsAssumption
           DEF Open, IInv, MembersShape, ConstantsAssumption
      <4>2. \A x \in Message : member'[x] # member[x] => member'[x] = m
        BY <1>1, <3>3 DEF Open, Admit, IInv, TypeOK
      <4>3. QED
        BY <4>1, <4>2
    <3>4. QED
      BY <2>1, <3>1, <3>2, <3>3 DEF Ingest
  <2>2. ASSUME UNCHANGED member PROVE Frozen
    BY <2>2
  <2>3. CASE Tick
    BY <2>2, <2>3 DEF Tick
  <2>4. ASSUME NEW w \in Workflow, Progress(w) \/ CloseFails(w) \/ Crash(w)
        PROVE  Frozen
    BY <2>2, <2>4 DEF Progress, ReadExisting, ClaimWins, ClaimTooEarly, ClaimLoses,
                      CommitNew, CommitAgain, Close, CloseFails, Crash
  <2>5. ASSUME NEW b \in Message, ExpireClaim(b)
        PROVE  Frozen
    BY <2>2, <2>5 DEF ExpireClaim
  <2>6. QED
    BY <1>1, <2>1, <2>3, <2>4, <2>5 DEF Next
<1>2. QED
  BY <1>1, Inductive, PTL DEF Spec, FrozenOnceClaimed

\* A batch is completed by the run that claimed it last, once its turn is decided.
THEOREM OwnerCompletes == Spec => OnlyOwnerCompletes
<1> DEFINE Owned == \A b \in Message :
             batch[b].state # "completed" /\ batch'[b].state = "completed" =>
                 /\ decision[b] # NoDecision
                 /\ batch[b].owner # None
                 /\ wf[batch[b].owner].pc = "closing"
                 /\ wf'[batch[b].owner].pc # "closing"
<1>1. ASSUME IInv, [Next]_vars
      PROVE  [Owned]_vars
  <2>1. ASSUME \A b \in Message :
                  batch'[b].state = "completed" => batch[b].state = "completed"
        PROVE  Owned
    BY <2>1
  <2>2. CASE Tick
    <3>1. ASSUME NEW b \in Message PROVE batch'[b].state = batch[b].state
      BY <1>1, <2>2 DEF Tick, IInv, TypeOK, Row
    <3>2. QED
      BY <2>1, <3>1
  <2>3. ASSUME NEW w \in Workflow, NEW m \in Message, Ingest(w, m)
        PROVE  Owned
    <3>1. CASE Replay(m)
      BY <2>1, <3>1 DEF Replay
    <3>2. CASE Join(m)
      <4>1. PICK b \in Message : batch' = [batch EXCEPT ![b] = Extended(batch[b])]
        BY <3>2 DEF Join, Joinable, Waiting
      <4>2. Extended(batch[b]).state = batch[b].state
        BY <1>1 DEF Extended, IInv, TypeOK, Row
      <4>3. QED
        BY <1>1, <2>1, <4>1, <4>2 DEF IInv, TypeOK
    <3>3. CASE Open(m)
      <4>1. \A r \in Row : Expired(r).state = "abandoned"
        BY DEF Expired, Row
      <4>2. NewRow.state = "waiting"
        BY DEF NewRow, NoRow
      <4>3. QED
        BY <1>1, <2>1, <3>3, <4>1, <4>2 DEF Open, IInv, TypeOK
    <3>4. QED
      BY <2>3, <3>1, <3>2, <3>3 DEF Ingest
  <2>4. ASSUME NEW w \in Workflow, Close(w)
        PROVE  Owned
    <3> DEFINE b == wf[w].batch
    <3>1. /\ b \in Message /\ wf[w].pc = "closing" /\ decision[b] # NoDecision
          /\ wf[w] \in Run
      BY <1>1, <2>4 DEF IInv, TypeOK, RunShape, Close
    <3>2. CASE ~Completable(batch[b], wf[w].token)
      BY <2>1, <2>4, <3>2 DEF Close
    <3>3. CASE Completable(batch[b], wf[w].token)
      <4>1. batch[b].owner = w
        BY <1>1, <3>1, <3>3 DEF Completable, IInv, RowShape, RunShape
      <4>2. \A x \in Message \ {b} : batch'[x] = batch[x]
        BY <1>1, <2>4, <3>3 DEF Close, IInv, TypeOK
      <4>3. wf'[w].pc # "closing"
        BY <1>1, <2>4, <3>1 DEF Close, AfterCommit, IInv, TypeOK, Run
      <4>4. w # None
        BY ConstantsAssumption DEF ConstantsAssumption
      <4>5. QED
        BY <3>1, <4>1, <4>2, <4>3, <4>4
    <3>4. QED
      BY <3>2, <3>3
  <2>5. ASSUME NEW w \in Workflow, ClaimWins(w)
        PROVE  Owned
    <3>1. Claimed(batch[wf[w].batch], w).state = "claimed"
      BY <1>1, <2>5 DEF Claimed, IInv, TypeOK, ClaimWins, Row
    <3>2. QED
      BY <1>1, <2>1, <2>5, <3>1 DEF ClaimWins, IInv, TypeOK
  <2>6. ASSUME UNCHANGED batch PROVE Owned
    BY <2>1, <2>6
  <2>7. ASSUME NEW w \in Workflow, Progress(w) \/ CloseFails(w) \/ Crash(w)
        PROVE  Owned
    BY <2>4, <2>5, <2>6, <2>7
       DEF Progress, ReadExisting, ClaimTooEarly, ClaimLoses,
           CommitNew, CommitAgain, CloseFails, Crash
  <2>8. ASSUME NEW b \in Message, ExpireClaim(b)
        PROVE  Owned
    BY <1>1, <2>1, <2>8 DEF ExpireClaim, IInv, TypeOK, Row
  <2>9. QED
    BY <1>1, <2>2, <2>3, <2>7, <2>8 DEF Next
<1>2. QED
  BY <1>1, Inductive, PTL DEF Spec, OnlyOwnerCompletes

-----------------------------------------------------------------------------
(* message_count counts. *)

Members(b) == {m \in Message : member[m] = b}

Counted ==
    \A b \in Message :
        /\ IsFiniteSet(Members(b))
        /\ batch[b].state # "absent" => batch[b].count = Cardinality(Members(b))

LEMMA CountedKept ==
    ASSUME Counted, UNCHANGED member,
           \A b \in Message : /\ batch'[b].state = "absent" <=> batch[b].state = "absent"
                              /\ batch'[b].count = batch[b].count
    PROVE  Counted'
BY DEF Counted, Members

\* A message that was in no batch makes the batch it joins one longer.
LEMMA CountedAdmit ==
    ASSUME Counted, TypeOK, NEW m \in Message, NEW b \in Message,
           member[m] = None, Admit(m, b),
           batch'[b].count = Cardinality(Members(b)) + 1,
           \A x \in Message \ {b} :
              /\ batch'[x].state # "absent" => batch[x].state # "absent"
              /\ batch'[x].count = batch[x].count
    PROVE  Counted'
<1>1. /\ \A x \in Message \ {m} : member'[x] = member[x]
      /\ member'[m] = b
      /\ None \notin Message
  BY ConstantsAssumption DEF Admit, TypeOK, ConstantsAssumption
<1>2. Members(b)' = Members(b) \cup {m} /\ m \notin Members(b)
  BY <1>1 DEF Members
<1>3. /\ IsFiniteSet(Members(b) \cup {m})
      /\ Cardinality(Members(b) \cup {m}) = Cardinality(Members(b)) + 1
  <2>1. IsFiniteSet(Members(b))
    BY DEF Counted
  <2>2. QED
    BY <1>2, <2>1, FS_AddElement
<1>4. \A x \in Message \ {b} : Members(x)' = Members(x)
  BY <1>1 DEF Members
<1>5. ASSUME NEW x \in Message
      PROVE  /\ IsFiniteSet(Members(x)')
             /\ batch'[x].state # "absent" => batch'[x].count = Cardinality(Members(x)')
  <2>1. CASE x = b
    BY <1>2, <1>3, <2>1
  <2>2. CASE x # b
    BY <1>4, <2>2 DEF Counted
  <2>3. QED
    BY <2>1, <2>2
<1>6. QED
  BY <1>5 DEF Counted

LEMMA NextCounted == IInv /\ Counted /\ [Next]_vars => Counted'
<1> SUFFICES ASSUME IInv, Counted, [Next]_vars PROVE Counted'
  OBVIOUS
<1>1. TypeOK /\ batch \in [Message -> Row]
  BY DEF IInv, TypeOK
<1>2. ASSUME UNCHANGED <<member, batch>> PROVE Counted'
  BY <1>2, CountedKept
<1>3. CASE Tick
  <2>1. ASSUME NEW b \in Message
        PROVE  batch'[b].state = batch[b].state /\ batch'[b].count = batch[b].count
    BY <1>1, <1>3 DEF Tick, Row
  <2>2. QED
    BY <1>3, <2>1, CountedKept DEF Tick
<1>4. ASSUME NEW w \in Workflow, NEW m \in Message, Ingest(w, m)
      PROVE  Counted'
  <2>1. CASE Replay(m)
    BY <1>2, <2>1 DEF Replay
  <2>2. CASE Join(m)
    <3>1. PICK b \in Message :
             /\ batch[b].state = "waiting"
             /\ batch' = [batch EXCEPT ![b] = Extended(batch[b])]
             /\ Admit(m, b)
      BY <2>2 DEF Join, Joinable, Waiting
    <3>2. batch'[b].count = Cardinality(Members(b)) + 1
      <4>1. Extended(batch[b]).count = batch[b].count + 1
        BY <1>1 DEF Extended, Row
      <4>2. QED
        BY <1>1, <3>1, <4>1 DEF Counted
    <3>3. \A x \in Message \ {b} : batch'[x] = batch[x]
      BY <1>1, <3>1
    <3>4. QED
      BY <1>1, <2>2, <3>1, <3>2, <3>3, CountedAdmit DEF Join
  <2>3. CASE Open(m)
    <3>1. Members(m) = {}
      BY <2>3, ConstantsAssumption
         DEF Open, Members, IInv, MembersShape, ConstantsAssumption
    <3>2. batch'[m].count = Cardinality(Members(m)) + 1
      <4>1. batch'[m].count = 1
        BY <2>3 DEF Open, NewRow, NoRow
      <4>2. QED
        BY <3>1, <4>1, FS_EmptySet
    <3>3. ASSUME NEW x \in Message \ {m}
          PROVE  /\ batch'[x].state # "absent" => batch[x].state # "absent"
                 /\ batch'[x].count = batch[x].count
      <4>1. \A r \in Row : Expired(r).count = r.count
        BY DEF Expired, Row
      <4>2. QED
        BY <1>1, <2>3, <4>1 DEF Open, Waiting
    <3>4. QED
      BY <1>1, <2>3, <3>2, <3>3, CountedAdmit DEF Open
  <2>4. QED
    BY <1>4, <2>1, <2>2, <2>3 DEF Ingest
\* The other steps rewrite one row at most, neither its count nor its existence.
<1>5. ASSUME NEW b \in Message, NEW r \in Row, batch' = [batch EXCEPT ![b] = r],
             r.count = batch[b].count, UNCHANGED member,
             r.state = "absent" <=> batch[b].state = "absent"
      PROVE  Counted'
  BY <1>1, <1>5, CountedKept
<1>6. ASSUME NEW w \in Workflow, ClaimWins(w)
      PROVE  Counted'
  <2>1. PICK b \in Message : b = wf[w].batch
    BY <1>1, <1>6 DEF ClaimWins, TypeOK
  <2>2. /\ Claimed(batch[b], w) \in Row
        /\ Claimed(batch[b], w).count = batch[b].count
        /\ Claimed(batch[b], w).state = "claimed"
    <3>1. batch[b] \in Row
      BY <1>1
    <3>2. QED
      BY <3>1, RowUpdates DEF Claimed, Row
  <2>3. batch[b].state # "absent"
    BY <1>6, <2>1 DEF ClaimWins, Claimable
  <2>4. batch' = [batch EXCEPT ![b] = Claimed(batch[b], w)] /\ UNCHANGED member
    BY <1>6, <2>1 DEF ClaimWins
  <2>5. QED
    BY <1>5, <2>2, <2>3, <2>4
<1>7. ASSUME NEW w \in Workflow, Close(w)
      PROVE  Counted'
  <2>1. PICK b \in Message : b = wf[w].batch
    BY <1>1, <1>7 DEF Close, TypeOK
  <2>2. CASE ~Completable(batch[b], wf[w].token)
    BY <1>2, <1>7, <2>1, <2>2 DEF Close
  <2>3. CASE Completable(batch[b], wf[w].token)
    <3> DEFINE r == [batch[b] EXCEPT !.state = "completed", !.lease = 0]
    <3>1. r \in Row /\ r.count = batch[b].count /\ r.state = "completed"
      <4>1. batch[b] \in Row
        BY <1>1
      <4>2. QED
        BY <4>1 DEF Row, BatchState
    <3>2. batch' = [batch EXCEPT ![b] = r] /\ UNCHANGED member
      BY <1>7, <2>1, <2>3 DEF Close
    <3>3. batch[b].state # "absent"
      BY <2>3 DEF Completable
    <3>4. QED
      BY <1>5, <3>1, <3>2, <3>3
  <2>4. QED
    BY <2>2, <2>3
<1>8. ASSUME NEW b \in Message, ExpireClaim(b)
      PROVE  Counted'
  <2> DEFINE r == [batch[b] EXCEPT !.state = "abandoned"]
  <2>1. r \in Row /\ r.count = batch[b].count /\ r.state = "abandoned"
    <3>1. batch[b] \in Row
      BY <1>1
    <3>2. QED
      BY <3>1 DEF Row, BatchState
  <2>2. /\ batch' = [batch EXCEPT ![b] = r] /\ UNCHANGED member
        /\ batch[b].state # "absent"
    BY <1>8 DEF ExpireClaim, Exhausted
  <2>3. QED
    BY <1>5, <2>1, <2>2
<1>9. ASSUME NEW w \in Workflow, Progress(w) \/ CloseFails(w) \/ Crash(w)
      PROVE  Counted'
  BY <1>2, <1>6, <1>7, <1>9
     DEF Progress, ReadExisting, ClaimTooEarly, ClaimLoses, CommitNew, CommitAgain,
         CloseFails, Crash
<1>10. QED
  BY <1>2, <1>3, <1>4, <1>8, <1>9 DEF Next, vars

\* However often a message is delivered, its batch counts it once.
THEOREM CountsHold == Spec => []CountsMembers
<1>1. Init => Counted
  <2>1. ASSUME Init, NEW b \in Message
        PROVE  Members(b) = {} /\ batch[b].state = "absent"
    BY <2>1, ConstantsAssumption DEF Init, Members, NoRow, ConstantsAssumption
  <2>2. QED
    BY <2>1, FS_EmptySet DEF Counted
<1>2. Counted => CountsMembers
  BY DEF Counted, CountsMembers, Members
<1>3. QED
  BY <1>1, <1>2, NextCounted, Inductive, PTL DEF Spec

-----------------------------------------------------------------------------
(* The tables implement TurnOwnership: every step of the batches maps to a   *)
(* step of the abstract ones, or to none.                                    *)

LEMMA PhaseOf ==
    ASSUME NEW r \in Row
    PROVE  /\ Phase(r) = "absent" <=> r.state = "absent"
           /\ Phase(r) = "open" <=> r.state = "waiting"
           /\ Phase(r) = "owned" <=> r.state = "claimed"
           /\ Phase(r) = "done" <=> r.state = "completed"
           /\ Phase(r) = "dropped" <=> r.state = "abandoned"
<1>1. r.state \in {"absent", "waiting", "claimed", "completed", "abandoned"}
  BY DEF Row, BatchState
<1>2. QED
  BY <1>1 DEF Phase

LEMMA InitOwnership == Init => Ownership!OInit
BY DEF Init, NoRow, Phase, Ownership!OInit

\* Steps that leave state and claims of every row alone are invisible.
LEMMA Stutters ==
    ASSUME \A b \in Message : /\ batch'[b].state = batch[b].state
                              /\ batch'[b].attempts = batch[b].attempts,
           UNCHANGED decision
    PROVE  UNCHANGED Ownership!ovars
<1>1. \A b \in Message : Phase(batch'[b]) = Phase(batch[b])
  BY DEF Phase
<1>2. QED
  BY <1>1 DEF Ownership!ovars

LEMMA StepOwnership ==
    ASSUME IInv, IInv', [Next]_vars
    PROVE  [Ownership!ONext]_(Ownership!ovars)
<1> USE DEF IInv
<1>1. /\ \A b \in Message : batch[b] \in Row /\ batch'[b] \in Row
      /\ batch \in [Message -> Row] /\ wf \in [Workflow -> Run]
      /\ decision \in [Message -> Decision] /\ decision' \in [Message -> Decision]
  BY DEF TypeOK
<1>2. ASSUME UNCHANGED <<batch, decision>>
      PROVE  UNCHANGED Ownership!ovars
  BY <1>2, Stutters
<1>3. CASE Tick
  <2>1. ASSUME NEW b \in Message
        PROVE  batch'[b].state = batch[b].state /\ batch'[b].attempts = batch[b].attempts
    BY <1>1, <1>3 DEF Tick, Row
  <2>2. QED
    BY <1>3, <2>1, Stutters DEF Tick
<1>4. ASSUME NEW w \in Workflow, NEW m \in Message, Ingest(w, m)
      PROVE  [Ownership!ONext]_(Ownership!ovars)
  <2>1. CASE Replay(m)
    BY <1>2, <1>4, <2>1 DEF Ingest, Replay
  <2>2. CASE Join(m)
    <3>1. PICK b \in Message : batch' = [batch EXCEPT ![b] = Extended(batch[b])]
      BY <2>2 DEF Join, Joinable, Waiting
    <3>2. /\ Extended(batch[b]).state = batch[b].state
          /\ Extended(batch[b]).attempts = batch[b].attempts
      BY <1>1 DEF Extended, Row
    <3>3. QED
      BY <1>1, <1>4, <3>1, <3>2, Stutters DEF Ingest
  <2>3. CASE Open(m)
    <3>1. batch[m].state = "absent"
      BY <2>3, ConstantsAssumption DEF Open, MembersShape, ConstantsAssumption
    <3>2. batch'[m] = NewRow /\ batch[m].attempts = 0
      BY <2>3, <3>1 DEF Open, RowShape
    <3>3. ASSUME NEW x \in Message \ {m}
          PROVE  /\ batch[x].state = "waiting" => batch'[x].state = "abandoned"
                 /\ batch[x].state # "waiting" => batch'[x].state = batch[x].state
                 /\ batch'[x].attempts = batch[x].attempts
      <4>1. \A r \in Row : Expired(r).state = "abandoned" /\ Expired(r).attempts = r.attempts
        BY DEF Expired, Row
      <4>2. QED
        BY <1>1, <2>3, <4>1 DEF Open, Waiting
    <3>4. \A x \in Message : Phase(batch'[x]) =
             IF x = m THEN "open"
             ELSE IF Phase(batch[x]) = "open" THEN "dropped" ELSE Phase(batch[x])
      <4>1. Phase(batch'[m]) = "open"
        BY <3>2 DEF NewRow, NoRow, Phase
      <4>2. ASSUME NEW x \in Message \ {m}
            PROVE  Phase(batch'[x]) = IF Phase(batch[x]) = "open" THEN "dropped"
                                      ELSE Phase(batch[x])
        <5>1. CASE batch[x].state = "waiting"
          BY <3>3, <5>1 DEF Phase
        <5>2. CASE batch[x].state # "waiting"
          <6>1. Phase(batch'[x]) = Phase(batch[x])
            BY <3>3, <5>2 DEF Phase
          <6>2. Phase(batch[x]) # "open"
            BY <1>1, <5>2, PhaseOf
          <6>3. QED
            BY <6>1, <6>2
        <5>3. QED
          BY <5>1, <5>2
      <4>3. QED
        BY <4>1, <4>2
    <3>5. batch'[m].attempts = 0
      BY <3>2 DEF NewRow, NoRow
    <3>6. Ownership!Create(m)
      <4>1. Phase(batch[m]) = "absent"
        BY <3>1 DEF Phase
      <4>2. \A x \in Message : batch'[x].attempts = batch[x].attempts
        BY <3>2, <3>3, <3>5
      <4>3. QED
        BY <1>4, <3>4, <4>1, <4>2 DEF Ownership!Create, Ingest
    <3>7. QED
      BY <3>6 DEF Ownership!ONext
  <2>4. QED
    BY <1>4, <2>1, <2>2, <2>3 DEF Ingest
<1>5. ASSUME NEW w \in Workflow, ClaimWins(w)
      PROVE  [Ownership!ONext]_(Ownership!ovars)
  <2>1. PICK b \in Message :
           b = wf[w].batch /\ batch[b].state \in {"waiting", "claimed"}
    BY <1>5 DEF ClaimWins, Claimable, TypeOK
  <2>2. /\ batch'[b] = Claimed(batch[b], w)
        /\ \A x \in Message \ {b} : batch'[x] = batch[x]
    BY <1>1, <1>5, <2>1 DEF ClaimWins
  <2>3. batch'[b].state = "claimed" /\ batch'[b].attempts = batch[b].attempts + 1
    BY <1>1, <2>1, <2>2 DEF Claimed, Row
  <2>4. /\ Phase(batch[b]) \in {"open", "owned"} /\ Phase(batch'[b]) = "owned"
        /\ \A x \in Message \ {b} : Phase(batch'[x]) = Phase(batch[x])
    BY <2>1, <2>2, <2>3 DEF Phase
  <2>5. [x \in Message |-> Phase(batch'[x])]
           = [[x \in Message |-> Phase(batch[x])] EXCEPT ![b] = "owned"]
    BY <2>1, <2>4
  <2>6. [x \in Message |-> batch'[x].attempts]
           = [[x \in Message |-> batch[x].attempts]
                 EXCEPT ![b] = [x \in Message |-> batch[x].attempts][b] + 1]
    BY <2>1, <2>2, <2>3
  <2>7. Ownership!Grant(b)
    <3>1. UNCHANGED decision
      BY <1>5 DEF ClaimWins
    <3>2. [x \in Message |-> Phase(batch[x])][b] \in {"open", "owned"}
      BY <2>1, <2>4
    <3>3. QED
      BY <2>5, <2>6, <3>1, <3>2 DEF Ownership!Grant
  <2>8. QED
    BY <2>7 DEF Ownership!ONext
<1>6. ASSUME NEW w \in Workflow, NEW p \in Payload, CommitNew(w, p)
      PROVE  [Ownership!ONext]_(Ownership!ovars)
  <2> DEFINE b == wf[w].batch
             v == [kind |-> KindOf(b, p), payload |-> p]
  <2>1. /\ b \in Message /\ batch[b].state # "absent" /\ decision[b] = NoDecision
        /\ decision' = [decision EXCEPT ![b] = v] /\ UNCHANGED batch
    BY <1>6 DEF CommitNew, RunShape, TypeOK
  <2>2. v \in Decision \ {NoDecision}
    <3>1. KindOf(b, p) \in {"superseded", "silent", "reply"}
      BY DEF KindOf
    <3>2. v \in Decision
      BY <3>1 DEF Decision, Kind
    <3>3. v # NoDecision
      BY <3>1 DEF NoDecision
    <3>4. QED
      BY <3>2, <3>3
  <2>3. batch[b].attempts > 0
    <3>1. wf[w].token \in Nat /\ batch[b].attempts \in Nat
      BY <1>1, <2>1 DEF Row, Run
    <3>2. QED
      BY <1>6, <3>1 DEF CommitNew, RunShape
  <2>4. batch[b].state \in {"claimed", "abandoned"}
    BY <1>1, <2>1, <2>3 DEF RowShape, Row, BatchState
  <2>5. Phase(batch[b]) \in {"owned", "dropped"}
    BY <2>4 DEF Phase
  <2>6. Ownership!Decide(b)
    BY <2>1, <2>2, <2>3, <2>5 DEF Ownership!Decide
  <2>7. QED
    BY <2>1, <2>6 DEF Ownership!ONext
<1>7. ASSUME NEW w \in Workflow, Close(w)
      PROVE  [Ownership!ONext]_(Ownership!ovars)
  <2> DEFINE b == wf[w].batch
  <2>1. b \in Message /\ decision[b] # NoDecision
    BY <1>7 DEF Close, RunShape, TypeOK
  <2>2. CASE ~Completable(batch[b], wf[w].token)
    BY <1>2, <1>7, <2>2 DEF Close
  <2>3. CASE Completable(batch[b], wf[w].token)
    <3>1. /\ batch[b].state = "claimed"
          /\ batch'[b] = [batch[b] EXCEPT !.state = "completed", !.lease = 0]
          /\ \A x \in Message \ {b} : batch'[x] = batch[x]
      BY <1>1, <1>7, <2>1, <2>3 DEF Close, Completable
    <3>2. batch'[b].state = "completed" /\ batch'[b].attempts = batch[b].attempts
      BY <1>1, <2>1, <3>1 DEF Row
    <3>3. /\ Phase(batch[b]) = "owned" /\ Phase(batch'[b]) = "done"
          /\ \A x \in Message \ {b} : Phase(batch'[x]) = Phase(batch[x])
      BY <3>1, <3>2 DEF Phase
    <3>4. [x \in Message |-> Phase(batch'[x])]
             = [[x \in Message |-> Phase(batch[x])] EXCEPT ![b] = "done"]
      BY <2>1, <3>3
    <3>5. [x \in Message |-> batch'[x].attempts] = [x \in Message |-> batch[x].attempts]
      BY <3>1, <3>2
    <3>6. Ownership!Finish(b)
      BY <1>7, <2>1, <3>3, <3>4, <3>5 DEF Ownership!Finish, Close
    <3>7. QED
      BY <2>1, <3>6 DEF Ownership!ONext
  <2>4. QED
    BY <2>2, <2>3
<1>8. ASSUME NEW b \in Message, ExpireClaim(b)
      PROVE  [Ownership!ONext]_(Ownership!ovars)
  <2>1. /\ batch[b].state = "claimed"
        /\ batch'[b] = [batch[b] EXCEPT !.state = "abandoned"]
        /\ \A x \in Message \ {b} : batch'[x] = batch[x]
    BY <1>1, <1>8 DEF ExpireClaim, Exhausted
  <2>2. batch'[b].state = "abandoned" /\ batch'[b].attempts = batch[b].attempts
    BY <1>1, <2>1 DEF Row
  <2>3. /\ Phase(batch[b]) = "owned" /\ Phase(batch'[b]) = "dropped"
        /\ \A x \in Message \ {b} : Phase(batch'[x]) = Phase(batch[x])
    BY <2>1, <2>2 DEF Phase
  <2>4. [x \in Message |-> Phase(batch'[x])]
           = [[x \in Message |-> Phase(batch[x])] EXCEPT ![b] = "dropped"]
    BY <2>3
  <2>5. [x \in Message |-> batch'[x].attempts] = [x \in Message |-> batch[x].attempts]
    BY <2>1, <2>2
  <2>6. Ownership!Drop(b)
    BY <1>8, <2>3, <2>4, <2>5 DEF Ownership!Drop, ExpireClaim
  <2>7. QED
    BY <2>6 DEF Ownership!ONext
<1>9. ASSUME NEW w \in Workflow, Progress(w) \/ CloseFails(w) \/ Crash(w)
      PROVE  [Ownership!ONext]_(Ownership!ovars)
  BY <1>2, <1>5, <1>6, <1>7, <1>9
     DEF Progress, ReadExisting, ClaimTooEarly, ClaimLoses, CommitAgain, CloseFails, Crash
<1>10. QED
  BY <1>2, <1>3, <1>4, <1>8, <1>9 DEF Next, vars

\* However messages, redeliveries, runs and the reconciler interleave, a batch is
\* granted to one run after another, decided once and ended for good.
THEOREM Refinement == Spec => KeepsOwnership
<1>1. IInv /\ IInv' /\ [Next]_vars => [Ownership!ONext]_(Ownership!ovars)
  BY StepOwnership
<1>2. QED
  BY <1>1, InitOwnership, Inductive, PTL DEF Spec, KeepsOwnership, Ownership!OSpec

-----------------------------------------------------------------------------
(***************************************************************************)
(* MAX_CLAIM_ATTEMPTS is enough.  A run that wakes too early was told the  *)
(* instant the window closed, and the window has slid since: the instant   *)
(* of its next but one attempt is a whole window after the last.  So the   *)
(* attempts of a run are paced, two to a window, and the hard deadline     *)
(* comes before the last of them.                                          *)
(***************************************************************************)

\* Attempt n of a run comes no sooner than Pace(n) after its batch was opened,
\* or after the hard deadline.
Pace(n) == ((n + 1) \div 2) * Window

\* 6 attempts, a window of 5000 ms and a hard deadline of 15000 ms.
EnoughTries == Pace(MaxClaimTries) >= HardDeadline

\* The time since a batch was opened, while its deadline runs.
Elapsed(b) == HardDeadline - batch[b].hard

WindowPaced ==
    \A b \in Message :
        batch[b].state = "waiting" =>
            /\ batch[b].due <= batch[b].hard
            /\ batch[b].hard <= HardDeadline
            /\ Elapsed(b) + batch[b].due >= Window

\* The last attempt is past, the next one is not before its time, and if the
\* window slid since the run was told to wait, the one after is not either.
RunPaced(w) ==
    LET b == wf[w].batch
        n == wf[w].tries
    IN /\ Elapsed(b) >= HardDeadline \/ Elapsed(b) >= Pace(n)
       /\ \/ Elapsed(b) + wf[w].wake >= HardDeadline
          \/ Elapsed(b) + wf[w].wake >= Pace(n + 1)
       /\ \/ batch[b].due <= wf[w].wake
          \/ Elapsed(b) + batch[b].due >= HardDeadline
          \/ Elapsed(b) + batch[b].due >= Pace(n) + Window

Paced ==
    /\ WindowPaced
    /\ \A w \in Workflow :
          /\ wf[w].pc = "idle" => wf[w].tries = 0
          /\ /\ wf[w].pc \in {"ingested", "sleeping"}
             /\ batch[wf[w].batch].state = "waiting"
             => RunPaced(w)
          /\ wf[w].pc # "exhausted"

-----------------------------------------------------------------------------

LEMMA PaceSteps ==
    ASSUME NEW n \in Nat
    PROVE  /\ Pace(n) \in Nat /\ Pace(n + 1) \in Nat
           /\ Pace(n + 2) = Pace(n) + Window
           /\ Pace(0) = 0 /\ Pace(1) = Window
<1> DEFINE h(i) == (i + 1) \div 2
<1>1. h(n) \in Nat /\ h(n + 1) \in Nat /\ h(n + 2) = h(n) + 1
  OBVIOUS
<1>2. h(0) = 0 /\ h(1) = 1
  OBVIOUS
<1>3. Window \in Nat
  BY ConstantsAssumption DEF ConstantsAssumption
<1> HIDE DEF h
<1>4. \A i, j \in Nat : /\ i * Window \in Nat
                        /\ i = j + 1 => i * Window = j * Window + Window
  BY <1>3
<1>5. h(n) * Window \in Nat /\ h(n + 1) * Window \in Nat
  BY <1>1, <1>4
<1>6. h(n + 2) * Window = h(n) * Window + Window
  BY <1>1, <1>4
<1>7. h(0) * Window = 0 /\ h(1) * Window = Window
  BY <1>2, <1>3
<1>8. QED
  BY <1>5, <1>6, <1>7 DEF Pace, h

LEMMA InitPaced == Init => Paced
BY DEF Init, NoRow, IdleRun, Paced, WindowPaced

LEMMA WindowPacedKept ==
    ASSUME IInv, WindowPaced, [Next]_vars
    PROVE  WindowPaced'
<1> USE DEF IInv
<1>1. /\ \A b \in Message : batch[b] \in Row
      /\ batch \in [Message -> Row] /\ wf \in [Workflow -> Run]
      /\ Window \in Nat /\ HardDeadline \in Nat /\ Window <= HardDeadline
  BY ConstantsAssumption DEF TypeOK, ConstantsAssumption
<1>2. ASSUME \A b \in Message : batch'[b].state = "waiting" => batch'[b] = batch[b]
      PROVE  WindowPaced'
  BY <1>2 DEF WindowPaced, Elapsed
<1>3. CASE Tick
  <2>1. ASSUME NEW b \in Message, batch'[b].state = "waiting"
        PROVE  /\ batch'[b].due <= batch'[b].hard
               /\ batch'[b].hard <= HardDeadline
               /\ HardDeadline - batch'[b].hard + batch'[b].due >= Window
    <3>1. /\ batch'[b].state = batch[b].state
          /\ batch'[b].due = Less(batch[b].due)
          /\ batch'[b].hard = Less(batch[b].hard)
          /\ batch[b].due \in Nat /\ batch[b].hard \in Nat
      BY <1>1, <1>3 DEF Tick, Row
    <3>2. /\ batch[b].due <= batch[b].hard /\ batch[b].hard <= HardDeadline
          /\ HardDeadline - batch[b].hard + batch[b].due >= Window
      BY <2>1, <3>1 DEF WindowPaced, Elapsed
    <3>3. QED
      BY <1>1, <3>1, <3>2 DEF Less
  <2>2. QED
    BY <2>1 DEF WindowPaced, Elapsed
<1>4. ASSUME NEW w \in Workflow, NEW m \in Message, Ingest(w, m)
      PROVE  WindowPaced'
  <2>1. CASE Replay(m)
    BY <1>2, <2>1 DEF Replay
  <2>2. CASE Join(m)
    <3>1. PICK b \in Message :
             /\ batch[b].state = "waiting"
             /\ batch' = [batch EXCEPT ![b] = Extended(batch[b])]
      BY <2>2 DEF Join, Joinable, Waiting
    <3>2. /\ batch'[b].due = Earliest(batch[b].hard, Window)
          /\ batch'[b].hard = batch[b].hard
          /\ batch[b].hard \in Nat
          /\ \A x \in Message \ {b} : batch'[x] = batch[x]
      BY <1>1, <3>1 DEF Extended, Row
    <3>3. batch[b].hard <= HardDeadline
      BY <3>1 DEF WindowPaced
    <3>4. /\ batch'[b].due <= batch'[b].hard
          /\ batch'[b].hard <= HardDeadline
          /\ HardDeadline - batch'[b].hard + batch'[b].due >= Window
      BY <1>1, <3>2, <3>3 DEF Earliest
    <3>5. QED
      BY <3>2, <3>4 DEF WindowPaced, Elapsed
  <2>3. CASE Open(m)
    <3>1. \A x \in Message \ {m} : batch'[x].state = "waiting" => batch'[x] = batch[x]
      <4>1. \A r \in Row : Expired(r).state = "abandoned"
        BY DEF Expired, Row
      <4>2. QED
        BY <1>1, <2>3, <4>1 DEF Open, Waiting
    <3>2. batch'[m].due = Window /\ batch'[m].hard = HardDeadline
      BY <2>3 DEF Open, NewRow, NoRow
    <3>3. /\ batch'[m].due <= batch'[m].hard /\ batch'[m].hard <= HardDeadline
          /\ HardDeadline - batch'[m].hard + batch'[m].due >= Window
      BY <1>1, <3>2
    <3>4. QED
      BY <3>1, <3>3 DEF WindowPaced, Elapsed
  <2>4. QED
    BY <1>4, <2>1, <2>2, <2>3 DEF Ingest
<1>5. ASSUME NEW w \in Workflow, Progress(w) \/ CloseFails(w) \/ Crash(w)
      PROVE  WindowPaced'
  <2>1. CASE UNCHANGED batch
    BY <1>2, <2>1
  <2>2. CASE ClaimWins(w)
    <3>1. Claimed(batch[wf[w].batch], w).state = "claimed"
      BY <1>1, <2>2 DEF Claimed, ClaimWins, TypeOK, Row
    <3>2. QED
      BY <1>1, <1>2, <2>2, <3>1 DEF ClaimWins, TypeOK
  <2>3. CASE Close(w)
    BY <1>1, <1>2, <2>3 DEF Close, TypeOK, Row
  <2>4. QED
    BY <1>5, <2>1, <2>2, <2>3
       DEF Progress, ReadExisting, ClaimTooEarly, ClaimLoses, CommitNew, CommitAgain,
           CloseFails, Crash
<1>6. ASSUME NEW b \in Message, ExpireClaim(b)
      PROVE  WindowPaced'
  BY <1>1, <1>2, <1>6 DEF ExpireClaim, Row
<1>7. CASE UNCHANGED vars
  BY <1>2, <1>7 DEF vars
<1>8. QED
  BY <1>3, <1>4, <1>5, <1>6, <1>7 DEF Next

\* The runs that wait for a window.
Waits(w) == wf[w].pc \in {"ingested", "sleeping"} /\ batch[wf[w].batch].state = "waiting"

\* A run that waits goes on as it was when neither it nor its batch changes.
LEMMA RunPacedStays ==
    ASSUME NEW w \in Workflow, RunPaced(w),
           UNCHANGED <<wf[w].batch, wf[w].tries, wf[w].wake, batch[wf[w].batch]>>
    PROVE  RunPaced(w)'
BY DEF RunPaced, Elapsed

LEMMA RunPacedTick ==
    ASSUME IInv, WindowPaced, Tick, NEW w \in Workflow, Waits(w), RunPaced(w)
    PROVE  RunPaced(w)'
<1> DEFINE b == wf[w].batch
           n == wf[w].tries
<1>1. /\ b \in Message /\ batch[b] \in Row /\ wf[w] \in Run
      /\ batch[b].state = "waiting"
      /\ HardDeadline \in Nat /\ Window \in Nat
  BY ConstantsAssumption DEF IInv, TypeOK, Waits, ConstantsAssumption
<1>2. /\ batch'[b].due = Less(batch[b].due) /\ batch'[b].hard = Less(batch[b].hard)
      /\ batch[b].due \in Nat /\ batch[b].hard \in Nat
  BY <1>1 DEF Tick, Row
<1>3. /\ wf'[w].wake = Less(wf[w].wake) /\ wf'[w].batch = b /\ wf'[w].tries = n
      /\ wf[w].wake \in Nat /\ n \in Nat
  BY <1>1 DEF Tick, Run
<1>4. Pace(n) \in Nat /\ Pace(n + 1) \in Nat
  BY <1>3, PaceSteps
<1>5. batch[b].due <= batch[b].hard /\ batch[b].hard <= HardDeadline
  BY <1>1 DEF WindowPaced
<1> HIDE DEF b, n
<1>6. /\ \/ HardDeadline - batch[b].hard >= HardDeadline
         \/ HardDeadline - batch[b].hard >= Pace(n)
      /\ \/ HardDeadline - batch[b].hard + wf[w].wake >= HardDeadline
         \/ HardDeadline - batch[b].hard + wf[w].wake >= Pace(n + 1)
      /\ \/ batch[b].due <= wf[w].wake
         \/ HardDeadline - batch[b].hard + batch[b].due >= HardDeadline
         \/ HardDeadline - batch[b].hard + batch[b].due >= Pace(n) + Window
  BY DEF RunPaced, Elapsed, b, n
<1>7. \/ HardDeadline - batch'[b].hard >= HardDeadline
      \/ HardDeadline - batch'[b].hard >= Pace(n)
  BY <1>1, <1>2, <1>4, <1>5, <1>6 DEF Less
<1>8. \/ HardDeadline - batch'[b].hard + wf'[w].wake >= HardDeadline
      \/ HardDeadline - batch'[b].hard + wf'[w].wake >= Pace(n + 1)
  BY <1>1, <1>2, <1>3, <1>4, <1>5, <1>6 DEF Less
<1>9. \/ batch'[b].due <= wf'[w].wake
      \/ HardDeadline - batch'[b].hard + batch'[b].due >= HardDeadline
      \/ HardDeadline - batch'[b].hard + batch'[b].due >= Pace(n) + Window
  BY <1>1, <1>2, <1>3, <1>4, <1>5, <1>6 DEF Less
<1>10. QED
  BY <1>3, <1>7, <1>8, <1>9 DEF RunPaced, Elapsed

\* Another message slides the window a whole window away from now.
LEMMA RunPacedJoin ==
    ASSUME IInv, WindowPaced, NEW w \in Workflow, Waits(w), RunPaced(w),
           wf'[w] = wf[w], batch[wf[w].batch].hard > 0,
           batch'[wf[w].batch] = Extended(batch[wf[w].batch])
    PROVE  RunPaced(w)'
<1> DEFINE b == wf[w].batch
           n == wf[w].tries
<1>1. /\ b \in Message /\ batch[b] \in Row /\ wf[w] \in Run
      /\ batch[b].state = "waiting"
      /\ HardDeadline \in Nat /\ Window \in Nat
  BY ConstantsAssumption DEF IInv, TypeOK, Waits, ConstantsAssumption
<1>2. /\ batch'[b].due = Earliest(batch[b].hard, Window)
      /\ batch'[b].hard = batch[b].hard /\ batch[b].hard \in Nat
  BY <1>1 DEF Extended, Row
<1>3. n \in Nat /\ Pace(n) \in Nat
  BY <1>1, PaceSteps DEF Run
<1>4. Elapsed(b) >= Pace(n)
  BY <1>1, <1>2, <1>3 DEF RunPaced, Elapsed
<1>5. \/ HardDeadline - batch'[b].hard + batch'[b].due >= HardDeadline
      \/ HardDeadline - batch'[b].hard + batch'[b].due >= Pace(n) + Window
  BY <1>1, <1>2, <1>3, <1>4 DEF Earliest, Elapsed
<1>6. /\ wf'[w].batch = b /\ wf'[w].tries = n /\ wf'[w].wake = wf[w].wake
      /\ HardDeadline - batch'[b].hard = HardDeadline - batch[b].hard
  BY <1>2
<1>7. QED
  BY <1>5, <1>6 DEF RunPaced, Elapsed

\* A run that has just come in is told when the window closes.
LEMMA RunPacedIngest ==
    ASSUME IInv', WindowPaced', NEW w \in Workflow, Waits(w)',
           wf'[w].tries = 0, wf'[w].wake = batch'[wf'[w].batch].due
    PROVE  RunPaced(w)'
<1> DEFINE b == wf'[w].batch
<1>1. /\ b \in Message /\ batch'[b] \in Row /\ batch'[b].state = "waiting"
      /\ HardDeadline \in Nat /\ Window \in Nat
  BY ConstantsAssumption DEF IInv, TypeOK, Waits, ConstantsAssumption
<1>2. batch'[b].due \in Nat /\ batch'[b].hard \in Nat
  BY <1>1 DEF Row
<1>3. /\ batch'[b].hard <= HardDeadline
      /\ HardDeadline - batch'[b].hard + batch'[b].due >= Window
  BY <1>1 DEF WindowPaced, Elapsed
<1>4. Pace(0) = 0 /\ Pace(0 + 1) = Window
  BY PaceSteps
<1>5. /\ HardDeadline - batch'[b].hard >= Pace(0)
      /\ HardDeadline - batch'[b].hard + wf'[w].wake >= Pace(0 + 1)
      /\ batch'[b].due <= wf'[w].wake
  BY <1>1, <1>2, <1>3, <1>4
<1>6. QED
  BY <1>5 DEF RunPaced, Elapsed

\* A run that woke too early found the window slid, and the deadline running.
LEMMA RunPacedTooEarly ==
    ASSUME IInv, WindowPaced, NEW w \in Workflow, RunPaced(w), ClaimTooEarly(w)
    PROVE  /\ Pace(wf[w].tries + 1) < HardDeadline
           /\ RunPaced(w)'
<1> DEFINE b == wf[w].batch
           n == wf[w].tries
<1>1. /\ b \in Message /\ batch[b] \in Row /\ wf[w] \in Run
      /\ batch[b].state = "waiting" /\ batch[b].due # 0 /\ wf[w].wake = 0
      /\ HardDeadline \in Nat /\ Window \in Nat
  BY ConstantsAssumption
     DEF IInv, TypeOK, ClaimTooEarly, Claimable, ConstantsAssumption
<1>2. /\ batch[b].due \in Nat /\ batch[b].hard \in Nat
      /\ batch[b].due <= batch[b].hard /\ batch[b].hard <= HardDeadline
  BY <1>1 DEF Row, WindowPaced
<1>3. /\ n \in Nat /\ Pace(n) \in Nat /\ Pace(n + 1) \in Nat
      /\ Pace(n + 1 + 1) = Pace(n) + Window
  <2>1. n \in Nat
    BY <1>1 DEF Run
  <2>2. n + 1 + 1 = n + 2
    BY <2>1
  <2>3. QED
    BY <2>1, <2>2, PaceSteps
<1>4. /\ wf'[w].wake = batch[b].due /\ wf'[w].batch = b /\ wf'[w].tries = n + 1
      /\ batch'[b] = batch[b]
  BY <1>1 DEF IInv, TypeOK, ClaimTooEarly, Run
<1>5. /\ Elapsed(b) >= Pace(n + 1) /\ Elapsed(b) < HardDeadline
      /\ \/ Elapsed(b) + batch[b].due >= HardDeadline
         \/ Elapsed(b) + batch[b].due >= Pace(n + 1 + 1)
  BY <1>1, <1>2, <1>3 DEF RunPaced, Elapsed
<1>6. Pace(n + 1) < HardDeadline
  BY <1>1, <1>2, <1>3, <1>5 DEF Elapsed
<1>7. RunPaced(w)'
  <2>1. batch'[b].due <= wf'[w].wake
    BY <1>2, <1>4
  <2>2. QED
    BY <1>4, <1>5, <2>1 DEF RunPaced, Elapsed
<1>8. QED
  BY <1>6, <1>7

LEMMA PacedNext ==
    ASSUME EnoughTries, IInv, IInv', Paced, [Next]_vars
    PROVE  Paced'
<1> DEFINE RunInv(w) == /\ wf[w].pc = "idle" => wf[w].tries = 0
                        /\ Waits(w) => RunPaced(w)
                        /\ wf[w].pc # "exhausted"
<1>1. WindowPaced /\ WindowPaced'
  BY WindowPacedKept DEF Paced
<1>2. \A w \in Workflow : RunInv(w)
  BY DEF Paced, Waits
<1>3. /\ wf \in [Workflow -> Run] /\ batch \in [Message -> Row]
      /\ \A w \in Workflow : wf[w].pc # "idle" => wf[w].batch \in Message
  BY DEF IInv, TypeOK
\* A run that stays where it is, over a batch that does or closes.
<1>4. ASSUME NEW w \in Workflow, wf'[w] = wf[w],
             Waits(w)' => batch'[wf[w].batch] = batch[wf[w].batch]
      PROVE  RunInv(w)'
  <2>1. CASE ~Waits(w)'
    BY <1>2, <1>4, <2>1 DEF Waits
  <2>2. CASE Waits(w)'
    <3>1. Waits(w) /\ RunPaced(w)
      BY <1>2, <1>4, <2>2 DEF Waits
    <3>2. RunPaced(w)'
      BY <1>4, <2>2, <3>1, RunPacedStays
    <3>3. QED
      BY <1>2, <1>4, <3>2
  <2>3. QED
    BY <2>1, <2>2
<1>5. CASE Tick
  <2>1. ASSUME NEW w \in Workflow
        PROVE  RunInv(w)'
    <3>1. wf[w] \in Run
      BY <1>3
    <3>2. /\ wf'[w].pc = wf[w].pc /\ wf'[w].tries = wf[w].tries
          /\ wf'[w].batch = wf[w].batch
      BY <1>5, <3>1 DEF Tick, Run
    <3>3. ASSUME wf[w].pc # "idle"
          PROVE  batch'[wf[w].batch].state = batch[wf[w].batch].state
      <4>1. wf[w].batch \in Message /\ batch[wf[w].batch] \in Row
        BY <1>3, <3>3
      <4>2. QED
        BY <1>5, <4>1 DEF Tick, Row
    <3>4. Waits(w)' => Waits(w)
      BY <3>2, <3>3 DEF Waits
    <3>5. Waits(w)' => RunPaced(w)'
      BY <1>1, <1>2, <1>5, <3>4, RunPacedTick
    <3>6. QED
      BY <1>2, <3>2, <3>5
  <2>2. QED
    BY <1>1, <2>1 DEF Paced, Waits
<1>6. ASSUME NEW v \in Workflow, NEW m \in Message, Ingest(v, m)
      PROVE  Paced'
  <2>1. /\ wf'[v].pc = "ingested" /\ wf'[v].batch = member'[m]
        /\ wf'[v].wake = batch'[member'[m]].due /\ wf'[v].tries = wf[v].tries
        /\ wf[v].pc = "idle"
        /\ \A w \in Workflow \ {v} : wf'[w] = wf[w]
    BY <1>3, <1>6 DEF Ingest, Run
  <2>2. RunInv(v)'
    <3>1. wf'[v].tries = 0
      BY <1>2, <2>1
    <3>2. Waits(v)' => RunPaced(v)'
      BY <1>1, <2>1, <3>1, RunPacedIngest
    <3>3. QED
      BY <2>1, <3>1, <3>2
  <2>3. ASSUME NEW w \in Workflow \ {v}
        PROVE  RunInv(w)'
    <3>1. CASE Replay(m)
      BY <1>4, <2>1, <3>1 DEF Replay
    <3>2. CASE Join(m)
      <4>1. PICK b \in Message :
               /\ batch[b].state = "waiting" /\ batch[b].hard > 0
               /\ batch' = [batch EXCEPT ![b] = Extended(batch[b])]
        BY <3>2 DEF Join, Joinable, Waiting
      <4>2. CASE Waits(w)' /\ wf[w].batch = b
        <5>1. Waits(w) /\ RunPaced(w)
          BY <1>2, <2>1, <4>1, <4>2 DEF Waits
        <5>2. RunPaced(w)'
          BY <1>1, <1>3, <2>1, <4>1, <4>2, <5>1, RunPacedJoin
        <5>3. QED
          BY <1>2, <2>1, <5>2
      <4>3. CASE ~(Waits(w)' /\ wf[w].batch = b)
        <5>1. Waits(w)' => batch'[wf[w].batch] = batch[wf[w].batch]
          BY <1>3, <2>1, <4>1, <4>3 DEF Waits
        <5>2. QED
          BY <1>4, <2>1, <5>1
      <4>4. QED
        BY <4>2, <4>3
    <3>3. CASE Open(m)
      <4>1. batch[m].state = "absent"
        BY <3>3, ConstantsAssumption DEF Open, IInv, MembersShape, ConstantsAssumption
      <4>2. wf[w].pc # "idle" => wf[w].batch \in Message \ {m}
        BY <1>3, <4>1 DEF IInv, RunShape
      <4>3. \A x \in Message \ {m} : batch'[x].state # "waiting"
        <5>1. \A r \in Row : Expired(r).state = "abandoned"
          BY DEF Expired, Row
        <5>2. QED
          BY <1>3, <3>3, <5>1 DEF Open, Waiting
      <4>4. ~Waits(w)'
        BY <2>1, <4>2, <4>3 DEF Waits
      <4>5. QED
        BY <1>4, <2>1, <4>4
    <3>4. QED
      BY <1>6, <3>1, <3>2, <3>3 DEF Ingest
  <2>4. QED
    BY <1>1, <2>2, <2>3 DEF Paced, Waits
<1>7. ASSUME NEW v \in Workflow, ClaimTooEarly(v)
      PROVE  Paced'
  <2>1. /\ wf[v] \in Run /\ wf[v].pc = "sleeping" /\ Waits(v)
        /\ wf'[v].pc = (IF wf[v].tries + 1 = MaxClaimTries THEN "exhausted" ELSE "sleeping")
        /\ \A w \in Workflow \ {v} : wf'[w] = wf[w]
        /\ UNCHANGED batch
    BY <1>3, <1>7 DEF ClaimTooEarly, Waits, Run
  <2>2. Pace(wf[v].tries + 1) < HardDeadline /\ RunPaced(v)'
    BY <1>1, <1>2, <1>7, <2>1, RunPacedTooEarly
  <2>3. wf[v].tries + 1 # MaxClaimTries
    <3>1. wf[v].tries + 1 \in Nat /\ HardDeadline \in Nat
      BY <2>1, ConstantsAssumption DEF Run, ConstantsAssumption
    <3>2. Pace(wf[v].tries + 1) \in Nat
      BY <3>1, PaceSteps
    <3>3. QED
      BY <2>2, <3>1, <3>2 DEF EnoughTries
  <2>4. RunInv(v)'
    BY <2>1, <2>2, <2>3
  <2>5. \A w \in Workflow \ {v} : RunInv(w)'
    BY <1>4, <2>1
  <2>6. QED
    BY <1>1, <2>4, <2>5 DEF Paced, Waits
<1>8. ASSUME NEW v \in Workflow, ReadExisting(v)
      PROVE  Paced'
  <2>1. /\ wf[v] \in Run /\ wf[v].pc = "ingested" /\ wf'[v].pc \in {"sleeping", "stopped"}
        /\ wf'[v].batch = wf[v].batch /\ wf'[v].tries = wf[v].tries
        /\ wf'[v].wake = wf[v].wake
        /\ \A w \in Workflow \ {v} : wf'[w] = wf[w]
        /\ UNCHANGED batch
    BY <1>3, <1>8 DEF ReadExisting, Run
  <2>2. Waits(v)' => RunPaced(v)'
    <3>1. Waits(v)' => Waits(v)
      BY <2>1 DEF Waits
    <3>2. QED
      BY <1>2, <2>1, <3>1, RunPacedStays
  <2>3. RunInv(v)'
    BY <2>1, <2>2
  <2>4. \A w \in Workflow \ {v} : RunInv(w)'
    BY <1>4, <2>1
  <2>5. QED
    BY <1>1, <2>3, <2>4 DEF Paced, Waits
\* In the other steps of a run it waits no more, and its batch is no window.
<1>9. ASSUME NEW v \in Workflow,
             \/ ClaimWins(v) \/ ClaimLoses(v) \/ Close(v) \/ CloseFails(v) \/ Crash(v)
             \/ \E p \in Payload : CommitNew(v, p) \/ CommitAgain(v, p)
      PROVE  Paced'
  <2>1. /\ wf'[v].pc \notin {"idle", "ingested", "sleeping", "exhausted"}
        /\ \A w \in Workflow \ {v} : wf'[w] = wf[w]
    <3>1. wf[v] \in Run
      BY <1>3
    <3>2. CASE ClaimWins(v)
      BY <1>3, <3>1, <3>2 DEF ClaimWins, Run
    <3>3. CASE ClaimLoses(v) \/ Crash(v)
      BY <1>3, <3>1, <3>3 DEF ClaimLoses, Crash, Run
    <3>4. CASE Close(v) \/ CloseFails(v)
      BY <1>3, <3>1, <3>4 DEF Close, CloseFails, AfterCommit, Run
    <3>5. ASSUME NEW p \in Payload, CommitNew(v, p) \/ CommitAgain(v, p)
          PROVE  /\ wf'[v].pc \notin {"idle", "ingested", "sleeping", "exhausted"}
                 /\ \A w \in Workflow \ {v} : wf'[w] = wf[w]
      BY <1>3, <3>1, <3>5 DEF CommitNew, CommitAgain, Run
    <3>6. QED
      BY <1>9, <3>2, <3>3, <3>4, <3>5
  <2>2. \A x \in Message : batch'[x].state = "waiting" => batch'[x] = batch[x]
    <3>1. CASE UNCHANGED batch
      BY <3>1
    <3>2. CASE ClaimWins(v)
      <4>1. Claimed(batch[wf[v].batch], v).state = "claimed"
        BY <1>3, <3>2 DEF Claimed, ClaimWins, Row
      <4>2. QED
        BY <1>3, <3>2, <4>1 DEF ClaimWins
    <3>3. CASE Close(v)
      BY <1>3, <3>3 DEF Close, Row
    <3>4. QED
      BY <1>9, <3>1, <3>2, <3>3
         DEF ClaimLoses, CloseFails, Crash, CommitNew, CommitAgain
  <2>3. RunInv(v)'
    BY <2>1 DEF Waits
  <2>4. ASSUME NEW w \in Workflow \ {v}
        PROVE  RunInv(w)'
    <3>1. Waits(w)' => batch'[wf[w].batch] = batch[wf[w].batch]
      BY <1>3, <2>1, <2>2 DEF Waits
    <3>2. QED
      BY <1>4, <2>1, <3>1
  <2>5. QED
    BY <1>1, <2>3, <2>4 DEF Paced, Waits
<1>10. ASSUME NEW b \in Message, ExpireClaim(b)
      PROVE  Paced'
  <2>1. ASSUME NEW w \in Workflow
        PROVE  RunInv(w)'
    <3>1. Waits(w)' => batch'[wf[w].batch] = batch[wf[w].batch]
      BY <1>3, <1>10 DEF ExpireClaim, Waits, Row
    <3>2. QED
      BY <1>4, <1>10, <3>1 DEF ExpireClaim
  <2>2. QED
    BY <1>1, <2>1 DEF Paced, Waits
<1>11. CASE UNCHANGED vars
  BY <1>1, <1>2, <1>4, <1>11 DEF vars, Paced, Waits
<1>12. QED
  BY <1>5, <1>6, <1>7, <1>8, <1>9, <1>10, <1>11 DEF Next, Progress

\* With the attempts the workflow is given, or any number the pace allows, no
\* run gives up on a window that is still open.
THEOREM TriesSuffice == EnoughTries /\ Spec => []ClaimTriesSuffice
<1>1. ASSUME EnoughTries
      PROVE  Spec => []ClaimTriesSuffice
  <2>1. IInv /\ IInv' /\ Paced /\ [Next]_vars => Paced'
    BY <1>1, PacedNext
  <2>2. Paced => ClaimTriesSuffice
    BY DEF Paced, ClaimTriesSuffice
  <2>3. QED
    BY <2>1, <2>2, InitPaced, Inductive, PTL DEF Spec
<1>2. QED
  BY <1>1
=============================================================================
