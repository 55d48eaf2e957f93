--------------------------- MODULE JobQueueProofs ---------------------------
(***************************************************************************)
(* Theorems about JobQueue for every set of processes and every bound.     *)
(***************************************************************************)
EXTENDS JobQueue, TLAPS

\* Ids are taken in order: a row beyond the insert counter was never used.
Unused ==
    /\ \A t \in Tasks : t > created =>
          rows[t] = Absent /\ handed[t] = 0 /\ origin[t] = t
    /\ \A t \in Tasks : t <= created => origin[t] <= created

IInv == TypeOK /\ Unused /\ PayloadIsTheTicket /\ RunAtMostOnce

-----------------------------------------------------------------------------
(* A write is tame when it hands no ticket out: a payload that is still     *)
(* there afterwards was there before, in an open row of the same claimer.   *)

TameRow(old, new) ==
    /\ new \in Row
    /\ old = Absent => new = Absent
    /\ new.payload => /\ old.payload
                      /\ new.claimed_by = old.claimed_by
                      /\ new.status \in Active

Tame == /\ rows' \in [Tasks -> Row]
        /\ \A t \in Tasks : rows'[t] = rows[t] \/ TameRow(rows[t], rows'[t])

LEMMA AbsentIsRow ==
    /\ Absent \in Row /\ Absent.status = "absent" /\ ~Absent.payload
    /\ Fresh \in Row /\ Fresh.status = "PENDING" /\ ~Fresh.payload
BY DEF Absent, Fresh, Row, Active, Terminal, Kinds, NoTask

LEMMA FinishedRowTame ==
    ASSUME NEW row \in Row, NEW v \in Terminal
    PROVE  FinishedRow(row, v) \in Row /\ ~FinishedRow(row, v).payload
BY DEF FinishedRow, Row, Terminal, Active

LEMMA UpdateTame ==
    ASSUME NEW t \in Tasks, NEW row, rows \in [Tasks -> Row], Update(t, row),
           Exists(t) => TameRow(rows[t], row)
    PROVE  Tame
<1>1. CASE Exists(t)
  BY <1>1 DEF Update, Tame, TameRow
<1>2. CASE ~Exists(t)
  BY <1>2 DEF Update, Tame
<1> QED BY <1>1, <1>2

LEMMA FinishTame ==
    ASSUME NEW t \in Tasks, NEW v \in Terminal, rows \in [Tasks -> Row],
           Finish(t, v)
    PROVE  Tame
<1>1. rows[t] \in Row
  OBVIOUS
<1>2. Exists(t) => TameRow(rows[t], FinishedRow(rows[t], v))
  BY <1>1, FinishedRowTame, AbsentIsRow DEF TameRow, Exists
<1> QED BY <1>2, UpdateTame DEF Finish

LEMMA FinishIfOpenTame ==
    ASSUME NEW t \in Tasks, rows \in [Tasks -> Row], FinishIfOpen(t)
    PROVE  Tame
<1>1. CASE rows[t].status \in Terminal
  BY <1>1 DEF FinishIfOpen, Tame
<1>2. CASE rows[t].status \notin Terminal
  BY <1>2, FinishTame DEF FinishIfOpen, Terminal
<1> QED BY <1>1, <1>2

LEMMA SetStepTame ==
    ASSUME NEW t \in Tasks, rows \in [Tasks -> Row], SetStep(t)
    PROVE  Tame
<1>1. rows[t] \in Row
  OBVIOUS
<1>2. /\ SteppedRow(rows[t]) \in Row
      /\ SteppedRow(rows[t]).payload = rows[t].payload
      /\ SteppedRow(rows[t]).claimed_by = rows[t].claimed_by
      /\ SteppedRow(rows[t]).status \in Active
  BY <1>1 DEF SteppedRow, Row, Active
<1>3. Exists(t) => TameRow(rows[t], SteppedRow(rows[t]))
  BY <1>2, AbsentIsRow DEF TameRow, Exists
<1> QED BY <1>3, UpdateTame DEF SetStep

LEMMA CancelTame ==
    ASSUME NEW t \in Tasks, rows \in [Tasks -> Row], rows[t].status \in Active,
           rows' = [rows EXCEPT ![t] = CancelledRow(@)]
    PROVE  Tame
<1> DEFINE old == rows[t]
<1>1. old \in Row /\ old # Absent
  BY AbsentIsRow DEF Active
<1>2. FinishedRow(old, "FAILED") \in Row /\ ~FinishedRow(old, "FAILED").payload
  BY <1>1, FinishedRowTame DEF Terminal
<1>3. TameRow(old, CancelledRow(old))
  <2>1. CASE old.claimed_by = NoProc /\ old.status = "PENDING"
    <3>1. CancelledRow(old) = [FinishedRow(old, "FAILED") EXCEPT !.cancel_requested = TRUE]
      BY <2>1 DEF CancelledRow
    <3>2. CancelledRow(old) \in Row /\ ~CancelledRow(old).payload
      BY <1>2, <3>1 DEF Row
    <3> QED BY <1>1, <3>2 DEF TameRow
  <2>2. CASE ~(old.claimed_by = NoProc /\ old.status = "PENDING")
    <3>1. CancelledRow(old) = [old EXCEPT !.cancel_requested = TRUE]
      BY <2>2 DEF CancelledRow
    <3>2. /\ CancelledRow(old) \in Row
          /\ CancelledRow(old).payload = old.payload
          /\ CancelledRow(old).claimed_by = old.claimed_by
          /\ CancelledRow(old).status = old.status
      BY <1>1, <3>1 DEF Row
    <3> QED BY <1>1, <3>2 DEF TameRow
  <2> QED BY <2>1, <2>2
<1> QED BY <1>3 DEF Tame, TameRow

-----------------------------------------------------------------------------
(* Types                                                                    *)

LEMMA InsertType ==
    ASSUME NEW t \in Tasks, NEW row \in Row, NEW cut \in Nat,
           rows \in [Tasks -> Row], Insert(t, row, cut)
    PROVE  rows' \in [Tasks -> Row]
BY AbsentIsRow DEF Insert

LEMMA OffloadedRowType ==
    ASSUME NEW kind \in Kinds
    PROVE  /\ OffloadedRow(kind) \in Row /\ FailedOffloadRow(kind) \in Row
           /\ OffloadedRow(kind).status = "PENDING"
           /\ OffloadedRow(kind).claimed_by = NoProc
           /\ ~FailedOffloadRow(kind).payload
BY AbsentIsRow DEF OffloadedRow, FailedOffloadRow, Fresh, Absent, Row, Active, Kinds

LEMMA RestartRowsType ==
    ASSUME NEW row \in Row, NEW g \in Procs, NEW r \in Tasks
    PROVE  /\ ReplacedRow(row, r) \in Row /\ ~ReplacedRow(row, r).payload
           /\ [Fresh EXCEPT !.claimed_by = g] \in Row
           /\ ~[Fresh EXCEPT !.claimed_by = g].payload
<1>1. FinishedRow(row, "FAILED") \in Row /\ ~FinishedRow(row, "FAILED").payload
  BY FinishedRowTame DEF Terminal
<1>2. ReplacedRow(row, r) \in Row /\ ~ReplacedRow(row, r).payload
  BY <1>1 DEF ReplacedRow, Row
<1>3. /\ [Fresh EXCEPT !.claimed_by = g] \in Row
      /\ ~[Fresh EXCEPT !.claimed_by = g].payload
  BY AbsentIsRow DEF Row
<1> QED BY <1>2, <1>3

LEMMA TypeInit == Init => TypeOK
<1> SUFFICES ASSUME Init PROVE TypeOK
  OBVIOUS
<1>1. rows \in [Tasks -> Row]
  BY AbsentIsRow DEF Init
<1>2. lease \in [holder: Procs \cup {NoProc}, fresh: BOOLEAN]
  BY DEF Init, NoLease
<1>3. /\ pc \in [Procs -> Labels] /\ sel \in [Procs -> Tasks \cup {NoTask}]
      /\ \A p \in Procs : pc[p] \in {"claim", "payload"} => sel[p] \in Tasks
  BY DEF Init, Labels
<1>4. created \in 0 .. MaxTasks /\ downs \in 0 .. MaxDowns
  BY BoundsAssumption DEF Init
<1>5. /\ job \in [Procs -> [Tasks -> Phases]]
      /\ handed \in [Tasks -> Nat] /\ origin \in [Tasks -> Tasks]
  BY DEF Init, Phases
<1> QED BY <1>1, <1>2, <1>3, <1>4, <1>5 DEF Init, TypeOK, Procs

\* What creates a row: the two submit endpoints share it.
LEMMA SubmitType ==
    ASSUME TypeOK, NEW g \in Gateways, NEW kind \in Kinds, NEW cut \in Nat,
           NEW phase \in Phases, created < MaxTasks,
           \/ Offload(g, created + 1, kind, cut)
           \/ RunHere(g, created + 1, kind, cut, phase)
    PROVE  /\ rows' \in [Tasks -> Row] /\ created + 1 \in Tasks
           /\ job' \in [Procs -> [Tasks -> Phases]]
           /\ running' = running /\ deaf' = deaf /\ local' \in SUBSET Tasks
           /\ handed' \in [Tasks -> Nat]
<1>1. created + 1 \in Tasks /\ rows \in [Tasks -> Row]
  BY BoundsAssumption DEF TypeOK, Tasks
<1>2. CASE Offload(g, created + 1, kind, cut)
  BY <1>1, <1>2, InsertType, OffloadedRowType DEF Offload, jobs, TypeOK
<1>3. CASE RunHere(g, created + 1, kind, cut, phase)
  <2>1. rows' \in [Tasks -> Row]
    BY <1>1, <1>3, InsertType, OffloadedRowType, AbsentIsRow DEF RunHere
  <2>2. /\ job' \in [Procs -> [Tasks -> Phases]]
        /\ handed' \in [Tasks -> Nat]
    BY <1>1, <1>3 DEF RunHere, TypeOK, Procs
  <2>3. running' = running /\ deaf' = deaf /\ local' \in SUBSET Tasks
    BY <1>1, <1>3 DEF RunHere, TypeOK
  <2> QED BY <1>1, <2>1, <2>2, <2>3
<1> QED BY <1>2, <1>3

LEMMA TypeStep == TypeOK /\ [Next]_vars => TypeOK'
<1> SUFFICES ASSUME TypeOK, [Next]_vars PROVE TypeOK'
  OBVIOUS
<1>0. rows \in [Tasks -> Row] /\ created \in 0 .. MaxTasks
  BY DEF TypeOK
<1> USE DEF table, procs, loop, jobs, history
<1>1. CASE LeaseExpires
  BY <1>1 DEF LeaseExpires, TypeOK
<1>2. ASSUME NEW g \in Gateways, DeployAdmit(g) PROVE TypeOK'
  BY <1>2 DEF DeployAdmit, TypeOK, Labels, Procs
<1>3. ASSUME NEW g \in Gateways, DeploySubmit(g) PROVE TypeOK'
  <2>1. PICK cut \in 0 .. MaxExpired :
           \/ Offload(g, created + 1, "deploy", cut)
           \/ RunHere(g, created + 1, "deploy", cut, "wait")
    BY <1>3 DEF DeploySubmit
  <2>2. created < MaxTasks /\ cut \in Nat
    BY <1>3, BoundsAssumption DEF DeploySubmit
  <2>3. /\ rows' \in [Tasks -> Row] /\ created + 1 \in Tasks
        /\ job' \in [Procs -> [Tasks -> Phases]]
        /\ running' = running /\ deaf' = deaf /\ local' \in SUBSET Tasks
        /\ handed' \in [Tasks -> Nat]
    BY <2>1, <2>2, SubmitType DEF Kinds, Phases
  <2> QED BY <1>3, <2>3 DEF DeploySubmit, TypeOK, Labels, Procs, Tasks
<1>4. ASSUME NEW g \in Gateways, NodeStep(g) PROVE TypeOK'
  <2>1. PICK cut \in 0 .. MaxExpired :
           \/ Offload(g, created + 1, "node-op", cut)
           \/ RunHere(g, created + 1, "node-op", cut, "run")
    BY <1>4 DEF NodeStep
  <2>2. created < MaxTasks /\ cut \in Nat
    BY <1>4, BoundsAssumption DEF NodeStep
  <2>3. /\ rows' \in [Tasks -> Row] /\ created + 1 \in Tasks
        /\ job' \in [Procs -> [Tasks -> Phases]]
        /\ running' = running /\ deaf' = deaf /\ local' \in SUBSET Tasks
        /\ handed' \in [Tasks -> Nat]
    BY <2>1, <2>2, SubmitType DEF Kinds, Phases
  <2> QED BY <1>4, <2>3 DEF NodeStep, TypeOK, Procs, Tasks
<1>5. ASSUME NEW g \in Gateways, NEW t \in Tasks, StopDeploy(g, t) PROVE TypeOK'
  <2>1. rows' \in [Tasks -> Row]
    BY <1>0, <1>5, CancelTame DEF StopDeploy, Tame
  <2>2. job' \in [Procs -> [Tasks -> Phases]]
    <3>1. CASE job' = [job EXCEPT ![g][t] = IF @ = "wait" THEN "unwait" ELSE "cancel"]
      BY <3>1 DEF TypeOK, Phases
    <3>2. CASE job' = job
      BY <3>2 DEF TypeOK
    <3> QED BY <1>5, <3>1, <3>2 DEF StopDeploy
  <2> QED BY <1>5, <2>1, <2>2 DEF StopDeploy, TypeOK
<1>6. ASSUME NEW g \in Gateways, NEW t \in Tasks, RestartDeploy(g, t) PROVE TypeOK'
  <2>1. created + 1 \in Tasks /\ g \in Procs
    BY <1>0, <1>6, BoundsAssumption DEF RestartDeploy, Tasks, Procs
  <2>2. rows' \in [Tasks -> Row]
    BY <1>0, <1>6, <2>1, RestartRowsType DEF RestartDeploy
  <2>3. /\ job' \in [Procs -> [Tasks -> Phases]]
        /\ handed' \in [Tasks -> Nat] /\ origin' \in [Tasks -> Tasks]
    BY <1>6, <2>1 DEF RestartDeploy, TypeOK, Phases
  <2>4. created' \in 0 .. MaxTasks /\ local' \in SUBSET Tasks
    BY <1>6, <2>1 DEF RestartDeploy, TypeOK, Tasks
  <2> QED BY <1>6, <2>2, <2>3, <2>4 DEF RestartDeploy, TypeOK
<1>7. ASSUME NEW p \in Procs, LoopTop(p) PROVE TypeOK'
  <2>1. lease' \in [holder: Procs \cup {NoProc}, fresh: BOOLEAN]
    <3>1. CASE lease' = [holder |-> p, fresh |-> TRUE]
      BY <3>1
    <3>2. CASE lease' = lease
      BY <3>2 DEF TypeOK
    <3> QED BY <1>7, <3>1, <3>2 DEF LoopTop
  <2> QED BY <1>7, <2>1 DEF LoopTop, Goto, TypeOK, Labels
<1>8. ASSUME NEW p \in Procs, ReapAlive(p) PROVE TypeOK'
  BY <1>8 DEF ReapAlive, Goto, TypeOK, Labels
<1>9. ASSUME NEW p \in Procs, ReapScan(p) PROVE TypeOK'
  BY <1>9 DEF ReapScan, Orphans, Goto, TypeOK, Labels
<1>10. ASSUME NEW p \in Procs, NEW t \in Tasks, ReapOne(p, t) PROVE TypeOK'
  <2>1. rows' \in [Tasks -> Row]
    BY <1>0, <1>10, FinishTame DEF ReapOne, Tame, Terminal
  <2> QED BY <1>10, <2>1 DEF ReapOne, Goto, TypeOK, Labels
<1>11. ASSUME NEW p \in Procs, ClaimSelect(p) PROVE TypeOK'
  <2>1. rows' \in [Tasks -> Row]
    BY <1>0, <1>11, FinishedRowTame DEF ClaimSelect, Terminal
  <2>2. /\ pc' \in [Procs -> Labels] /\ sel' \in [Procs -> Tasks \cup {NoTask}]
        /\ \A q \in Procs : pc'[q] \in {"claim", "payload"} => sel'[q] \in Tasks
    <3>1. CASE Claimable # {}
      <4>1. PICK t \in Tasks : sel' = [sel EXCEPT ![p] = t]
        BY <1>11, <3>1 DEF ClaimSelect
      <4>2. pc' = [pc EXCEPT ![p] = "claim"]
        BY <1>11, <3>1 DEF ClaimSelect, Goto
      <4> QED BY <4>1, <4>2 DEF TypeOK, Labels
    <3>2. CASE Claimable = {}
      BY <1>11, <3>2 DEF ClaimSelect, Goto, TypeOK, Labels
    <3> QED BY <3>1, <3>2
  <2> QED BY <1>11, <2>1, <2>2 DEF ClaimSelect, TypeOK
<1>12. ASSUME NEW p \in Procs, ClaimUpdate(p) PROVE TypeOK'
  <2>1. \A row \in Row : ClaimedRow(row, p) \in Row
    BY <1>12 DEF ClaimedRow, Row
  <2>2. rows' \in [Tasks -> Row]
    BY <1>0, <1>12, <2>1 DEF ClaimUpdate
  <2> QED BY <1>12, <2>2 DEF ClaimUpdate, Goto, TypeOK, Labels, NoTask
<1>13. ASSUME NEW p \in Procs, ClaimPayload(p) PROVE TypeOK'
  <2>1. sel[p] \in Tasks
    BY <1>13 DEF ClaimPayload, TypeOK
  <2>2. rows' \in [Tasks -> Row]
    BY <1>0, <1>13, <2>1, FinishTame DEF ClaimPayload, Tame, Terminal
  <2>3. /\ job' \in [Procs -> [Tasks -> Phases]]
        /\ running' \in [Procs -> SUBSET Tasks]
        /\ \A q \in Procs : running[q] \subseteq running'[q]
        /\ handed' \in [Tasks -> Nat]
    <3>1. CASE UNCHANGED <<job, running, handed>>
      BY <3>1 DEF TypeOK
    <3>2. CASE /\ job' = [job EXCEPT ![p][sel[p]] = "run"]
               /\ running' = [running EXCEPT ![p] = @ \cup {sel[p]}]
               /\ handed' = [handed EXCEPT ![sel[p]] = @ + 1]
      <4>1. job' \in [Procs -> [Tasks -> Phases]]
        BY <2>1, <3>2 DEF TypeOK, Phases
      <4>2. /\ running' \in [Procs -> SUBSET Tasks]
            /\ \A q \in Procs : running[q] \subseteq running'[q]
        BY <2>1, <3>2 DEF TypeOK
      <4>3. handed' \in [Tasks -> Nat]
        BY <2>1, <3>2 DEF TypeOK
      <4> QED BY <4>1, <4>2, <4>3
    <3> QED BY <1>13, <3>1, <3>2 DEF ClaimPayload
  <2>4. /\ pc' \in [Procs -> Labels] /\ sel' \in [Procs -> Tasks \cup {NoTask}]
        /\ \A q \in Procs : pc'[q] \in {"claim", "payload"} => sel'[q] \in Tasks
    BY <1>13 DEF ClaimPayload, Goto, TypeOK, Labels
  <2>5. UNCHANGED <<created, lease, up, used, stopping, downs, seen, victims, deaf, local,
                    origin>>
    BY <1>13 DEF ClaimPayload
  <2>6. \A q \in Procs : deaf[q] \subseteq running'[q]
    BY <2>3 DEF TypeOK
  <2> QED BY <2>2, <2>3, <2>4, <2>5, <2>6 DEF TypeOK
<1>14. ASSUME NEW p \in Procs, NEW t \in Tasks, JobEnter(p, t) PROVE TypeOK'
  BY <1>14 DEF JobEnter, TypeOK, Phases
<1>15. ASSUME NEW p \in Procs, NEW t \in Tasks, JobStep(p, t) PROVE TypeOK'
  BY <1>0, <1>15, SetStepTame DEF JobStep, Tame, TypeOK
<1>16. ASSUME NEW p \in Procs, NEW t \in Tasks, Leave(p, t)
       PROVE  /\ job' \in [Procs -> [Tasks -> Phases]]
              /\ running' \in [Procs -> SUBSET Tasks]
              /\ deaf' \in [Procs -> SUBSET Tasks]
              /\ \A q \in Procs : deaf'[q] \subseteq running'[q]
              /\ local' \in SUBSET Tasks
  BY <1>16 DEF Leave, TypeOK, Phases
<1>17. ASSUME NEW p \in Procs, NEW t \in Tasks, JobEnd(p, t) PROVE TypeOK'
  <2>1. rows' \in [Tasks -> Row]
    BY <1>0, <1>17, FinishTame, FinishIfOpenTame DEF JobEnd, Tame, Terminal
  <2> QED BY <1>16, <1>17, <2>1 DEF JobEnd, TypeOK
<1>18. ASSUME NEW p \in Procs, NEW t \in Tasks, WatchCancel(p, t) PROVE TypeOK'
  BY <1>18 DEF WatchCancel, TypeOK, Phases
<1>26. ASSUME NEW p \in Procs, NEW t \in Tasks, WatchFails(p, t) PROVE TypeOK'
  <2>1. /\ deaf' \in [Procs -> SUBSET Tasks]
        /\ \A q \in Procs : deaf'[q] \subseteq running[q]
    BY <1>26 DEF WatchFails, Watched, TypeOK
  <2> QED BY <1>26, <2>1 DEF WatchFails, TypeOK
<1>19. ASSUME NEW p \in Procs, NEW t \in Tasks, JobCancelled(p, t) PROVE TypeOK'
  <2>1. rows' \in [Tasks -> Row]
    BY <1>0, <1>19, FinishTame, FinishIfOpenTame DEF JobCancelled, Tame, Terminal
  <2> QED BY <1>16, <1>19, <2>1 DEF JobCancelled, TypeOK
<1>20. ASSUME NEW p \in Procs, Start(p) PROVE TypeOK'
  BY <1>20 DEF Start, TypeOK
<1>21. ASSUME NEW p \in Procs, Gone(p)
       PROVE  /\ up' \subseteq Procs /\ used' \subseteq Procs /\ stopping' \subseteq up'
              /\ pc' \in [Procs -> Labels]
              /\ seen' \in [Procs -> Procs \cup {NoProc}]
              /\ victims' \in [Procs -> SUBSET Tasks]
              /\ sel' \in [Procs -> Tasks \cup {NoTask}]
              /\ \A q \in Procs : pc'[q] \in {"claim", "payload"} => sel'[q] \in Tasks
              /\ job' \in [Procs -> [Tasks -> Phases]]
              /\ running' \in [Procs -> SUBSET Tasks]
              /\ deaf' \in [Procs -> SUBSET Tasks]
              /\ \A q \in Procs : deaf'[q] \subseteq running'[q]
              /\ local' \in SUBSET Tasks
              /\ UNCHANGED history
  <2>1. job' \in [Procs -> [Tasks -> Phases]]
    BY <1>21 DEF Gone, TypeOK, Phases
  <2>2. /\ pc' \in [Procs -> Labels]
        /\ sel' \in [Procs -> Tasks \cup {NoTask}]
        /\ \A q \in Procs : pc'[q] \in {"claim", "payload"} => sel'[q] \in Tasks
    BY <1>21 DEF Gone, TypeOK, Labels
  <2> QED BY <1>21, <2>1, <2>2 DEF Gone, TypeOK
<1>22. ASSUME NEW p \in Procs, Kill(p) PROVE TypeOK'
  <2>1. downs' \in 0 .. MaxDowns
    BY <1>22, BoundsAssumption DEF Kill, TypeOK
  <2> QED BY <1>21, <1>22, <2>1 DEF Kill, TypeOK
<1>23. ASSUME NEW p \in Procs, SigTerm(p) PROVE TypeOK'
  <2>1. downs' \in 0 .. MaxDowns
    BY <1>23, BoundsAssumption DEF SigTerm, TypeOK
  <2>2. job' \in [Procs -> [Tasks -> Phases]]
    BY <1>23 DEF SigTerm, TypeOK, Phases
  <2> QED BY <1>23, <2>1, <2>2 DEF SigTerm, TypeOK
<1>24. ASSUME NEW p \in Procs, ShutDown(p) PROVE TypeOK'
  <2>1. lease' \in [holder: Procs \cup {NoProc}, fresh: BOOLEAN]
    <3>1. NoLease \in [holder: Procs \cup {NoProc}, fresh: BOOLEAN]
      BY DEF NoLease
    <3> QED BY <1>24, <3>1 DEF ShutDown, TypeOK
  <2> QED BY <1>21, <1>24, <2>1 DEF ShutDown, TypeOK
<1>25. CASE UNCHANGED vars
  BY <1>25 DEF vars, TypeOK
<1> QED
  BY <1>1, <1>2, <1>3, <1>4, <1>5, <1>6, <1>7, <1>8, <1>9, <1>10, <1>11, <1>12,
     <1>13, <1>14, <1>15, <1>17, <1>18, <1>19, <1>20, <1>22, <1>23, <1>24, <1>25,
     <1>26
  DEF Next, Request, Loop, Job, Process, Procs

\* Every behaviour of the queue keeps its variables well typed.
THEOREM TypeCorrect == Spec => []TypeOK
<1>1. Init => TypeOK
  BY TypeInit
<1>2. TypeOK /\ [Next]_vars => TypeOK'
  BY TypeStep
<1> QED BY <1>1, <1>2, PTL DEF Spec

-----------------------------------------------------------------------------
(* Steps that hand out no ticket keep the invariant                         *)

\* A process that is not about to claim, or whose claim in progress is unchanged.
ClaimsKept == \A p \in Procs : \/ pc'[p] \notin {"claim", "payload"}
                               \/ pc'[p] = pc[p] /\ sel'[p] = sel[p]

LEMMA TameKeepsIInv ==
    ASSUME IInv, TypeOK', Tame, ClaimsKept, UNCHANGED <<created, handed, origin>>
    PROVE  IInv'
<1> USE DEF IInv
<1>1. \A t \in Tasks : rows'[t].payload =>
         /\ rows[t].payload
         /\ rows'[t].claimed_by = rows[t].claimed_by
         /\ rows'[t].status \in Active
  BY DEF Tame, TameRow, PayloadIsTheTicket
<1>2. \A t \in Tasks : rows[t] = Absent => rows'[t] = Absent
  BY DEF Tame, TameRow
<1>3. Unused'
  BY <1>2 DEF Unused
<1>4. PayloadIsTheTicket'
  <2>1. ASSUME NEW t \in Tasks, rows'[t].payload
        PROVE  /\ rows'[t].status \in Active
               /\ rows'[t].claimed_by = NoProc => handed'[t] = 0
               /\ \A u \in Tasks : origin'[u] = t => u = t
               /\ origin'[t] = t
    BY <1>1, <2>1 DEF PayloadIsTheTicket
  <2>2. ASSUME NEW p \in Procs, pc'[p] \in {"claim", "payload"}
        PROVE  /\ sel'[p] \in 1 .. created'
               /\ pc'[p] = "payload" /\ rows'[sel'[p]].payload =>
                    rows'[sel'[p]].claimed_by = p /\ handed'[sel'[p]] = 0
    <3>1. pc'[p] = pc[p] /\ sel'[p] = sel[p] /\ sel[p] \in 1 .. created
      BY <2>2 DEF ClaimsKept, PayloadIsTheTicket
    <3>2. sel[p] \in Tasks
      BY <3>1, BoundsAssumption DEF TypeOK, Tasks
    <3> QED BY <1>1, <2>2, <3>1, <3>2 DEF PayloadIsTheTicket
  <2> QED BY <2>1, <2>2 DEF PayloadIsTheTicket
<1>5. RunAtMostOnce'
  BY DEF RunAtMostOnce
<1> QED BY <1>3, <1>4, <1>5

LEMMA TaskIds ==
    ASSUME TypeOK
    PROVE  /\ created \in Nat /\ Tasks \subseteq Nat
           /\ \A t \in Tasks : t <= created \/ t > created
           /\ \A t \in 1 .. created : t \in Tasks /\ t <= created
           /\ \A t \in Tasks : t <= created => t \in 1 .. created
BY BoundsAssumption DEF TypeOK, Tasks

-----------------------------------------------------------------------------
(* Steps that make a row                                                    *)

\* The row a submission leaves is either a ticket that nobody has used, or a
\* row without one that this process runs itself.
LEMMA SubmitKeepsIInv ==
    ASSUME IInv, TypeOK', NEW g \in Gateways, NEW kind \in Kinds, NEW cut \in Nat,
           cut <= created, NEW phase, created < MaxTasks, created' = created + 1,
           \/ Offload(g, created + 1, kind, cut)
           \/ RunHere(g, created + 1, kind, cut, phase),
           origin' = [origin EXCEPT ![created + 1] = created + 1],
           ClaimsKept
    PROVE  IInv'
<1> DEFINE n == created + 1
<1> USE DEF IInv
<1>1. n \in Tasks /\ created \in Nat /\ Tasks \subseteq Nat
  BY BoundsAssumption DEF TypeOK, Tasks
<1>2. /\ origin[n] = n /\ handed[n] = 0 /\ rows[n] = Absent
      /\ \A u \in Tasks : origin[u] = n => u = n
  BY <1>1 DEF Unused, TypeOK
<1>3. PICK row \in Row :
        /\ Insert(n, row, cut)
        /\ row.payload => row.status = "PENDING" /\ handed' = handed
        /\ handed' = handed \/ handed' = [handed EXCEPT ![n] = @ + 1]
  <2>1. CASE Offload(g, n, kind, cut)
    BY <2>1, OffloadedRowType DEF Offload
  <2>2. CASE RunHere(g, n, kind, cut, phase)
    BY <2>2, OffloadedRowType, AbsentIsRow DEF RunHere
  <2> QED BY <2>1, <2>2
<1>4. /\ rows'[n] = row
      /\ \A u \in Tasks : u # n => rows'[u] = rows[u] \/ rows'[u] = Absent
      /\ \A u \in Tasks : u > n => rows'[u] = rows[u]
  <2>1. rows' = [u \in Tasks |-> IF u = n THEN row
                                 ELSE IF u \in 1 .. cut THEN Absent ELSE rows[u]]
    BY <1>3 DEF Insert, Expired
  <2>2. \A u \in Tasks : u > n => u \notin 1 .. cut
    BY <1>1
  <2> QED BY <1>1, <2>1, <2>2
<1>5. origin' = origin /\ \A u \in Tasks : u # n => handed'[u] = handed[u]
  BY <1>1, <1>2, <1>3 DEF TypeOK
<1>6. handed'[n] <= 1 /\ (row.payload => handed'[n] = 0)
  BY <1>1, <1>2, <1>3 DEF TypeOK
<1>7. Unused'
  <2>1. ASSUME NEW t \in Tasks, t > created'
        PROVE  rows'[t] = Absent /\ handed'[t] = 0 /\ origin'[t] = t
    <3>1. t > n /\ t # n /\ t > created
      BY <1>1, <2>1, TaskIds
    <3> QED BY <1>4, <1>5, <3>1 DEF Unused
  <2>2. ASSUME NEW t \in Tasks, t <= created' PROVE origin'[t] <= created'
    <3>1. t = n \/ t <= created
      BY <1>1, <2>2
    <3>2. origin[t] \in Nat
      BY <1>1 DEF TypeOK
    <3> QED BY <1>1, <1>2, <1>5, <3>1, <3>2 DEF Unused
  <2> QED BY <2>1, <2>2 DEF Unused
<1>8. PayloadIsTheTicket'
  <2>1. ASSUME NEW t \in Tasks, rows'[t].payload
        PROVE  /\ rows'[t].status \in Active
               /\ rows'[t].claimed_by = NoProc => handed'[t] = 0
               /\ \A u \in Tasks : origin'[u] = t => u = t
               /\ origin'[t] = t
    <3>1. CASE t = n
      BY <1>2, <1>3, <1>4, <1>5, <1>6, <2>1, <3>1 DEF Active
    <3>2. CASE t # n
      BY <1>4, <1>5, <2>1, <3>2, AbsentIsRow DEF PayloadIsTheTicket
    <3> QED BY <3>1, <3>2
  <2>2. ASSUME NEW p \in Procs, pc'[p] \in {"claim", "payload"}
        PROVE  /\ sel'[p] \in 1 .. created'
               /\ pc'[p] = "payload" /\ rows'[sel'[p]].payload =>
                    rows'[sel'[p]].claimed_by = p /\ handed'[sel'[p]] = 0
    <3>1. pc'[p] = pc[p] /\ sel'[p] = sel[p] /\ sel[p] \in 1 .. created
      BY <2>2 DEF ClaimsKept, PayloadIsTheTicket
    <3>2. sel[p] \in Tasks /\ sel[p] # n
      BY <1>1, <3>1, TaskIds
    <3> QED BY <1>1, <1>4, <1>5, <2>2, <3>1, <3>2, AbsentIsRow DEF PayloadIsTheTicket
  <2> QED BY <2>1, <2>2 DEF PayloadIsTheTicket
<1>9. RunAtMostOnce'
  BY <1>1, <1>2, <1>5, <1>6 DEF RunAtMostOnce, TypeOK
<1> QED BY <1>7, <1>8, <1>9

\* A restart takes the ticket away from t in the transaction that makes r.
LEMMA RestartKeepsIInv ==
    ASSUME IInv, TypeOK', NEW g \in Gateways, NEW t \in Tasks, RestartDeploy(g, t)
    PROVE  IInv'
<1> DEFINE r == created + 1
<1> USE DEF IInv
<1>1. r \in Tasks /\ created \in Nat /\ Tasks \subseteq Nat /\ g \in Procs
  BY BoundsAssumption DEF RestartDeploy, TypeOK, Tasks, Procs
<1>2. /\ origin[r] = r /\ handed[r] = 0 /\ rows[r] = Absent
      /\ \A u \in Tasks : origin[u] = r => u = r
  BY <1>1 DEF Unused, TypeOK
<1>3. /\ rows[t].payload /\ rows[t].claimed_by = NoProc /\ t # r /\ handed[t] = 0
      /\ \A u \in Tasks : origin[u] = t => u = t
      /\ t <= created
  BY <1>1, <1>2, AbsentIsRow DEF RestartDeploy, Waiting, PayloadIsTheTicket, Unused
<1>4. /\ ~rows'[t].payload /\ ~rows'[r].payload
      /\ \A u \in Tasks : u # t /\ u # r => rows'[u] = rows[u]
  <2>1. rows[t] \in Row
    BY DEF TypeOK
  <2>2. /\ ~ReplacedRow(rows[t], r).payload
        /\ ~[Fresh EXCEPT !.claimed_by = g].payload
    BY <1>1, <2>1, RestartRowsType
  <2>3. /\ rows'[t] = ReplacedRow(rows[t], r)
        /\ rows'[r] = [Fresh EXCEPT !.claimed_by = g]
        /\ \A u \in Tasks : u # t /\ u # r => rows'[u] = rows[u]
    BY <1>1, <1>3 DEF RestartDeploy, TypeOK
  <2> QED BY <2>2, <2>3
<1>5. /\ created' = r /\ pc' = pc /\ sel' = sel
      /\ handed'[r] = 1 /\ \A u \in Tasks : u # r => handed'[u] = handed[u]
      /\ origin'[r] = t /\ \A u \in Tasks : u # r => origin'[u] = origin[u]
  BY <1>1, <1>2 DEF RestartDeploy, TypeOK, loop
<1>6. Unused'
  <2>1. ASSUME NEW u \in Tasks, u > created'
        PROVE  rows'[u] = Absent /\ handed'[u] = 0 /\ origin'[u] = u
    <3>1. u > created /\ u # r /\ u # t
      BY <1>1, <1>3, <1>5, <2>1
    <3> QED BY <1>4, <1>5, <3>1 DEF Unused
  <2>2. ASSUME NEW u \in Tasks, u <= created' PROVE origin'[u] <= created'
    <3>1. u = r \/ u <= created
      BY <1>1, <1>5, <2>2
    <3>2. origin[u] \in Nat
      BY <1>1 DEF TypeOK
    <3> QED BY <1>1, <1>3, <1>5, <3>1, <3>2 DEF Unused
  <2> QED BY <2>1, <2>2 DEF Unused
<1>7. PayloadIsTheTicket'
  <2>1. ASSUME NEW u \in Tasks, rows'[u].payload
        PROVE  /\ rows'[u].status \in Active
               /\ rows'[u].claimed_by = NoProc => handed'[u] = 0
               /\ \A v \in Tasks : origin'[v] = u => v = u
               /\ origin'[u] = u
    BY <1>4, <1>5, <2>1 DEF PayloadIsTheTicket
  <2>2. ASSUME NEW p \in Procs, pc'[p] \in {"claim", "payload"}
        PROVE  /\ sel'[p] \in 1 .. created'
               /\ pc'[p] = "payload" /\ rows'[sel'[p]].payload =>
                    rows'[sel'[p]].claimed_by = p /\ handed'[sel'[p]] = 0
    <3>1. sel[p] \in 1 .. created /\ sel[p] \in Tasks /\ sel[p] # r
      <4>1. sel[p] \in 1 .. created
        BY <1>5, <2>2 DEF PayloadIsTheTicket
      <4> QED BY <1>1, <4>1, TaskIds
    <3> QED BY <1>1, <1>4, <1>5, <2>2, <3>1 DEF PayloadIsTheTicket
  <2> QED BY <2>1, <2>2 DEF PayloadIsTheTicket
<1>8. RunAtMostOnce'
  <2>1. \A u \in Tasks : handed'[u] <= 1
    BY <1>5 DEF RunAtMostOnce
  <2>2. ASSUME NEW u \in Tasks, NEW v \in Tasks,
               origin'[u] = origin'[v], handed'[u] > 0, handed'[v] > 0
        PROVE  u = v
    <3>1. CASE u # r /\ v # r
      BY <1>5, <2>2, <3>1 DEF RunAtMostOnce
    <3>2. ASSUME NEW w \in Tasks, w # r, origin'[w] = t PROVE ~(handed'[w] > 0)
      <4>1. w = t
        BY <1>3, <1>5, <3>2
      <4> QED BY <1>3, <1>5, <4>1
    <3> QED BY <1>1, <1>5, <2>2, <3>1, <3>2
  <2> QED BY <2>1, <2>2 DEF RunAtMostOnce
<1> QED BY <1>6, <1>7, <1>8

-----------------------------------------------------------------------------
(* The claim                                                                *)

LEMMA ClaimSelectKeepsIInv ==
    ASSUME IInv, TypeOK', NEW p \in Procs, ClaimSelect(p)
    PROVE  IInv'
<1> USE DEF IInv
<1>1. CASE Claimable = {}
  <2>1. Tame
    <3>1. \A t \in Tasks : rows[t] \in Row
      BY DEF TypeOK
    <3>2. \A t \in CancelledQueued : TameRow(rows[t], FinishedRow(rows[t], "FAILED"))
      BY <3>1, FinishedRowTame, AbsentIsRow
      DEF TameRow, CancelledQueued, Queued, Terminal
    <3> QED BY <1>1, <3>2 DEF ClaimSelect, Tame, TypeOK
  <2>2. ClaimsKept
    BY <1>1 DEF ClaimSelect, Goto, ClaimsKept, TypeOK
  <2> QED BY <1>1, <2>1, <2>2, TameKeepsIInv DEF ClaimSelect, history
<1>2. CASE Claimable # {}
  <2>1. PICK t \in Tasks : t \in Claimable /\ sel' = [sel EXCEPT ![p] = t]
    BY <1>2 DEF ClaimSelect, OldestClaimable
  <2>2. t \in 1 .. created
    <3>1. rows[t] # Absent
      BY <2>1, AbsentIsRow DEF Claimable, Queued
    <3> QED BY <3>1, TaskIds DEF Unused
  <2>3. /\ rows' = rows /\ pc' = [pc EXCEPT ![p] = "claim"]
        /\ UNCHANGED <<created, handed, origin>>
    BY <1>2 DEF ClaimSelect, Goto, history
  <2>4. Unused' /\ RunAtMostOnce'
    BY <2>3 DEF Unused, RunAtMostOnce
  <2>5. PayloadIsTheTicket'
    <3>1. ASSUME NEW q \in Procs, pc'[q] \in {"claim", "payload"}
          PROVE  /\ sel'[q] \in 1 .. created'
                 /\ pc'[q] = "payload" /\ rows'[sel'[q]].payload =>
                      rows'[sel'[q]].claimed_by = q /\ handed'[sel'[q]] = 0
      BY <2>1, <2>2, <2>3, <3>1 DEF PayloadIsTheTicket, TypeOK
    <3> QED BY <2>3, <3>1 DEF PayloadIsTheTicket
  <2> QED BY <2>4, <2>5
<1> QED BY <1>1, <1>2

\* The conditional UPDATE makes p the only process that may use the ticket.
LEMMA ClaimUpdateKeepsIInv ==
    ASSUME IInv, TypeOK', NEW p \in Procs, ClaimUpdate(p)
    PROVE  IInv'
<1> USE DEF IInv
<1> DEFINE t == sel[p]
<1>1. CASE ~(Exists(t) /\ rows[t].claimed_by = NoProc)
  <2>1. Tame /\ ClaimsKept
    BY <1>1 DEF ClaimUpdate, Goto, Tame, ClaimsKept, TypeOK
  <2> QED BY <1>1, <2>1, TameKeepsIInv DEF ClaimUpdate, history
<1>2. CASE Exists(t) /\ rows[t].claimed_by = NoProc
  <2>1. t \in 1 .. created /\ t \in Tasks
    BY DEF ClaimUpdate, PayloadIsTheTicket, TypeOK
  <2>2. /\ rows' = [rows EXCEPT ![t] = ClaimedRow(@, p)]
        /\ pc' = [pc EXCEPT ![p] = "payload"]
        /\ UNCHANGED <<created, handed, origin, sel>>
    BY <1>2 DEF ClaimUpdate, Goto, history
  <2>3. /\ rows'[t].claimed_by = p
        /\ rows'[t].payload = rows[t].payload /\ rows'[t].status = rows[t].status
        /\ \A u \in Tasks : u # t => rows'[u] = rows[u]
    BY ZenonT(40), <2>1, <2>2 DEF ClaimedRow, TypeOK, Row
  <2>4. Unused' /\ RunAtMostOnce'
    <3>1. \A u \in Tasks : u > created => u # t
      BY <2>1, TaskIds
    <3> QED BY <2>2, <2>3, <3>1 DEF Unused, RunAtMostOnce
  <2>5. PayloadIsTheTicket'
    <3>1. ASSUME NEW u \in Tasks, rows'[u].payload
          PROVE  /\ rows'[u].status \in Active
                 /\ rows'[u].claimed_by = NoProc => handed'[u] = 0
                 /\ \A v \in Tasks : origin'[v] = u => v = u
                 /\ origin'[u] = u
      BY <2>2, <2>3, <3>1, ProcsAssumption DEF PayloadIsTheTicket, Procs
    <3>2. ASSUME NEW q \in Procs, pc'[q] \in {"claim", "payload"}
          PROVE  /\ sel'[q] \in 1 .. created'
                 /\ pc'[q] = "payload" /\ rows'[sel'[q]].payload =>
                      rows'[sel'[q]].claimed_by = q /\ handed'[sel'[q]] = 0
      <4>1. CASE q = p
        BY <1>2, <2>1, <2>2, <2>3, <4>1 DEF PayloadIsTheTicket, TypeOK
      <4>2. CASE q # p
        <5>1. pc[q] = pc'[q] /\ sel[q] \in 1 .. created /\ sel[q] \in Tasks
          BY <2>2, <3>2, <4>2 DEF PayloadIsTheTicket, TypeOK
        <5>2. pc[q] = "payload" /\ rows[sel[q]].payload => sel[q] # t
          BY <1>2, <5>1, ProcsAssumption DEF PayloadIsTheTicket, Procs
        <5> QED BY <2>2, <2>3, <5>1, <5>2, ProcsAssumption DEF PayloadIsTheTicket
      <4> QED BY <4>1, <4>2
    <3> QED BY <3>1, <3>2 DEF PayloadIsTheTicket
  <2> QED BY <2>4, <2>5
<1> QED BY <1>1, <1>2

LEMMA ClaimPayloadKeepsIInv ==
    ASSUME IInv, TypeOK', NEW p \in Procs, ClaimPayload(p)
    PROVE  IInv'
<1> USE DEF IInv
<1> DEFINE t == sel[p]
<1>0. t \in 1 .. created /\ t \in Tasks /\ pc[p] = "payload"
  BY DEF ClaimPayload, PayloadIsTheTicket, TypeOK
<1>1. /\ pc' = [pc EXCEPT ![p] = "idle"] /\ sel' = [sel EXCEPT ![p] = NoTask]
      /\ UNCHANGED <<created, origin>>
  BY DEF ClaimPayload, Goto
<1>2. ClaimsKept
  BY <1>1 DEF ClaimsKept, TypeOK
<1>3. CASE ~rows[t].payload /\ Finish(t, "FAILED") /\ UNCHANGED handed
  <2>1. Tame
    BY <1>0, <1>3, FinishTame DEF TypeOK, Terminal
  <2> QED BY <1>1, <1>2, <1>3, <2>1, TameKeepsIInv
<1>4. CASE UNCHANGED <<rows, handed>>
  <2>1. Tame
    BY <1>4 DEF Tame, TypeOK
  <2> QED BY <1>1, <1>2, <1>4, <2>1, TameKeepsIInv
<1>5. CASE /\ rows[t].payload /\ UNCHANGED rows
           /\ handed' = [handed EXCEPT ![t] = @ + 1]
  <2>1. /\ rows[t].claimed_by = p /\ handed[t] = 0 /\ origin[t] = t
        /\ \A u \in Tasks : origin[u] = t => u = t
    BY <1>0, <1>5 DEF PayloadIsTheTicket
  <2>2. handed'[t] = 1 /\ \A u \in Tasks : u # t => handed'[u] = handed[u]
    BY <1>0, <1>5, <2>1 DEF TypeOK
  <2>3. Unused'
    <3>1. \A u \in Tasks : u > created => u # t
      BY <1>0, TaskIds
    <3> QED BY <1>1, <1>5, <2>2, <3>1 DEF Unused
  <2>4. RunAtMostOnce'
    BY <1>1, <2>1, <2>2 DEF RunAtMostOnce
  <2>5. PayloadIsTheTicket'
    <3>1. ASSUME NEW u \in Tasks, rows'[u].payload
          PROVE  /\ rows'[u].status \in Active
                 /\ rows'[u].claimed_by = NoProc => handed'[u] = 0
                 /\ \A v \in Tasks : origin'[v] = u => v = u
                 /\ origin'[u] = u
      BY <1>1, <1>5, <2>1, <2>2, <3>1, ProcsAssumption DEF PayloadIsTheTicket, Procs
    <3>2. ASSUME NEW q \in Procs, pc'[q] \in {"claim", "payload"}
          PROVE  /\ sel'[q] \in 1 .. created'
                 /\ pc'[q] = "payload" /\ rows'[sel'[q]].payload =>
                      rows'[sel'[q]].claimed_by = q /\ handed'[sel'[q]] = 0
      <4>1. q # p /\ pc'[q] = pc[q] /\ sel'[q] = sel[q] /\ sel[q] \in Tasks
        BY <1>1, <3>2 DEF TypeOK
      <4>2. pc[q] = "payload" /\ rows[sel[q]].payload => sel[q] # t
        BY <2>1, <4>1 DEF PayloadIsTheTicket
      <4> QED BY <1>1, <1>5, <2>2, <3>2, <4>1, <4>2 DEF PayloadIsTheTicket
    <3> QED BY <3>1, <3>2 DEF PayloadIsTheTicket
  <2> QED BY <2>3, <2>4, <2>5
<1> QED BY <1>3, <1>4, <1>5 DEF ClaimPayload

-----------------------------------------------------------------------------
(* The invariant                                                            *)

LEMMA IInvInit == Init => IInv
<1> SUFFICES ASSUME Init PROVE IInv
  OBVIOUS
<1>1. TypeOK
  BY TypeInit
<1>2. Unused
  BY DEF Init, Unused
<1>3. PayloadIsTheTicket
  BY AbsentIsRow DEF Init, PayloadIsTheTicket
<1>4. RunAtMostOnce
  BY DEF Init, RunAtMostOnce
<1> QED BY <1>1, <1>2, <1>3, <1>4 DEF IInv

LEMMA IInvStep == IInv /\ [Next]_vars => IInv'
<1> SUFFICES ASSUME IInv, [Next]_vars PROVE IInv'
  OBVIOUS
<1>0. TypeOK' /\ TypeOK /\ rows \in [Tasks -> Row]
  BY TypeStep DEF IInv, TypeOK
<1>a. rows' = rows => Tame
  BY <1>0 DEF Tame
<1>b. pc' = pc /\ sel' = sel => ClaimsKept
  BY DEF ClaimsKept
<1>c. ASSUME NEW p \in Procs, NEW label, label \notin {"claim", "payload"},
             pc' = [pc EXCEPT ![p] = label], sel' = sel
      PROVE  ClaimsKept
  BY <1>0, <1>c DEF ClaimsKept, TypeOK
<1> USE DEF table, procs, loop, jobs, history
<1>1. CASE LeaseExpires
  BY <1>0, <1>1, <1>a, <1>b, TameKeepsIInv DEF LeaseExpires
<1>2. ASSUME NEW g \in Gateways, DeployAdmit(g) PROVE IInv'
  BY <1>0, <1>2, <1>a, <1>c, TameKeepsIInv DEF DeployAdmit, Procs
<1>3. ASSUME NEW g \in Gateways, DeploySubmit(g) PROVE IInv'
  <2>1. PICK cut \in 0 .. MaxExpired :
           /\ cut <= created
           /\ \/ Offload(g, created + 1, "deploy", cut)
              \/ RunHere(g, created + 1, "deploy", cut, "wait")
    BY <1>3 DEF DeploySubmit
  <2>2. cut \in Nat
    BY BoundsAssumption
  <2>3. ClaimsKept
    BY <1>3, <1>c DEF DeploySubmit, Procs
  <2> QED BY <1>0, <1>3, <2>1, <2>2, <2>3, SubmitKeepsIInv DEF DeploySubmit, Kinds
<1>4. ASSUME NEW g \in Gateways, NodeStep(g) PROVE IInv'
  <2>1. PICK cut \in 0 .. MaxExpired :
           /\ cut <= created
           /\ \/ Offload(g, created + 1, "node-op", cut)
              \/ RunHere(g, created + 1, "node-op", cut, "run")
    BY <1>4 DEF NodeStep
  <2>2. cut \in Nat
    BY BoundsAssumption
  <2>3. ClaimsKept
    BY <1>4, <1>b DEF NodeStep
  <2> QED BY <1>0, <1>4, <2>1, <2>2, <2>3, SubmitKeepsIInv DEF NodeStep, Kinds
<1>5. ASSUME NEW g \in Gateways, NEW t \in Tasks, StopDeploy(g, t) PROVE IInv'
  <2>1. Tame
    BY <1>0, <1>5, <1>a, CancelTame DEF StopDeploy
  <2> QED BY <1>0, <1>5, <1>b, <2>1, TameKeepsIInv DEF StopDeploy
<1>6. ASSUME NEW g \in Gateways, NEW t \in Tasks, RestartDeploy(g, t) PROVE IInv'
  BY <1>0, <1>6, RestartKeepsIInv
<1>7. ASSUME NEW p \in Procs, LoopTop(p) PROVE IInv'
  <2>1. ClaimsKept
    BY <1>7, <1>c DEF LoopTop, Goto
  <2> QED BY <1>0, <1>7, <1>a, <2>1, TameKeepsIInv DEF LoopTop
<1>8. ASSUME NEW p \in Procs, ReapAlive(p) PROVE IInv'
  BY <1>0, <1>8, <1>a, <1>c, TameKeepsIInv DEF ReapAlive, Goto
<1>9. ASSUME NEW p \in Procs, ReapScan(p) PROVE IInv'
  <2>1. ClaimsKept
    BY <1>9, <1>c DEF ReapScan, Goto
  <2> QED BY <1>0, <1>9, <1>a, <2>1, TameKeepsIInv DEF ReapScan
<1>10. ASSUME NEW p \in Procs, NEW t \in Tasks, ReapOne(p, t) PROVE IInv'
  <2>1. Tame
    BY <1>0, <1>10, FinishTame DEF ReapOne, Terminal
  <2>2. ClaimsKept
    BY <1>10, <1>c DEF ReapOne, Goto
  <2> QED BY <1>0, <1>10, <2>1, <2>2, TameKeepsIInv DEF ReapOne
<1>11. ASSUME NEW p \in Procs, ClaimSelect(p) PROVE IInv'
  BY <1>0, <1>11, ClaimSelectKeepsIInv
<1>12. ASSUME NEW p \in Procs, ClaimUpdate(p) PROVE IInv'
  BY <1>0, <1>12, ClaimUpdateKeepsIInv
<1>13. ASSUME NEW p \in Procs, ClaimPayload(p) PROVE IInv'
  BY <1>0, <1>13, ClaimPayloadKeepsIInv
<1>14. ASSUME NEW p \in Procs, NEW t \in Tasks, Job(p, t) PROVE IInv'
  <2>1. Tame
    <3>1. CASE JobStep(p, t)
      BY <1>0, <3>1, SetStepTame DEF JobStep
    <3>2. CASE JobEnd(p, t)
      BY <1>0, <3>2, FinishTame, FinishIfOpenTame DEF JobEnd, Terminal
    <3>3. CASE JobCancelled(p, t)
      BY <1>0, <3>3, FinishTame, FinishIfOpenTame DEF JobCancelled, Terminal
    <3>4. CASE JobEnter(p, t) \/ WatchCancel(p, t) \/ WatchFails(p, t)
      BY <3>4, <1>a DEF JobEnter, WatchCancel, WatchFails
    <3> QED BY <1>14, <3>1, <3>2, <3>3, <3>4 DEF Job
  <2>2. UNCHANGED <<created, pc, sel, handed, origin>>
    BY <1>14 DEF Job, JobEnter, JobStep, JobEnd, WatchCancel, WatchFails, JobCancelled
  <2> QED BY <1>0, <1>b, <2>1, <2>2, TameKeepsIInv
<1>15. ASSUME NEW p \in Procs, Start(p) PROVE IInv'
  BY <1>0, <1>15, <1>a, <1>b, TameKeepsIInv DEF Start
<1>16. ASSUME NEW p \in Procs, Gone(p), UNCHANGED <<rows, created>> PROVE IInv'
  <2>1. ClaimsKept
    BY <1>0, <1>16 DEF Gone, ClaimsKept, TypeOK
  <2> QED BY <1>0, <1>16, <1>a, <2>1, TameKeepsIInv DEF Gone
<1>17. ASSUME NEW p \in Procs, Kill(p) \/ ShutDown(p) PROVE IInv'
  BY <1>16, <1>17 DEF Kill, ShutDown
<1>18. ASSUME NEW p \in Procs, SigTerm(p) PROVE IInv'
  BY <1>0, <1>18, <1>a, <1>b, TameKeepsIInv DEF SigTerm
<1>19. CASE UNCHANGED vars
  BY <1>0, <1>19, <1>a, <1>b, TameKeepsIInv DEF vars
<1> QED
  BY <1>1, <1>2, <1>3, <1>4, <1>5, <1>6, <1>7, <1>8, <1>9, <1>10, <1>11, <1>12,
     <1>13, <1>14, <1>15, <1>17, <1>18, <1>19
  DEF Next, Request, Loop, Process

LEMMA IInvAlways == Spec => []IInv
BY IInvInit, IInvStep, PTL DEF Spec

\* Whatever processes crash, restart, share an id or race: a submitted job is
\* handed to at most one runner, its restart replacement included.
THEOREM RunAtMostOnceHolds == Spec => []RunAtMostOnce
<1>1. IInv => RunAtMostOnce
  BY DEF IInv
<1> QED BY <1>1, IInvAlways, PTL

\* A readable payload is an unused ticket.
THEOREM TicketHolds == Spec => []PayloadIsTheTicket
<1>1. IInv => PayloadIsTheTicket
  BY DEF IInv
<1> QED BY <1>1, IInvAlways, PTL

\* Credentials never outlive the verdict.
THEOREM PayloadWipedHolds == Spec => []PayloadWiped
<1>1. IInv => PayloadWiped
  BY DEF IInv, PayloadIsTheTicket, PayloadWiped, Active, Terminal
<1> QED BY <1>1, IInvAlways, PTL

\* The queue hands out no job that has its verdict.
THEOREM NoStartAfterVerdictHolds == Spec => NoStartAfterVerdict
<1>1. ASSUME IInv, [Next]_vars, NEW t \in Tasks, handed'[t] > handed[t]
      PROVE  rows[t].status \notin Terminal
  <2> USE DEF table, procs, loop, jobs, history
  <2>0. TypeOK /\ handed[t] \in Nat
    BY <1>1 DEF IInv, TypeOK
  <2>1. UNCHANGED handed => FALSE
    BY <1>1, <2>0
  <2>2. rows[created + 1] = Absent \/ created + 1 \notin Tasks
    BY <1>1, <2>0, TaskIds DEF IInv, Unused
  <2>3. ASSUME NEW n \in Tasks, handed' = [handed EXCEPT ![n] = @ + 1] PROVE t = n
    BY <1>1, <2>0, <2>3 DEF TypeOK
  <2>4. ASSUME NEW g \in Gateways,
               DeploySubmit(g) \/ NodeStep(g) \/ \E u \in Tasks : RestartDeploy(g, u)
        PROVE  t = created + 1
    <3>1. created + 1 \in Tasks
      BY <2>0, <2>4, BoundsAssumption
      DEF DeploySubmit, NodeStep, RestartDeploy, TypeOK, Tasks
    <3>2. UNCHANGED handed \/ handed' = [handed EXCEPT ![created + 1] = @ + 1]
      BY <2>4 DEF DeploySubmit, NodeStep, RestartDeploy, Offload, RunHere
    <3> QED BY <2>1, <2>3, <3>1, <3>2
  <2>5. ASSUME NEW p \in Procs, ClaimPayload(p)
        PROVE  rows[t].status \in Active
    <3>1. rows[sel[p]].payload /\ handed' = [handed EXCEPT ![sel[p]] = @ + 1]
      BY <2>1, <2>5 DEF ClaimPayload
    <3>2. sel[p] \in Tasks
      BY <2>0, <2>5 DEF ClaimPayload, TypeOK
    <3>3. t = sel[p]
      BY <2>3, <3>1, <3>2
    <3> QED BY <1>1, <3>1, <3>2, <3>3 DEF IInv, PayloadIsTheTicket
  <2>6. CASE \E g \in Gateways :
               DeploySubmit(g) \/ NodeStep(g) \/ \E u \in Tasks : RestartDeploy(g, u)
    BY <2>2, <2>4, <2>6, AbsentIsRow DEF Terminal
  <2>7. CASE \E p \in Procs : ClaimPayload(p)
    BY <2>5, <2>7 DEF Active, Terminal
  <2>8. CASE /\ ~\E g \in Gateways :
                    DeploySubmit(g) \/ NodeStep(g) \/ \E u \in Tasks : RestartDeploy(g, u)
             /\ ~\E p \in Procs : ClaimPayload(p)
    <3>1. UNCHANGED handed
      BY <1>1, <2>8
      DEF Next, vars, Request, Loop, Job, Process, LeaseExpires, DeployAdmit, StopDeploy,
          LoopTop, ReapAlive, ReapScan, ReapOne, ClaimSelect, ClaimUpdate, JobEnter,
          JobStep, JobEnd, WatchCancel, WatchFails, JobCancelled, Start, Kill, Gone, SigTerm,
          ShutDown
    <3> QED BY <2>1, <3>1
  <2> QED BY <2>6, <2>7, <2>8
<1>2. IInv /\ [Next]_vars =>
        [\A t \in Tasks : handed'[t] > handed[t] => rows[t].status \notin Terminal]_vars
  BY <1>1
<1> QED BY <1>2, IInvAlways, PTL DEF Spec, NoStartAfterVerdict

-----------------------------------------------------------------------------
(* A job is in one process                                                  *)

\* Who has not been handed a ticket runs no job for it, and a row that nobody
\* claimed has a ticket nobody was handed; a claim in progress is for such a row.
Exclusive ==
    /\ \A t \in Tasks : handed[t] = 0 => \A p \in Procs : job[p][t] = "none"
    /\ \A p, q \in Procs, t \in Tasks : job[p][t] # "none" /\ job[q][t] # "none" => p = q
    /\ \A t \in Tasks : rows[t].kind # "" /\ rows[t].claimed_by = NoProc => handed[t] = 0
    /\ \A p \in Procs :
          /\ pc[p] = "claim" => rows[sel[p]] = Absent \/ rows[sel[p]].kind # ""
          /\ pc[p] = "payload" => /\ handed[sel[p]] = 0
                                  /\ rows[sel[p]] = Absent \/ rows[sel[p]].claimed_by = p

\* No row is claimed, and none gets a kind.
RowKept(old, new) ==
    \/ new = old \/ new = Absent
    \/ old # Absent /\ new.kind = old.kind /\ new.claimed_by = old.claimed_by

RowsKept == \A t \in Tasks : RowKept(rows[t], rows'[t])

\* No job begins.
JobsKept == \A p \in Procs, t \in Tasks : job'[p][t] # "none" => job[p][t] # "none"

LEMMA KeptExclusive ==
    ASSUME IInv, Exclusive, RowsKept, JobsKept, ClaimsKept, handed' = handed
    PROVE  Exclusive'
<1>1. ASSUME NEW p \in Procs, pc[p] \in {"claim", "payload"}
      PROVE  sel[p] \in Tasks
  BY <1>1 DEF IInv, TypeOK
<1>0. Absent.kind = ""
  BY DEF Absent
<1>2. ASSUME NEW t \in Tasks, rows'[t].kind # "", rows'[t].claimed_by = NoProc
      PROVE  handed[t] = 0
  <2>1. RowKept(rows[t], rows'[t])
    BY DEF RowsKept
  <2>2. rows[t].kind # "" /\ rows[t].claimed_by = NoProc
    BY <1>0, <1>2, <2>1 DEF RowKept
  <2> QED BY <2>2 DEF Exclusive
<1>3. ASSUME NEW p \in Procs, pc'[p] \in {"claim", "payload"}
      PROVE  /\ pc'[p] = "claim" => rows'[sel'[p]] = Absent \/ rows'[sel'[p]].kind # ""
             /\ pc'[p] = "payload" =>
                   /\ handed'[sel'[p]] = 0
                   /\ rows'[sel'[p]] = Absent \/ rows'[sel'[p]].claimed_by = p
  <2>1. pc'[p] = pc[p] /\ sel'[p] = sel[p] /\ sel[p] \in Tasks
    BY <1>1, <1>3 DEF ClaimsKept
  <2>2. RowKept(rows[sel[p]], rows'[sel[p]])
    BY <2>1 DEF RowsKept
  <2> QED BY <1>3, <2>1, <2>2 DEF RowKept, Exclusive
<1>4. /\ \A t \in Tasks : handed'[t] = 0 => \A p \in Procs : job'[p][t] = "none"
      /\ \A p, q \in Procs, t \in Tasks : job'[p][t] # "none" /\ job'[q][t] # "none" => p = q
  BY DEF JobsKept, Exclusive
<1> QED BY <1>2, <1>3, <1>4 DEF Exclusive

LEMMA RowWrites ==
    ASSUME NEW row \in Row
    PROVE  /\ \A v : /\ FinishedRow(row, v).kind = row.kind
                     /\ FinishedRow(row, v).claimed_by = row.claimed_by
           /\ SteppedRow(row).kind = row.kind /\ SteppedRow(row).claimed_by = row.claimed_by
           /\ SteppedRow(row).status = "RUNNING"
           /\ CancelledRow(row).kind = row.kind /\ CancelledRow(row).claimed_by = row.claimed_by
           /\ row.claimed_by # NoProc => CancelledRow(row).status = row.status
           /\ \A r : /\ ReplacedRow(row, r).kind = row.kind
                     /\ ReplacedRow(row, r).claimed_by = row.claimed_by
           /\ \A p : /\ ClaimedRow(row, p).kind = row.kind
                     /\ ClaimedRow(row, p).status = row.status
                     /\ ClaimedRow(row, p).claimed_by = p
<1>1. \A v : /\ FinishedRow(row, v).kind = row.kind
             /\ FinishedRow(row, v).claimed_by = row.claimed_by
  BY DEF Row, FinishedRow
<1>2. SteppedRow(row).kind = row.kind /\ SteppedRow(row).claimed_by = row.claimed_by
      /\ SteppedRow(row).status = "RUNNING"
  BY DEF Row, SteppedRow
<1>3. CancelledRow(row).kind = row.kind /\ CancelledRow(row).claimed_by = row.claimed_by
      /\ (row.claimed_by # NoProc => CancelledRow(row).status = row.status)
  BY DEF Row, FinishedRow, CancelledRow
<1>4. \A r : /\ ReplacedRow(row, r).kind = row.kind
             /\ ReplacedRow(row, r).claimed_by = row.claimed_by
  BY DEF Row, FinishedRow, ReplacedRow
<1>5. \A p : /\ ClaimedRow(row, p).kind = row.kind /\ ClaimedRow(row, p).status = row.status
             /\ ClaimedRow(row, p).claimed_by = p
  BY DEF Row, ClaimedRow
<1> QED BY <1>1, <1>2, <1>3, <1>4, <1>5

\* The statements that end a job, or note its step, are for a row that is there.
LEMMA WritesKeep ==
    ASSUME NEW t \in Tasks, rows \in [Tasks -> Row]
    PROVE  /\ \A v : Finish(t, v) => RowsKept /\ \A u \in Tasks \ {t} : rows'[u] = rows[u]
           /\ FinishIfOpen(t) => RowsKept /\ \A u \in Tasks \ {t} : rows'[u] = rows[u]
           /\ SetStep(t) => /\ RowsKept /\ \A u \in Tasks \ {t} : rows'[u] = rows[u]
                            /\ rows'[t].status = "RUNNING" \/ rows'[t] = rows[t]
<1>1. rows[t] \in Row
  OBVIOUS
<1>2. Exists(t) => rows[t] # Absent
  BY AbsentIsRow DEF Exists
<1>3. ASSUME NEW v, Finish(t, v)
      PROVE  RowsKept /\ \A u \in Tasks \ {t} : rows'[u] = rows[u]
  BY <1>1, <1>2, <1>3, RowWrites DEF Finish, Update, RowsKept, RowKept
<1>4. ASSUME FinishIfOpen(t)
      PROVE  RowsKept /\ \A u \in Tasks \ {t} : rows'[u] = rows[u]
  BY <1>3, <1>4 DEF FinishIfOpen, RowsKept, RowKept
<1>5. ASSUME SetStep(t)
      PROVE  /\ RowsKept /\ \A u \in Tasks \ {t} : rows'[u] = rows[u]
             /\ rows'[t].status = "RUNNING" \/ rows'[t] = rows[t]
  BY <1>1, <1>2, <1>5, RowWrites DEF SetStep, Update, RowsKept, RowKept
<1> QED BY <1>3, <1>4, <1>5

\* A submitted job is run by the process that took it, or waits for a claim.
LEMMA SubmitExclusive ==
    ASSUME IInv, Exclusive, NEW g \in Gateways, NEW kind \in Kinds, NEW cut \in Nat,
           NEW phase, created < MaxTasks, ClaimsKept,
           \/ Offload(g, created + 1, kind, cut)
           \/ RunHere(g, created + 1, kind, cut, phase)
    PROVE  /\ Exclusive'
           /\ \A u \in Tasks : rows[u].status \in Active => rows'[u] \in {rows[u], Absent}
<1> DEFINE n == created + 1
<1>0. TypeOK /\ g \in Procs
  BY DEF IInv, Procs
<1>1. n \in Tasks /\ created \in Nat /\ n > created
  BY <1>0, BoundsAssumption DEF TypeOK, Tasks
<1>2. handed[n] = 0 /\ rows[n] = Absent /\ \A p \in Procs : job[p][n] = "none"
  <2>1. handed[n] = 0 /\ rows[n] = Absent
    BY <1>1 DEF IInv, Unused
  <2> QED BY <1>1, <2>1 DEF Exclusive
<1>3. PICK row \in Row :
        /\ Insert(n, row, cut)
        /\ \/ job' = job /\ handed' = handed
           \/ /\ job' = [job EXCEPT ![g][n] = phase] /\ row.kind = ""
              /\ handed' = [handed EXCEPT ![n] = @ + 1]
  <2>1. CASE Offload(g, n, kind, cut)
    BY <2>1, OffloadedRowType DEF Offload, jobs
  <2>2. CASE RunHere(g, n, kind, cut, phase)
    <3>1. Fresh.kind = ""
      BY DEF Fresh, Absent
    <3> QED BY <2>2, <3>1, AbsentIsRow DEF RunHere, FailedOffloadRow
  <2> QED BY <2>1, <2>2
<1>4. rows'[n] = row /\ \A u \in Tasks \ {n} : rows'[u] \in {rows[u], Absent}
  BY <1>1, <1>3 DEF Insert
<1>5. ASSUME NEW p \in Procs, pc'[p] \in {"claim", "payload"}
      PROVE  pc'[p] = pc[p] /\ sel'[p] = sel[p] /\ sel[p] \in Tasks /\ sel[p] # n
  <2>1. pc'[p] = pc[p] /\ sel'[p] = sel[p] /\ pc[p] \in {"claim", "payload"}
    BY <1>5 DEF ClaimsKept
  <2>2. sel[p] \in 1 .. created /\ sel[p] \in Tasks
    BY <1>0, <2>1 DEF IInv, PayloadIsTheTicket, TypeOK
  <2> QED BY <1>1, <2>1, <2>2
<1>6. ASSUME NEW p \in Procs
      PROVE  /\ pc'[p] = "claim" => rows'[sel'[p]] = Absent \/ rows'[sel'[p]].kind # ""
             /\ pc'[p] = "payload" =>
                   /\ handed'[sel'[p]] = 0
                   /\ rows'[sel'[p]] = Absent \/ rows'[sel'[p]].claimed_by = p
  <2> SUFFICES ASSUME pc'[p] \in {"claim", "payload"}
               PROVE  /\ pc'[p] = "claim" => rows'[sel'[p]] = Absent \/ rows'[sel'[p]].kind # ""
                      /\ pc'[p] = "payload" =>
                            /\ handed'[sel'[p]] = 0
                            /\ rows'[sel'[p]] = Absent \/ rows'[sel'[p]].claimed_by = p
    OBVIOUS
  <2>1. pc'[p] = pc[p] /\ sel'[p] = sel[p] /\ sel[p] \in Tasks \ {n}
    BY <1>5
  <2>2. handed'[sel[p]] = handed[sel[p]]
    BY <1>0, <1>3, <2>1 DEF TypeOK
  <2>3. rows'[sel[p]] \in {rows[sel[p]], Absent}
    BY <1>4, <2>1
  <2>4. /\ pc[p] = "claim" => rows[sel[p]] = Absent \/ rows[sel[p]].kind # ""
        /\ pc[p] = "payload" => /\ handed[sel[p]] = 0
                                /\ rows[sel[p]] = Absent \/ rows[sel[p]].claimed_by = p
    BY DEF Exclusive
  <2> QED BY <2>1, <2>2, <2>3, <2>4
<1>7. Absent.kind = ""
  BY DEF Absent
<1>8. ASSUME NEW u \in Tasks, rows[u].status \in Active
       PROVE  rows'[u] \in {rows[u], Absent}
  BY <1>2, <1>4, <1>8, AbsentIsRow DEF Active
<1>9. CASE job' = job /\ handed' = handed
  <2>1. ASSUME NEW t \in Tasks, rows'[t].kind # "", rows'[t].claimed_by = NoProc
        PROVE  handed'[t] = 0
    <3>1. CASE t = n
      BY <1>2, <1>9, <3>1
    <3>2. CASE t # n
      BY <1>4, <1>7, <1>9, <2>1, <3>2 DEF Exclusive
    <3> QED BY <3>1, <3>2
  <2> QED BY <1>6, <1>8, <1>9, <2>1 DEF Exclusive
<1>10. CASE /\ job' = [job EXCEPT ![g][n] = phase] /\ row.kind = ""
           /\ handed' = [handed EXCEPT ![n] = @ + 1]
  <2>1. handed'[n] = 1
    <3>1. handed'[n] = handed[n] + 1
      BY <1>0, <1>1, <1>10 DEF TypeOK
    <3> QED BY <1>2, <3>1
  <2>2. \A u \in Tasks : u # n => handed'[u] = handed[u]
    BY <1>0, <1>10 DEF TypeOK
  <2>3. \A p \in Procs, u \in Tasks : u # n \/ p # g => job'[p][u] = job[p][u]
    BY <1>0, <1>1, <1>10 DEF TypeOK
  <2>4. ASSUME NEW t \in Tasks, rows'[t].kind # "", rows'[t].claimed_by = NoProc
        PROVE  handed'[t] = 0
    <3>1. t # n
      BY <1>4, <1>10, <2>4
    <3> QED BY <1>4, <1>7, <2>2, <2>4, <3>1 DEF Exclusive
  <2>5. ASSUME NEW t \in Tasks, handed'[t] = 0, NEW p \in Procs
        PROVE  job'[p][t] = "none"
    <3>1. t # n
      BY <2>1, <2>5
    <3> QED BY ZenonT(40), <2>2, <2>3, <2>5, <3>1 DEF Exclusive
  <2>6. ASSUME NEW p \in Procs, NEW q \in Procs, NEW t \in Tasks,
               job'[p][t] # "none", job'[q][t] # "none"
        PROVE  p = q
    <3>1. CASE t = n
      BY <1>2, <2>3, <2>6, <3>1
    <3>2. CASE t # n
      BY ZenonT(40), <2>3, <2>6, <3>2 DEF Exclusive
    <3> QED BY <3>1, <3>2
  <2> QED BY <1>6, <1>8, <2>4, <2>5, <2>6 DEF Exclusive
<1> QED BY <1>3, <1>9, <1>10

\* Nobody decides over a claimed job.
Undecided ==
    \A t \in Tasks : rows[t].status \in Active /\ rows[t].claimed_by # NoProc =>
        rows'[t].status \notin Terminal

\* What OnlyTheReaperInterferes says of one step.
OnlyReaped ==
    \A p \in Procs, t \in Tasks :
        /\ job[p][t] = "run" /\ job'[p][t] = "run"
        /\ rows[t].claimed_by # NoProc
        /\ rows[t].status \in Active /\ rows'[t].status \in Terminal
        => \E q \in Procs : t \in victims[q] \ victims'[q]

LEMMA UndecidedIsHarmless == ASSUME Undecided PROVE OnlyReaped
BY DEF Undecided, OnlyReaped

LEMMA RestartExclusive ==
    ASSUME IInv, Exclusive, NEW g \in Gateways, NEW t \in Tasks, RestartDeploy(g, t)
    PROVE  Exclusive' /\ Undecided
<1> DEFINE r == created + 1
<1>0. TypeOK /\ g \in Procs
  BY DEF IInv, Procs
<1>1. r \in Tasks /\ r > created
  BY <1>0, BoundsAssumption DEF RestartDeploy, TypeOK, Tasks
<1>2. handed[r] = 0 /\ rows[r] = Absent /\ \A p \in Procs : job[p][r] = "none"
  <2>1. handed[r] = 0 /\ rows[r] = Absent
    BY <1>1 DEF IInv, Unused
  <2> QED BY <1>1, <2>1 DEF Exclusive
<1>3. t # r /\ rows[t] # Absent /\ rows[t].claimed_by = NoProc /\ rows[t].kind = "deploy"
  BY <1>2, AbsentIsRow DEF RestartDeploy, Waiting
<1>4. [Fresh EXCEPT !.claimed_by = g].kind = "" /\ [Fresh EXCEPT !.claimed_by = g].status = "PENDING"
  BY DEF Fresh, Absent
<1>5. /\ rows'[r].kind = "" /\ rows'[r].status = "PENDING"
      /\ rows'[t] = ReplacedRow(rows[t], r)
      /\ \A u \in Tasks : u # r /\ u # t => rows'[u] = rows[u]
  BY <1>0, <1>1, <1>3, <1>4 DEF RestartDeploy, TypeOK
<1>6. rows'[t].kind = rows[t].kind /\ rows'[t].claimed_by = rows[t].claimed_by
  <2>1. rows[t] \in Row
    BY <1>0 DEF TypeOK
  <2>2. /\ ReplacedRow(rows[t], r).kind = rows[t].kind
        /\ ReplacedRow(rows[t], r).claimed_by = rows[t].claimed_by
    BY <2>1 DEF Row, FinishedRow, ReplacedRow
  <2> QED BY <1>5, <2>2
<1>7. handed'[r] = 1
  <2>1. handed'[r] = handed[r] + 1
    BY <1>0, <1>1 DEF RestartDeploy, TypeOK
  <2> QED BY <1>2, <2>1
<1>8. /\ \A u \in Tasks : u # r => handed'[u] = handed[u]
      /\ \A p \in Procs, u \in Tasks : u # r \/ p # g => job'[p][u] = job[p][u]
      /\ pc' = pc /\ sel' = sel
  BY <1>0, <1>1 DEF RestartDeploy, TypeOK, loop
<1>9. ASSUME NEW u \in Tasks, rows'[u].kind # "", rows'[u].claimed_by = NoProc
      PROVE  handed'[u] = 0
  BY ZenonT(40), <1>3, <1>5, <1>6, <1>8, <1>9 DEF Exclusive
<1>10. ASSUME NEW u \in Tasks, handed'[u] = 0, NEW p \in Procs
       PROVE  job'[p][u] = "none"
  <2> HIDE DEF r
  <2>1. u # r
    BY <1>7, <1>10
  <2>2. handed[u] = 0 /\ job'[p][u] = job[p][u]
    BY <1>8, <1>10, <2>1
  <2> QED BY <2>2 DEF Exclusive
<1>11. ASSUME NEW p \in Procs, NEW q \in Procs, NEW u \in Tasks,
              job'[p][u] # "none", job'[q][u] # "none"
       PROVE  p = q
  <2> HIDE DEF r
  <2>1. CASE u = r
    <3>1. \A x \in Procs : x # g => job'[x][r] = "none"
      BY <1>1, <1>2, <1>8
    <3> QED BY <1>11, <2>1, <3>1
  <2>2. CASE u # r
    <3>1. job[p][u] # "none" /\ job[q][u] # "none"
      BY <1>8, <1>11, <2>2
    <3> QED BY <3>1 DEF Exclusive
  <2> QED BY <2>1, <2>2
<1>12. ASSUME NEW p \in Procs, pc[p] \in {"claim", "payload"}
       PROVE  /\ pc[p] = "claim" => rows'[sel[p]] = Absent \/ rows'[sel[p]].kind # ""
              /\ pc[p] = "payload" => /\ handed'[sel[p]] = 0
                                      /\ rows'[sel[p]] = Absent \/ rows'[sel[p]].claimed_by = p
  <2>1. sel[p] \in 1 .. created /\ sel[p] \in Tasks
    BY <1>0, <1>12 DEF IInv, PayloadIsTheTicket, TypeOK
  <2>2. sel[p] # r
    BY <1>0, <1>1, <2>1 DEF TypeOK
  <2>3. /\ pc[p] = "claim" => rows[sel[p]] = Absent \/ rows[sel[p]].kind # ""
        /\ pc[p] = "payload" => /\ handed[sel[p]] = 0
                                /\ rows[sel[p]] = Absent \/ rows[sel[p]].claimed_by = p
    BY DEF Exclusive
  <2> QED BY <1>3, <1>5, <1>6, <1>8, <2>1, <2>2, <2>3
<1>13. Exclusive'
  BY <1>8, <1>9, <1>10, <1>11, <1>12 DEF Exclusive
<1>14. Undecided
  BY <1>2, <1>3, <1>5, AbsentIsRow DEF Undecided, Active, Terminal
<1> QED BY <1>13, <1>14

-----------------------------------------------------------------------------
(* The claim                                                                *)

LEMMA ClaimSelectExclusive ==
    ASSUME IInv, Exclusive, NEW p \in Procs, ClaimSelect(p)
    PROVE  Exclusive' /\ Undecided
<1>0. TypeOK /\ job' = job /\ handed' = handed
  BY DEF IInv, ClaimSelect, jobs, history
<1>1. CASE Claimable # {}
  <2>1. PICK t \in Tasks : OldestClaimable(t) /\ sel' = [sel EXCEPT ![p] = t]
    BY <1>1 DEF ClaimSelect
  <2>2. rows' = rows /\ pc' = [pc EXCEPT ![p] = "claim"]
    BY <1>1 DEF ClaimSelect, Goto
  <2>3. rows[t].kind # ""
    BY <2>1 DEF OldestClaimable, Claimable, Queued
  <2>4. \A q \in Procs : \/ q = p /\ pc'[q] = "claim" /\ sel'[q] = t
                         \/ q # p /\ pc'[q] = pc[q] /\ sel'[q] = sel[q]
    BY <1>0, <2>1, <2>2 DEF TypeOK
  <2>5. \A q \in Procs :
          /\ pc'[q] = "claim" => rows[sel'[q]] = Absent \/ rows[sel'[q]].kind # ""
          /\ pc'[q] = "payload" => /\ handed[sel'[q]] = 0
                                   /\ rows[sel'[q]] = Absent \/ rows[sel'[q]].claimed_by = q
    BY <2>3, <2>4 DEF Exclusive
  <2>6. Exclusive'
    BY <1>0, <2>2, <2>5 DEF Exclusive
  <2> QED BY <2>2, <2>6 DEF Undecided, Active, Terminal
<1>2. CASE Claimable = {}
  <2>1. /\ rows' = [t \in Tasks |-> IF t \in CancelledQueued THEN FinishedRow(rows[t], "FAILED")
                                    ELSE rows[t]]
        /\ pc' = [pc EXCEPT ![p] = "idle"] /\ sel' = sel
    BY <1>2 DEF ClaimSelect, Goto
  <2>2. ClaimsKept
    BY <1>0, <2>1 DEF ClaimsKept, TypeOK
  <2>3. \A t \in CancelledQueued : t \in Tasks /\ rows[t].claimed_by = NoProc /\ rows[t] # Absent
    BY AbsentIsRow DEF CancelledQueued, Queued
  <2>4. RowsKept
    BY <1>0, <2>1, <2>3, RowWrites DEF RowsKept, RowKept, TypeOK
  <2>5. JobsKept
    BY <1>0 DEF JobsKept
  <2>6. Exclusive'
    BY <1>0, <2>2, <2>4, <2>5, KeptExclusive
  <2> QED BY <2>1, <2>3, <2>6 DEF Undecided, Active, Terminal
<1> QED BY <1>1, <1>2

LEMMA ClaimUpdateExclusive ==
    ASSUME IInv, Exclusive, NEW p \in Procs, ClaimUpdate(p)
    PROVE  Exclusive' /\ Undecided
<1> DEFINE t == sel[p]
<1>0. /\ TypeOK /\ job' = job /\ handed' = handed
      /\ pc[p] = "claim" /\ t \in Tasks /\ rows[t] \in Row
  BY DEF IInv, ClaimUpdate, jobs, history, TypeOK
<1>1. CASE Exists(t) /\ rows[t].claimed_by = NoProc
  <2> DEFINE row == ClaimedRow(rows[t], p)
  <2>1. /\ rows' = [rows EXCEPT ![t] = row] /\ sel' = sel
        /\ pc' = [pc EXCEPT ![p] = "payload"]
    BY <1>1 DEF ClaimUpdate, Goto
  <2>2. /\ row.kind = rows[t].kind /\ row.status = rows[t].status /\ row.claimed_by = p
        /\ p # NoProc
    BY <1>0, RowWrites, ProcsAssumption DEF Procs
  <2>3. rows[t] # Absent /\ rows[t].kind # "" /\ handed[t] = 0
    <3>1. rows[t] # Absent
      BY <1>1, AbsentIsRow DEF Exists
    <3>2. rows[t].kind # ""
      BY <1>0, <3>1 DEF Exclusive
    <3> QED BY <1>0, <1>1, <3>1, <3>2 DEF Exclusive
  <2>4. rows'[t] = row /\ \A u \in Tasks : u # t => rows'[u] = rows[u]
    BY <1>0, <2>1 DEF TypeOK
  <2>5. \A q \in Procs : q # p => pc'[q] = pc[q]
    BY <1>0, <2>1 DEF TypeOK
  <2> HIDE DEF t, row
  <2>6. ASSUME NEW u \in Tasks, rows'[u].kind # "", rows'[u].claimed_by = NoProc
        PROVE  handed[u] = 0
    BY <2>2, <2>4, <2>6 DEF Exclusive
  <2>7. ASSUME NEW q \in Procs, pc'[q] = "claim"
        PROVE  rows'[sel[q]] = Absent \/ rows'[sel[q]].kind # ""
    <3>1. q # p /\ pc[q] = "claim"
      BY <1>0, <2>1, <2>5, <2>7 DEF TypeOK
    <3>2. sel[q] \in Tasks /\ (rows[sel[q]] = Absent \/ rows[sel[q]].kind # "")
      BY <1>0, <3>1 DEF TypeOK, Exclusive
    <3> QED BY <2>2, <2>3, <2>4, <3>2
  <2>8. ASSUME NEW q \in Procs, pc'[q] = "payload"
        PROVE  handed[sel[q]] = 0 /\ (rows'[sel[q]] = Absent \/ rows'[sel[q]].claimed_by = q)
    <3>1. CASE q = p
      BY <2>2, <2>3, <2>4, <3>1 DEF t
    <3>2. CASE q # p
      <4>1. sel[q] \in Tasks /\ handed[sel[q]] = 0
            /\ (rows[sel[q]] = Absent \/ rows[sel[q]].claimed_by = q)
        BY <1>0, <2>5, <2>8, <3>2 DEF TypeOK, Exclusive
      <4>2. q # NoProc
        BY ProcsAssumption DEF Procs
      <4>3. sel[q] # t
        BY <1>1, <2>3, <4>1, <4>2
      <4> QED BY <2>4, <4>1, <4>3
    <3> QED BY <3>1, <3>2
  <2>9. Exclusive'
    <3>1. \A q \in Procs :
            /\ pc'[q] = "claim" => rows'[sel'[q]] = Absent \/ rows'[sel'[q]].kind # ""
            /\ pc'[q] = "payload" => /\ handed'[sel'[q]] = 0
                                     /\ rows'[sel'[q]] = Absent \/ rows'[sel'[q]].claimed_by = q
      BY <1>0, <2>1, <2>7, <2>8
    <3>2. \A u \in Tasks : rows'[u].kind # "" /\ rows'[u].claimed_by = NoProc => handed'[u] = 0
      BY <1>0, <2>6
    <3> QED BY <1>0, <3>1, <3>2 DEF Exclusive
  <2>10. Undecided
    BY <2>2, <2>4 DEF Undecided, Active, Terminal
  <2> QED BY <2>9, <2>10
<1>2. CASE ~(Exists(t) /\ rows[t].claimed_by = NoProc)
  <2>1. /\ rows' = rows /\ sel' = [sel EXCEPT ![p] = NoTask]
        /\ pc' = [pc EXCEPT ![p] = "idle"]
    BY <1>2 DEF ClaimUpdate, Goto
  <2>2. ClaimsKept
    BY <1>0, <2>1 DEF ClaimsKept, TypeOK
  <2>3. RowsKept /\ JobsKept
    BY <1>0, <2>1 DEF RowsKept, RowKept, JobsKept
  <2>4. Exclusive'
    BY <1>0, <2>2, <2>3, KeptExclusive
  <2> QED BY <2>1, <2>4 DEF Undecided, Active, Terminal
<1> QED BY <1>1, <1>2

\* Nobody runs a job for a row whose ticket is only being read.
LEMMA ClaimPayloadExclusive ==
    ASSUME IInv, Exclusive, NEW p \in Procs, ClaimPayload(p)
    PROVE  Exclusive' /\ OnlyReaped
<1> DEFINE t == sel[p]
<1>0. /\ TypeOK /\ pc[p] = "payload" /\ t \in Tasks /\ rows[t] \in Row
      /\ pc' = [pc EXCEPT ![p] = "idle"] /\ sel' = [sel EXCEPT ![p] = NoTask]
  BY DEF IInv, ClaimPayload, Goto, TypeOK
<1>1. ClaimsKept
  BY <1>0 DEF ClaimsKept, TypeOK
<1>2. /\ handed[t] = 0 /\ (rows[t] = Absent \/ rows[t].claimed_by = p)
      /\ \A q \in Procs : job[q][t] = "none"
  BY <1>0 DEF Exclusive
<1>3. CASE /\ rows[t].payload /\ job' = [job EXCEPT ![p][t] = "run"]
           /\ handed' = [handed EXCEPT ![t] = @ + 1] /\ rows' = rows
  <2>1. handed'[t] = 1
    <3>1. handed'[t] = handed[t] + 1
      BY <1>0, <1>3 DEF TypeOK
    <3> QED BY <1>2, <3>1
  <2>2. /\ \A u \in Tasks : u # t => handed'[u] = handed[u]
        /\ \A q \in Procs, u \in Tasks : u # t \/ q # p => job'[q][u] = job[q][u]
    BY <1>0, <1>3 DEF TypeOK
  <2>3. rows[t] # Absent /\ rows[t].claimed_by = p /\ p # NoProc
    BY <1>2, <1>3, AbsentIsRow, ProcsAssumption DEF Procs
  <2> HIDE DEF t
  <2>4. ASSUME NEW u \in Tasks, rows[u].kind # "", rows[u].claimed_by = NoProc
        PROVE  handed'[u] = 0
    <3>1. u # t
      BY <2>3, <2>4
    <3> QED BY <2>2, <2>4, <3>1 DEF Exclusive
  <2>5. ASSUME NEW u \in Tasks, handed'[u] = 0, NEW q \in Procs
        PROVE  job'[q][u] = "none"
    <3>1. u # t
      BY <2>1, <2>5
    <3>2. handed[u] = 0 /\ job'[q][u] = job[q][u]
      BY <2>2, <2>5, <3>1
    <3> QED BY <3>2 DEF Exclusive
  <2>6. ASSUME NEW q \in Procs, NEW s \in Procs, NEW u \in Tasks,
               job'[q][u] # "none", job'[s][u] # "none"
        PROVE  q = s
    <3>1. CASE u = t
      <4>1. \A x \in Procs : x # p => job'[x][t] = "none"
        BY <1>0, <1>2, <2>2
      <4> QED BY <2>6, <3>1, <4>1
    <3>2. CASE u # t
      <4>1. job[q][u] # "none" /\ job[s][u] # "none"
        BY <2>2, <2>6, <3>2
      <4> QED BY <4>1 DEF Exclusive
    <3> QED BY <3>1, <3>2
  <2>7. ASSUME NEW q \in Procs, pc'[q] \in {"claim", "payload"}
        PROVE  /\ pc'[q] = "claim" => rows[sel'[q]] = Absent \/ rows[sel'[q]].kind # ""
               /\ pc'[q] = "payload" => /\ handed'[sel'[q]] = 0
                                        /\ rows[sel'[q]] = Absent \/ rows[sel'[q]].claimed_by = q
    <3>1. pc'[q] = pc[q] /\ sel'[q] = sel[q] /\ sel[q] \in Tasks /\ q # p
      BY <1>0, <1>1, <2>7 DEF ClaimsKept, TypeOK
    <3>2. /\ pc[q] = "claim" => rows[sel[q]] = Absent \/ rows[sel[q]].kind # ""
          /\ pc[q] = "payload" => /\ handed[sel[q]] = 0
                                  /\ rows[sel[q]] = Absent \/ rows[sel[q]].claimed_by = q
      BY DEF Exclusive
    <3>3. pc[q] = "payload" => sel[q] # t
      BY <2>3, <3>1, <3>2
    <3> QED BY <2>2, <3>1, <3>2, <3>3
  <2>8. Exclusive'
    BY ZenonT(40), <1>3, <2>4, <2>5, <2>6, <2>7 DEF Exclusive
  <2> QED BY <1>3, <2>8 DEF OnlyReaped, Active, Terminal
<1>4. CASE /\ rows' = rows \/ Finish(t, "FAILED")
           /\ job' = job /\ handed' = handed
  <2>1. RowsKept /\ \A u \in Tasks \ {t} : rows'[u] = rows[u]
    <3>1. CASE rows' = rows
      BY <3>1 DEF RowsKept, RowKept
    <3>2. CASE Finish(t, "FAILED")
      BY <1>0, <3>2, WritesKeep DEF TypeOK
    <3> QED BY <1>4, <3>1, <3>2
  <2>2. JobsKept
    BY <1>4 DEF JobsKept
  <2>3. Exclusive'
    BY <1>1, <1>4, <2>1, <2>2, KeptExclusive
  <2>4. OnlyReaped
    BY <1>2, <2>1 DEF OnlyReaped, Active, Terminal
  <2> QED BY <2>3, <2>4
<1> QED BY <1>3, <1>4 DEF ClaimPayload

-----------------------------------------------------------------------------
(* Every step                                                               *)

\* Only the job's own process, or the reaper, ends the row of a running job.
LEMMA JobExclusive ==
    ASSUME IInv, Exclusive, NEW p \in Procs, NEW t \in Tasks, Job(p, t)
    PROVE  Exclusive' /\ OnlyReaped
<1>0. TypeOK /\ pc' = pc /\ sel' = sel /\ handed' = handed
  BY DEF IInv, Job, JobEnter, JobStep, JobEnd, WatchCancel, WatchFails, JobCancelled,
         loop, history
<1>1. ClaimsKept /\ rows \in [Tasks -> Row]
  BY <1>0 DEF ClaimsKept, TypeOK
<1>5. CASE WatchFails(p, t)
  <2>1. rows' = rows /\ job' = job
    BY <1>5 DEF WatchFails, table
  <2>2. JobsKept /\ RowsKept /\ Undecided
    BY <2>1 DEF JobsKept, RowsKept, RowKept, Undecided, Active, Terminal
  <2> QED BY <1>0, <1>1, <2>2, KeptExclusive, UndecidedIsHarmless
<1>2. CASE JobEnter(p, t) \/ WatchCancel(p, t)
  <2>1. rows' = rows /\ job[p][t] # "none"
        /\ \E phase : job' = [job EXCEPT ![p][t] = phase]
    BY <1>2 DEF JobEnter, WatchCancel, Watched, table
  <2>2. JobsKept /\ RowsKept
    BY <1>0, <2>1 DEF JobsKept, RowsKept, RowKept, TypeOK
  <2>3. Undecided
    BY <2>1 DEF Undecided, Active, Terminal
  <2> QED BY <1>0, <1>1, <2>2, <2>3, KeptExclusive, UndecidedIsHarmless
<1>3. CASE JobStep(p, t)
  <2>1. SetStep(t) /\ job' = job
    BY <1>3 DEF JobStep, jobs
  <2>2. /\ RowsKept /\ \A u \in Tasks \ {t} : rows'[u] = rows[u]
        /\ rows'[t].status = "RUNNING" \/ rows'[t] = rows[t]
    BY <1>1, <2>1, WritesKeep
  <2>3. JobsKept
    BY <2>1 DEF JobsKept
  <2>4. Undecided
    BY <2>2 DEF Undecided, Active, Terminal
  <2> QED BY <1>0, <1>1, <2>2, <2>3, <2>4, KeptExclusive, UndecidedIsHarmless
<1>4. CASE JobEnd(p, t) \/ JobCancelled(p, t)
  <2>1. job[p][t] # "none" /\ job' = [job EXCEPT ![p][t] = "none"]
    BY <1>4 DEF JobEnd, JobCancelled, Leave
  <2>2. RowsKept /\ \A u \in Tasks \ {t} : rows'[u] = rows[u]
    <3>1. (\E v : Finish(t, v)) \/ FinishIfOpen(t)
      BY <1>4 DEF JobEnd, JobCancelled
    <3> QED BY <1>1, <3>1, WritesKeep
  <2>3. /\ job'[p][t] = "none"
        /\ \A q \in Procs, u \in Tasks : job'[q][u] # "none" => job[q][u] # "none"
    BY <1>0, <2>1 DEF TypeOK
  <2>4. JobsKept
    BY <2>3 DEF JobsKept
  <2>5. ASSUME NEW q \in Procs, NEW u \in Tasks, job[q][u] = "run", job'[q][u] = "run",
               rows[u].status \in Active, rows'[u].status \in Terminal
        PROVE  FALSE
    <3>1. u = t
      BY <2>2, <2>5 DEF Active, Terminal
    <3>2. q = p
      BY <2>1, <2>5, <3>1 DEF Exclusive
    <3> QED BY <2>3, <2>5, <3>1, <3>2
  <2>6. OnlyReaped
    BY <2>5 DEF OnlyReaped
  <2> QED BY <1>0, <1>1, <2>2, <2>4, <2>6, KeptExclusive
<1> QED BY <1>2, <1>3, <1>4, <1>5 DEF Job

LEMMA ReapExclusive ==
    ASSUME IInv, Exclusive, NEW p \in Procs, NEW t \in Tasks, ReapOne(p, t)
    PROVE  Exclusive' /\ OnlyReaped
<1>0. TypeOK /\ sel' = sel /\ handed' = handed /\ job' = job
      /\ pc' = [pc EXCEPT ![p] = IF victims[p] = {t} THEN "select" ELSE "reap"]
  BY DEF IInv, ReapOne, Goto, jobs, history
<1>1. ClaimsKept
  BY <1>0 DEF ClaimsKept, TypeOK
<1>2. RowsKept /\ \A u \in Tasks \ {t} : rows'[u] = rows[u]
  BY <1>0, WritesKeep DEF ReapOne, TypeOK
<1>3. t \in victims[p] \ victims'[p]
  BY <1>0 DEF ReapOne, TypeOK
<1>4. OnlyReaped
  BY <1>2, <1>3 DEF OnlyReaped, Active, Terminal
<1>5. JobsKept
  BY <1>0 DEF JobsKept
<1> QED BY <1>0, <1>1, <1>2, <1>4, <1>5, KeptExclusive

LEMMA StopExclusive ==
    ASSUME IInv, Exclusive, NEW g \in Gateways, NEW t \in Tasks, StopDeploy(g, t)
    PROVE  Exclusive' /\ OnlyReaped
<1>0. TypeOK /\ sel' = sel /\ handed' = handed /\ pc' = pc /\ g \in Procs
  BY DEF IInv, StopDeploy, loop, history, Procs
<1>1. ClaimsKept
  BY <1>0 DEF ClaimsKept
<1>2. CASE /\ job[g][t] \in {"wait", "run"} /\ rows' = rows
           /\ job' = [job EXCEPT ![g][t] = IF @ = "wait" THEN "unwait" ELSE "cancel"]
  <2>1. JobsKept /\ RowsKept
    BY <1>0, <1>2 DEF JobsKept, RowsKept, RowKept, TypeOK
  <2>2. Undecided
    BY <1>2 DEF Undecided, Active, Terminal
  <2> QED BY <1>0, <1>1, <2>1, <2>2, KeptExclusive, UndecidedIsHarmless
<1>3. CASE /\ rows[t].status \in Active /\ job' = job
           /\ rows' = [rows EXCEPT ![t] = CancelledRow(@)]
  <2>1. rows[t] \in Row /\ rows[t] # Absent
    BY <1>0, <1>3, AbsentIsRow DEF TypeOK, Active
  <2>2. /\ CancelledRow(rows[t]).kind = rows[t].kind
        /\ CancelledRow(rows[t]).claimed_by = rows[t].claimed_by
        /\ rows[t].claimed_by # NoProc => CancelledRow(rows[t]).status = rows[t].status
    BY <2>1, RowWrites
  <2>3. rows'[t] = CancelledRow(rows[t]) /\ \A u \in Tasks : u # t => rows'[u] = rows[u]
    BY <1>0, <1>3 DEF TypeOK
  <2>4. RowsKept /\ JobsKept
    BY <1>3, <2>1, <2>2, <2>3 DEF RowsKept, RowKept, JobsKept
  <2>5. Undecided
    BY <2>2, <2>3 DEF Undecided, Active, Terminal
  <2> QED BY <1>0, <1>1, <2>4, <2>5, KeptExclusive, UndecidedIsHarmless
<1> QED BY <1>2, <1>3 DEF StopDeploy

\* A step that writes no row and begins no job.
LEMMA QuietExclusive ==
    ASSUME IInv, Exclusive, rows' = rows, handed' = handed, JobsKept, ClaimsKept
    PROVE  Exclusive' /\ OnlyReaped
<1>1. RowsKept
  BY DEF RowsKept, RowKept
<1>2. Undecided
  BY DEF Undecided, Active, Terminal
<1> QED BY <1>1, <1>2, KeptExclusive, UndecidedIsHarmless

LEMMA ExclusiveInit == Init => Exclusive
<1> SUFFICES ASSUME Init PROVE Exclusive
  OBVIOUS
<1>1. /\ \A p \in Procs : pc[p] = "idle" /\ \A t \in Tasks : job[p][t] = "none"
      /\ \A t \in Tasks : handed[t] = 0
  BY DEF Init
<1> QED BY <1>1 DEF Exclusive

LEMMA ExclusiveStep ==
    ASSUME IInv, Exclusive, [Next]_vars
    PROVE  Exclusive' /\ OnlyReaped
<1>0. TypeOK
  BY DEF IInv
<1>a. job' = job => JobsKept
  BY DEF JobsKept
<1>b. pc' = pc /\ sel' = sel => ClaimsKept
  BY DEF ClaimsKept
<1>c. ASSUME NEW p \in Procs, NEW label, label \notin {"claim", "payload"},
             pc' = [pc EXCEPT ![p] = label], sel' = sel
      PROVE  ClaimsKept
  BY <1>0, <1>c DEF ClaimsKept, TypeOK
<1>1. CASE LeaseExpires
  BY <1>1, <1>a, <1>b, QuietExclusive DEF LeaseExpires, loop, jobs, history
<1>2. ASSUME NEW g \in Gateways, DeployAdmit(g)
      PROVE  Exclusive' /\ OnlyReaped
  <2>1. ClaimsKept
    BY <1>2, <1>c DEF DeployAdmit, Procs
  <2> QED BY <1>2, <1>a, <2>1, QuietExclusive DEF DeployAdmit, table, jobs, history
<1>3. ASSUME NEW g \in Gateways, DeploySubmit(g) \/ NodeStep(g)
      PROVE  Exclusive' /\ OnlyReaped
  <2>1. PICK kind \in Kinds, cut \in Nat, phase \in Phases :
          \/ Offload(g, created + 1, kind, cut)
          \/ RunHere(g, created + 1, kind, cut, phase)
    <3>1. 0 .. MaxExpired \subseteq Nat /\ {"wait", "run"} \subseteq Phases
      BY BoundsAssumption DEF Phases
    <3>2. CASE DeploySubmit(g)
      BY <3>1, <3>2 DEF DeploySubmit, Kinds
    <3>3. CASE NodeStep(g)
      BY <3>1, <3>3 DEF NodeStep, Kinds
    <3> QED BY <1>3, <3>2, <3>3
  <2>2. ClaimsKept
    BY <1>3, <1>b, <1>c DEF DeploySubmit, NodeStep, loop, Procs
  <2>3. created < MaxTasks
    BY <1>3 DEF DeploySubmit, NodeStep
  <2>4. Exclusive' /\ \A u \in Tasks : rows[u].status \in Active => rows'[u] \in {rows[u], Absent}
    BY <2>1, <2>2, <2>3, SubmitExclusive
  <2>5. Undecided
    BY <2>4, AbsentIsRow DEF Undecided, Active, Terminal
  <2> QED BY <2>4, <2>5, UndecidedIsHarmless
<1>4. ASSUME NEW g \in Gateways, NEW t \in Tasks, StopDeploy(g, t) \/ RestartDeploy(g, t)
      PROVE  Exclusive' /\ OnlyReaped
  BY <1>4, StopExclusive, RestartExclusive, UndecidedIsHarmless
<1>5. ASSUME NEW p \in Procs, LoopTop(p) \/ ReapAlive(p) \/ ReapScan(p)
      PROVE  Exclusive' /\ OnlyReaped
  <2>1. PICK label \in {"alive", "idle", "scan", "select", "reap"} :
          pc' = [pc EXCEPT ![p] = label]
    BY <1>5 DEF LoopTop, ReapAlive, ReapScan, Goto
  <2>2. sel' = sel /\ rows' = rows /\ job' = job /\ handed' = handed
    BY <1>5 DEF LoopTop, ReapAlive, ReapScan, table, jobs, history
  <2>3. ClaimsKept
    BY <1>c, <2>1, <2>2
  <2> QED BY <1>a, <2>2, <2>3, QuietExclusive
<1>6. ASSUME NEW p \in Procs, NEW t \in Tasks, ReapOne(p, t) \/ Job(p, t)
      PROVE  Exclusive' /\ OnlyReaped
  BY <1>6, ReapExclusive, JobExclusive
<1>7. ASSUME NEW p \in Procs, ClaimSelect(p) \/ ClaimUpdate(p) \/ ClaimPayload(p)
      PROVE  Exclusive' /\ OnlyReaped
  BY <1>7, ClaimSelectExclusive, ClaimUpdateExclusive, ClaimPayloadExclusive,
     UndecidedIsHarmless
<1>8. ASSUME NEW p \in Procs, Start(p) \/ SigTerm(p)
      PROVE  Exclusive' /\ OnlyReaped
  <2>1. pc' = pc /\ sel' = sel /\ rows' = rows /\ handed' = handed
    BY <1>8 DEF Start, SigTerm, table, loop, history
  <2>2. JobsKept
    <3>1. CASE Start(p)
      BY <1>a, <3>1 DEF Start, jobs
    <3>2. CASE SigTerm(p)
      BY <1>0, <3>2 DEF SigTerm, JobsKept, TypeOK
    <3> QED BY <1>8, <3>1, <3>2
  <2> QED BY <1>b, <2>1, <2>2, QuietExclusive
<1>9. ASSUME NEW p \in Procs, Kill(p) \/ ShutDown(p)
      PROVE  Exclusive' /\ OnlyReaped
  <2>1. Gone(p) /\ rows' = rows
    BY <1>9 DEF Kill, ShutDown, table
  <2>2. ClaimsKept
    BY <1>0, <2>1 DEF Gone, ClaimsKept, TypeOK
  <2>3. JobsKept
    BY <1>0, <2>1 DEF Gone, JobsKept, TypeOK
  <2> QED BY <2>1, <2>2, <2>3, QuietExclusive DEF Gone, history
<1>10. CASE UNCHANGED vars
  BY <1>10, <1>a, <1>b, QuietExclusive DEF vars, table, loop, jobs, history
<1> QED
  BY <1>1, <1>2, <1>3, <1>4, <1>5, <1>6, <1>7, <1>8, <1>9, <1>10
  DEF Next, Request, Loop, Process

\* A job is in one process at most, and while that process runs it only the
\* UPDATE of reap_orphans ends its claimed row from outside: a stop, a restart,
\* a claim, a cleanup of cancelled rows and another process's jobs never do.
THEOREM OnlyTheReaperInterferesHolds == Spec => OnlyTheReaperInterferes
<1>1. Init => IInv /\ Exclusive
  BY IInvInit, ExclusiveInit
<1>2. IInv /\ Exclusive /\ [Next]_vars => (IInv /\ Exclusive)'
  BY IInvStep, ExclusiveStep
<1>3. IInv /\ Exclusive /\ [Next]_vars =>
        [\A p \in Procs, t \in Tasks :
           /\ job[p][t] = "run" /\ job'[p][t] = "run"
           /\ rows[t].claimed_by # NoProc
           /\ rows[t].status \in Active /\ rows'[t].status \in Terminal
           => \E q \in Procs : t \in victims[q] \ victims'[q]]_vars
  BY ExclusiveStep DEF OnlyReaped
<1> QED BY <1>1, <1>2, <1>3, PTL DEF Spec, OnlyTheReaperInterferes
=============================================================================
