------------------------------ MODULE JobQueue ------------------------------
(***************************************************************************)
(* The shared job queue: the gateway and the deploy-worker container hand  *)
(* long SSH jobs to each other through rows of one SQLite file.            *)
(*                                                                         *)
(*   api/deploy.py, api/node_ops.py   submit, stop and restart a job       *)
(*   services/shared_task_store.py    the rows and the statements on them  *)
(*   services/job_runner.py           claim loop, watcher, reaper          *)
(*   services/worker_lease.py         who performs the deploy duty         *)
(*                                                                         *)
(* A step is one SQL statement (or one transaction): SQLite serialises     *)
(* statements of different processes, and one process is a single asyncio  *)
(* loop, so two coroutines of it interleave only where pc[p] = "idle".     *)
(* Log lines are left to SharedTaskLog, the lease's clock to WorkerLease.  *)
(***************************************************************************)
EXTENDS Integers, FiniteSets

CONSTANTS
    Gateways,     \* holder ids (hostname:pid) gateway processes may have
    Workers,      \* holder ids deploy-worker processes may have
    NoProc,       \* NULL in a column that names a process
    MaxTasks,     \* bound: rows ever created; a task id is its creation rank
    MaxSessions,  \* settings.max_ssh_sessions
    MaxDowns,     \* bound: kills and shutdowns in a behaviour
    ReuseIds,     \* a container restarted in place keeps its hostname:pid
    DbFaults,     \* statements that may raise: of "enqueue", "payload", "poll"
    MaxExpired    \* bound: oldest ids that may pass the 24 h retention

ASSUME ProcsAssumption ==
    /\ Gateways \cap Workers = {}
    /\ NoProc \notin Gateways \cup Workers
ASSUME BoundsAssumption ==
    /\ MaxTasks \in Nat
    /\ MaxSessions \in Nat \ {0}
    /\ MaxDowns \in Nat
    /\ MaxExpired \in Nat
    /\ ReuseIds \in BOOLEAN

VARIABLES
    rows,     \* the tasks table
    created,  \* number of rows ever inserted
    lease,    \* the deploy-worker row of the leases table
    up,       \* processes that exist
    used,     \* holder ids that have been taken by some process
    stopping, \* processes past SIGTERM, inside run_forever's finally
    downs,    \* kills and shutdowns so far
    pc,       \* where the synchronous section of a process is
    seen,     \* the lease holder reap_orphans counts as alive, besides self
    victims,  \* rows of reap_orphans' SELECT that are still to be failed
    sel,      \* the row claim_next's SELECT returned
    job,      \* what each process's coroutine for a task is doing
    running,  \* run_forever's set of claimed jobs
    deaf,     \* claimed jobs whose watcher has ended: nobody polls their flag
    local,    \* deploy._running_tasks: deploys this gateway runs itself
    handed,   \* history: how often a coroutine was created for a task
    origin    \* history: the submitted task a restart replacement stands for

table   == <<rows, created, lease>>
procs   == <<up, used, stopping, downs>>
loop    == <<pc, seen, victims, sel>>
jobs    == <<job, running, deaf, local>>
history == <<handed, origin>>
vars    == <<table, procs, loop, jobs, history>>

Procs == Gateways \cup Workers
Tasks == 1 .. MaxTasks
NoTask == 0

-----------------------------------------------------------------------------
(* Rows and the statements on them                                         *)

Terminal == {"SUCCESS", "FAILED"}
Active   == {"PENDING", "RUNNING"}
Kinds    == {"deploy", "node-op"}

Row == [status: Active \cup Terminal \cup {"absent"},
        kind: Kinds \cup {""},
        payload: BOOLEAN,
        claimed_by: Procs \cup {NoProc},
        cancel_requested: BOOLEAN,
        restarted_as: Tasks \cup {NoTask}]

Absent == [status |-> "absent", kind |-> "", payload |-> FALSE,
           claimed_by |-> NoProc, cancel_requested |-> FALSE,
           restarted_as |-> NoTask]

Fresh == [Absent EXCEPT !.status = "PENDING"]

\* An UPDATE ... WHERE task_id=? touches nothing once _gc deleted the row.
Exists(t) == rows[t].status # "absent"
Update(t, row) == rows' = IF Exists(t) THEN [rows EXCEPT ![t] = row] ELSE rows

SteppedRow(row) == [row EXCEPT !.status = "RUNNING"]
SetStep(t) == Update(t, SteppedRow(rows[t]))

FinishedRow(row, verdict) == [row EXCEPT !.status = verdict, !.payload = FALSE]
Finish(t, verdict) == Update(t, FinishedRow(rows[t], verdict))

\* The guarded form: read the status, write FAILED unless it is terminal.
FinishIfOpen(t) ==
    IF rows[t].status \in Terminal THEN UNCHANGED rows ELSE Finish(t, "FAILED")

\* create also runs _gc: every row older than the retention goes.
Expired(cut) == 1 .. cut
Insert(t, row, cut) ==
    rows' = [u \in Tasks |-> IF u = t THEN row
                             ELSE IF u \in Expired(cut) THEN Absent ELSE rows[u]]

Queued == {t \in Tasks : /\ rows[t].kind # "" /\ rows[t].claimed_by = NoProc
                         /\ rows[t].status = "PENDING"}
Claimable == {t \in Queued : ~rows[t].cancel_requested}
CancelledQueued == Queued \ Claimable

-----------------------------------------------------------------------------
(* The lease (worker_lease.py).  Only deploy workers take this duty, and   *)
(* always by the unconditional form; freshness stands for expires_at > now *)

NoLease == [holder |-> NoProc, fresh |-> FALSE]
HeldElsewhere(p) == lease.fresh /\ lease.holder # p
OffloadAvailable(g) == HeldElsewhere(g)

\* A process that is up renews every 30 s at the latest, far below the TTL of
\* 180 s, so only a dead holder's lease runs out.
LeaseExpires ==
    /\ lease.fresh /\ lease.holder \notin up
    /\ lease' = [lease EXCEPT !.fresh = FALSE]
    /\ UNCHANGED <<rows, created, procs, loop, jobs, history>>

-----------------------------------------------------------------------------
(* The endpoints of the gateway                                            *)

Serving(g) == g \in (Gateways \cap up) \ stopping /\ pc[g] = "idle"

\* max_ssh_sessions deploys inside the semaphore of deploy.py
InSemaphore(g) == {t \in local : job[g][t] \in {"run", "cancel"}}

Busy(g) == IF OffloadAvailable(g)
           THEN Cardinality(Queued) >= MaxSessions
           ELSE Cardinality(InSemaphore(g)) >= MaxSessions

\* POST /api/deploy, the admission check. The lease is read again below.
DeployAdmit(g) ==
    /\ Serving(g) /\ created < MaxTasks
    /\ ~Busy(g)
    /\ pc' = [pc EXCEPT ![g] = "admitted"]
    /\ UNCHANGED <<table, procs, seen, victims, sel, jobs, history>>

\* offload(): the row becomes a queued job, or it stays as create() left it.
OffloadedRow(kind) == [Fresh EXCEPT !.kind = kind, !.payload = TRUE]

\* Mutant: enqueue first, the statement that may fail after it.
FailedOffloadRowQueued(kind) == OffloadedRow(kind)

\* The row offload() leaves when it returns False after an exception: the
\* statement that may fail comes first, the commit point last.
FailedOffloadRow(kind) == Fresh

Offload(g, t, kind, cut) ==
    /\ OffloadAvailable(g)
    /\ Insert(t, OffloadedRow(kind), cut)
    /\ UNCHANGED <<jobs, handed>>

RunHere(g, t, kind, cut, phase) ==
    /\ \/ ~OffloadAvailable(g) /\ Insert(t, Fresh, cut)
       \/ /\ OffloadAvailable(g) /\ "enqueue" \in DbFaults
          /\ Insert(t, FailedOffloadRow(kind), cut)
    /\ job' = [job EXCEPT ![g][t] = phase]
    /\ local' = IF kind = "deploy" THEN local \cup {t} ELSE local
    /\ handed' = [handed EXCEPT ![t] = @ + 1]
    /\ UNCHANGED <<running, deaf>>

\* POST /api/deploy after the check: create the row, offload it or run it here
DeploySubmit(g) ==
    /\ g \in up /\ pc[g] = "admitted" /\ created < MaxTasks
    /\ created' = created + 1
    /\ \E cut \in 0 .. MaxExpired :
         /\ cut <= created
         /\ \/ Offload(g, created + 1, "deploy", cut)
            \/ RunHere(g, created + 1, "deploy", cut, "wait")
    /\ pc' = [pc EXCEPT ![g] = "idle"]
    /\ origin' = [origin EXCEPT ![created + 1] = created + 1]
    /\ UNCHANGED <<lease, procs, seen, victims, sel>>

\* POST /api/node-ops/step: no admission check, no _running_tasks entry
NodeStep(g) ==
    /\ Serving(g) /\ created < MaxTasks
    /\ created' = created + 1
    /\ \E cut \in 0 .. MaxExpired :
         /\ cut <= created
         /\ \/ Offload(g, created + 1, "node-op", cut)
            \/ RunHere(g, created + 1, "node-op", cut, "run")
    /\ origin' = [origin EXCEPT ![created + 1] = created + 1]
    /\ UNCHANGED <<lease, procs, loop>>

\* Mutant: a claimed row is ended as well while its job has not begun a step.
CancelledRowAtOnce(row) ==
    IF row.status = "PENDING"
    THEN [FinishedRow(row, "FAILED") EXCEPT !.cancel_requested = TRUE]
    ELSE [row EXCEPT !.cancel_requested = TRUE]

\* Mutant: end the row but keep its payload.
CancelledRowReadable(row) ==
    IF row.claimed_by = NoProc /\ row.status = "PENDING"
    THEN [row EXCEPT !.cancel_requested = TRUE, !.status = "FAILED"]
    ELSE [row EXCEPT !.cancel_requested = TRUE]

\* request_cancel: flag the row, and end it in the same statement when nobody
\* claimed it yet
CancelledRow(row) ==
    IF row.claimed_by = NoProc /\ row.status = "PENDING"
    THEN [FinishedRow(row, "FAILED") EXCEPT !.cancel_requested = TRUE]
    ELSE [row EXCEPT !.cancel_requested = TRUE]

\* POST /api/deploy/stop
StopDeploy(g, t) ==
    /\ Serving(g)
    /\ \/ /\ t \in local /\ job[g][t] \in {"wait", "run"}
          /\ job' = [job EXCEPT ![g][t] = IF @ = "wait" THEN "unwait" ELSE "cancel"]
          /\ UNCHANGED rows
       \/ /\ t \notin local
          /\ rows[t].status \in Active
          /\ rows' = [rows EXCEPT ![t] = CancelledRow(@)]
          /\ UNCHANGED job
    /\ UNCHANGED <<created, lease, procs, loop, running, deaf, local, history>>

\* restart_waiting's conditions; any other row answers 404 or 409, and one
\* that was restarted before answers with its first replacement.
Waiting(t) ==
    /\ rows[t].status = "PENDING" /\ rows[t].kind = "deploy"
    /\ rows[t].claimed_by = NoProc /\ rows[t].payload

ReplacedRow(row, r) ==
    [FinishedRow(row, "FAILED") EXCEPT !.restarted_as = r]

\* POST /api/deploy/restart: one transaction closes t and inserts r, already
\* claimed by this gateway, which then runs it.
RestartDeploy(g, t) ==
    LET r == created + 1 IN
    /\ Serving(g) /\ created < MaxTasks
    /\ rows[t].restarted_as = NoTask /\ Waiting(t)
    /\ rows' = [rows EXCEPT ![t] = ReplacedRow(@, r),
                            ![r] = [Fresh EXCEPT !.claimed_by = g]]
    /\ created' = r
    /\ job' = [job EXCEPT ![g][r] = "wait"]
    /\ local' = local \cup {r}
    /\ handed' = [handed EXCEPT ![r] = @ + 1]
    /\ origin' = [origin EXCEPT ![r] = t]
    /\ UNCHANGED <<lease, procs, loop, running, deaf>>

-----------------------------------------------------------------------------
(* run_forever: acquire or look at the lease, reap, claim                  *)

HasRoom(p) == Cardinality(running[p]) < MaxSessions

Goto(p, label) == pc' = [pc EXCEPT ![p] = label]

\* A worker takes the lease from whoever has it; the gateway only goes on when
\* no worker holds it. At the cap the loop sleeps.
LoopTop(p) ==
    /\ p \in up \ stopping /\ pc[p] = "idle"
    /\ \/ p \in Workers /\ lease' = [holder |-> p, fresh |-> TRUE]
       \/ p \in Gateways /\ ~HeldElsewhere(p) /\ UNCHANGED lease
    /\ Goto(p, IF HasRoom(p) THEN "alive" ELSE "idle")
    /\ UNCHANGED <<rows, created, procs, seen, victims, sel, jobs, history>>

\* job_runner.reap_orphans: who counts as alive
ReapAlive(p) ==
    /\ p \in up /\ pc[p] = "alive"
    /\ seen' = [seen EXCEPT ![p] = IF lease.fresh THEN lease.holder ELSE NoProc]
    /\ Goto(p, "scan")
    /\ UNCHANGED <<table, procs, victims, sel, jobs, history>>

\* Mutant: only rows whose pipeline has begun.
OrphansRunning(p) == {t \in Tasks : /\ rows[t].status = "RUNNING"
                                    /\ rows[t].claimed_by \notin {NoProc, p, seen[p]}}

Orphans(p) == {t \in Tasks : /\ rows[t].status \in Active
                             /\ rows[t].claimed_by \notin {NoProc, p, seen[p]}}

\* shared_task_store.reap_orphans: the SELECT ...
ReapScan(p) ==
    /\ p \in up /\ pc[p] = "scan"
    /\ victims' = [victims EXCEPT ![p] = Orphans(p)]
    /\ seen' = [seen EXCEPT ![p] = NoProc]
    /\ Goto(p, IF Orphans(p) = {} THEN "select" ELSE "reap")
    /\ UNCHANGED <<table, procs, sel, jobs, history>>

\* ... and one unconditional UPDATE per row it returned
ReapOne(p, t) ==
    /\ p \in up /\ pc[p] = "reap" /\ t \in victims[p]
    /\ Finish(t, "FAILED")
    /\ victims' = [victims EXCEPT ![p] = @ \ {t}]
    /\ Goto(p, IF victims[p] = {t} THEN "select" ELSE "reap")
    /\ UNCHANGED <<created, lease, procs, seen, sel, jobs, history>>

OldestClaimable(t) == t \in Claimable /\ \A u \in Claimable : t <= u

\* claim_next: the SELECT; with nothing to claim, close cancelled rows
ClaimSelect(p) ==
    /\ p \in up /\ pc[p] = "select"
    /\ IF Claimable # {}
       THEN /\ \E t \in Tasks : OldestClaimable(t) /\ sel' = [sel EXCEPT ![p] = t]
            /\ Goto(p, "claim")
            /\ UNCHANGED rows
       ELSE /\ rows' = [t \in Tasks |->
                          IF t \in CancelledQueued
                          THEN FinishedRow(rows[t], "FAILED")
                          ELSE rows[t]]
            /\ Goto(p, "idle")
            /\ UNCHANGED sel
    /\ UNCHANGED <<created, lease, procs, seen, victims, jobs, history>>

ClaimedRow(row, p) == [row EXCEPT !.claimed_by = p]

\* claim_next: UPDATE ... WHERE task_id=? AND claimed_at IS NULL
ClaimUpdate(p) ==
    LET t == sel[p] IN
    /\ p \in up /\ pc[p] = "claim"
    /\ IF Exists(t) /\ rows[t].claimed_by = NoProc
       THEN /\ rows' = [rows EXCEPT ![t] = ClaimedRow(@, p)]
            /\ Goto(p, "payload")
            /\ UNCHANGED sel
       ELSE /\ Goto(p, "idle")
            /\ sel' = [sel EXCEPT ![p] = NoTask]
            /\ UNCHANGED rows
    /\ UNCHANGED <<created, lease, procs, seen, victims, jobs, history>>

\* claim_next: read the payload. Without one the row gets a verdict; with one
\* run_forever creates the job. A raising SELECT only ends this round.
ClaimPayload(p) ==
    LET t == sel[p] IN
    /\ p \in up /\ pc[p] = "payload"
    /\ Goto(p, "idle")
    /\ sel' = [sel EXCEPT ![p] = NoTask]
    /\ \/ /\ rows[t].payload
          /\ job' = [job EXCEPT ![p][t] = "run"]
          /\ running' = [running EXCEPT ![p] = @ \cup {t}]
          /\ handed' = [handed EXCEPT ![t] = @ + 1]
          /\ UNCHANGED rows
       \/ /\ ~rows[t].payload
          /\ Finish(t, "FAILED")
          /\ UNCHANGED <<job, running, handed>>
       \/ /\ "payload" \in DbFaults
          /\ UNCHANGED <<rows, job, running, handed>>
    /\ UNCHANGED <<created, lease, procs, seen, victims, deaf, local, origin>>

-----------------------------------------------------------------------------
(* A job inside its process: pipeline.run_pipeline / node_ops._run_op under *)
(* deploy._run_pipeline_safe (local) or job_runner._run_one (claimed)       *)

Turn(p) == p \in up /\ pc[p] = "idle"

Leave(p, t) ==
    /\ job' = [job EXCEPT ![p][t] = "none"]
    /\ running' = [running EXCEPT ![p] = @ \ {t}]
    /\ deaf' = [deaf EXCEPT ![p] = @ \ {t}]
    /\ local' = IF p \in Gateways THEN local \ {t} ELSE local

\* _run_pipeline_safe enters the semaphore
JobEnter(p, t) ==
    /\ Turn(p) /\ job[p][t] = "wait"
    /\ Cardinality(InSemaphore(p)) < MaxSessions
    /\ job' = [job EXCEPT ![p][t] = "run"]
    /\ UNCHANGED <<table, procs, loop, running, deaf, local, history>>

\* set_step(n, RUNNING), whatever the row says
JobStep(p, t) ==
    /\ Turn(p) /\ job[p][t] = "run"
    /\ SetStep(t)
    /\ UNCHANGED <<created, lease, procs, loop, jobs, history>>

\* the pipeline ends: finish(SUCCESS), finish(FAILED) on an exception, or
\* execute's own verdict for a handler that returned without one
JobEnd(p, t) ==
    /\ Turn(p) /\ job[p][t] = "run"
    /\ \/ rows[t].status # "PENDING" /\ Finish(t, "SUCCESS")
       \/ Finish(t, "FAILED")
       \/ t \in running[p] /\ FinishIfOpen(t)
    /\ Leave(p, t)
    /\ UNCHANGED <<created, lease, procs, loop, history>>

\* The watcher of a claimed job is about to poll the row.
Watched(p, t) ==
    Turn(p) /\ t \in running[p] /\ job[p][t] = "run" /\ t \notin deaf[p]

\* Mutant: the watcher only looks while the pipeline has not begun.
WatchCancelEarly(p, t) ==
    /\ Watched(p, t)
    /\ rows[t].cancel_requested /\ rows[t].status = "PENDING"
    /\ job' = [job EXCEPT ![p][t] = "cancel"]
    /\ UNCHANGED <<table, procs, loop, running, deaf, local, history>>

\* _watch_cancel sees the flag and cancels the runner
WatchCancel(p, t) ==
    /\ Watched(p, t)
    /\ rows[t].cancel_requested
    /\ job' = [job EXCEPT ![p][t] = "cancel"]
    /\ UNCHANGED <<table, procs, loop, running, deaf, local, history>>

\* The poll raises: the watcher logs it and returns, and never looks again.
WatchFails(p, t) ==
    /\ Watched(p, t) /\ "poll" \in DbFaults
    /\ deaf' = [deaf EXCEPT ![p] = @ \cup {t}]
    /\ UNCHANGED <<table, procs, loop, job, running, local, history>>

\* CancelledError reaches the job: run_pipeline writes FAILED unconditionally;
\* a deploy still waiting for the semaphore, and a node operation (closed by
\* execute or _run_one), get FAILED only when the row is open
JobCancelled(p, t) ==
    /\ Turn(p) /\ job[p][t] \in {"cancel", "unwait"}
    /\ IF job[p][t] = "unwait" \/ rows[t].kind = "node-op"
       THEN FinishIfOpen(t)
       ELSE Finish(t, "FAILED")
    /\ Leave(p, t)
    /\ UNCHANGED <<created, lease, procs, loop, history>>

-----------------------------------------------------------------------------
(* Processes: docker compose starts, stops and restarts the containers      *)

Peers(p) == IF p \in Gateways THEN Gateways ELSE Workers

\* One container per role. A container restarted in place keeps its id.
Start(p) ==
    /\ Peers(p) \cap up = {}
    /\ p \in used => ReuseIds
    /\ up' = up \cup {p}
    /\ used' = used \cup {p}
    /\ UNCHANGED <<table, stopping, downs, loop, jobs, history>>

\* Mutant: the next process of the container still counts as shutting down.
GoneStillStopping(p) ==
    /\ up' = up \ {p}
    /\ pc' = [pc EXCEPT ![p] = "idle"]
    /\ seen' = [seen EXCEPT ![p] = NoProc]
    /\ victims' = [victims EXCEPT ![p] = {}]
    /\ sel' = [sel EXCEPT ![p] = NoTask]
    /\ job' = [job EXCEPT ![p] = [t \in Tasks |-> "none"]]
    /\ running' = [running EXCEPT ![p] = {}]
    /\ deaf' = [deaf EXCEPT ![p] = {}]
    /\ local' = IF p \in Gateways THEN {} ELSE local
    /\ UNCHANGED <<used, stopping, history>>

\* What dies with a process is its memory.
Gone(p) ==
    /\ up' = up \ {p}
    /\ stopping' = stopping \ {p}
    /\ pc' = [pc EXCEPT ![p] = "idle"]
    /\ seen' = [seen EXCEPT ![p] = NoProc]
    /\ victims' = [victims EXCEPT ![p] = {}]
    /\ sel' = [sel EXCEPT ![p] = NoTask]
    /\ job' = [job EXCEPT ![p] = [t \in Tasks |-> "none"]]
    /\ running' = [running EXCEPT ![p] = {}]
    /\ deaf' = [deaf EXCEPT ![p] = {}]
    /\ local' = IF p \in Gateways THEN {} ELSE local
    /\ UNCHANGED <<used, history>>

\* SIGKILL, OOM, power: between any two statements
Kill(p) ==
    /\ p \in up /\ downs < MaxDowns
    /\ downs' = downs + 1
    /\ Gone(p)
    /\ UNCHANGED table

\* SIGTERM: the loop is cancelled where it sleeps, and every job with it;
\* uvicorn lets a node operation running as a background task finish
SigTerm(p) ==
    /\ p \in up \ stopping /\ pc[p] = "idle" /\ downs < MaxDowns
    /\ downs' = downs + 1
    /\ stopping' = stopping \cup {p}
    /\ job' = [job EXCEPT ![p] = [t \in Tasks |->
                 CASE job[p][t] = "wait" -> "unwait"
                   [] job[p][t] = "run" /\ t \in running[p] \cup local -> "cancel"
                   [] OTHER -> job[p][t]]]
    /\ UNCHANGED <<table, up, used, loop, running, deaf, local, history>>

\* all jobs have their verdict: release the lease and exit
ShutDown(p) ==
    /\ p \in stopping /\ \A t \in Tasks : job[p][t] = "none"
    /\ lease' = IF lease.holder = p THEN NoLease ELSE lease
    /\ Gone(p)
    /\ UNCHANGED <<rows, created, downs>>

-----------------------------------------------------------------------------
Init ==
    /\ rows = [t \in Tasks |-> Absent]
    /\ created = 0
    /\ lease = NoLease
    /\ \E g \in Gateways : up = {g} /\ used = {g}
    /\ stopping = {}
    /\ downs = 0
    /\ pc = [p \in Procs |-> "idle"]
    /\ seen = [p \in Procs |-> NoProc]
    /\ victims = [p \in Procs |-> {}]
    /\ sel = [p \in Procs |-> NoTask]
    /\ job = [p \in Procs |-> [t \in Tasks |-> "none"]]
    /\ running = [p \in Procs |-> {}]
    /\ deaf = [p \in Procs |-> {}]
    /\ local = {}
    /\ handed = [t \in Tasks |-> 0]
    /\ origin = [t \in Tasks |-> t]

\* one round of run_forever
Loop(p) == \/ LoopTop(p) \/ ReapAlive(p) \/ ReapScan(p)
           \/ \E t \in Tasks : ReapOne(p, t)
           \/ ClaimSelect(p) \/ ClaimUpdate(p) \/ ClaimPayload(p)

Request(g) == \/ DeployAdmit(g) \/ DeploySubmit(g) \/ NodeStep(g)
              \/ \E t \in Tasks : StopDeploy(g, t) \/ RestartDeploy(g, t)

Job(p, t) == \/ JobEnter(p, t) \/ JobStep(p, t) \/ JobEnd(p, t)
             \/ WatchCancel(p, t) \/ WatchFails(p, t) \/ JobCancelled(p, t)

Process(p) == Start(p) \/ Kill(p) \/ SigTerm(p) \/ ShutDown(p)

Next == \/ LeaseExpires
        \/ \E g \in Gateways : Request(g)
        \/ \E p \in Procs : Loop(p) \/ Process(p)
        \/ \E p \in Procs, t \in Tasks : Job(p, t)

Spec == Init /\ [][Next]_vars

\* Steps of jobs that the event loop owes: entering the semaphore, polling the
\* cancel flag, delivering a CancelledError. A job takes each finitely often.
Owed(p, t) == JobEnter(p, t) \/ WatchCancel(p, t) \/ JobCancelled(p, t)

\* The event loop runs every ready coroutine in turn (a job that keeps finding
\* the loop busy is served when it is idle, hence SF), a sleeping loop wakes up,
\* time passes, and docker restarts the gateway ("unless-stopped"). Nothing
\* promises that a worker is ever started, nor that anybody sends a request.
Scheduling ==
    /\ WF_vars(LeaseExpires)
    /\ \A g \in Gateways : WF_vars(Start(g)) /\ WF_vars(DeploySubmit(g))
    /\ \A p \in Procs : WF_vars(Loop(p)) /\ WF_vars(ShutDown(p))

\* Jobs end by themselves. What is said of stops does not rely on it: a job whose
\* stop was accepted hangs, but for one that nobody watches any more.
EndsByItself(p, t) == (rows[t].cancel_requested => t \in deaf[p]) /\ JobEnd(p, t)

FairSpec ==
    /\ Spec /\ Scheduling
    /\ \A p \in Procs : SF_vars(\E t \in Tasks : Owed(p, t) \/ EndsByItself(p, t))

\* A job whose stop was accepted hangs whether or not it is watched: it may be
\* inside a script that is run without a timeout (pipeline.py:606).
EndsUnlessStopped(p, t) == ~rows[t].cancel_requested /\ JobEnd(p, t)

HangingSpec ==
    /\ Spec /\ Scheduling
    /\ \A p \in Procs : SF_vars(\E t \in Tasks : Owed(p, t) \/ EndsUnlessStopped(p, t))

-----------------------------------------------------------------------------
(* Safety                                                                  *)

Phases == {"none", "wait", "run", "cancel", "unwait"}
Labels == {"idle", "admitted", "alive", "scan", "reap", "select", "claim", "payload"}

\* Every variable has its type; ids beyond the insert counter are unused.
TypeOK ==
    /\ rows \in [Tasks -> Row]
    /\ created \in 0 .. MaxTasks
    /\ lease \in [holder: Procs \cup {NoProc}, fresh: BOOLEAN]
    /\ up \subseteq Procs /\ used \subseteq Procs /\ stopping \subseteq up
    /\ downs \in 0 .. MaxDowns
    /\ pc \in [Procs -> Labels]
    /\ seen \in [Procs -> Procs \cup {NoProc}]
    /\ victims \in [Procs -> SUBSET Tasks]
    /\ sel \in [Procs -> Tasks \cup {NoTask}]
    /\ \A p \in Procs : pc[p] \in {"claim", "payload"} => sel[p] \in Tasks
    /\ job \in [Procs -> [Tasks -> Phases]]
    /\ running \in [Procs -> SUBSET Tasks]
    /\ deaf \in [Procs -> SUBSET Tasks]
    /\ \A p \in Procs : deaf[p] \subseteq running[p]
    /\ local \in SUBSET Tasks
    /\ handed \in [Tasks -> Nat]
    /\ origin \in [Tasks -> Tasks]

\* A submitted job is executed at most once: no task ever gets two coroutines,
\* in one process or in two, and a deploy and the replacement a restart made
\* for it never both get one (job_runner.offload's commit point, claim_next's
\* UPDATE, restart_waiting's transaction, and every crash between them).
RunAtMostOnce ==
    /\ \A t \in Tasks : handed[t] <= 1
    /\ \A t, u \in Tasks :
          (origin[t] = origin[u] /\ handed[t] > 0 /\ handed[u] > 0) => t = u

\* A payload (SSH credentials) does not outlive the verdict: no sequence of
\* stop, restart, reap, claim and finish leaves a terminal row with one
\* ("wiped the moment the job reaches a terminal state").
PayloadWiped == \A t \in Tasks : rows[t].status \in Terminal => ~rows[t].payload

\* The payload is the ticket that lets a job run: while a row has one, the row
\* is open, nothing was made to replace it, and it was handed out only if it
\* is claimed; a process about to read a ticket is the claimer of that row and
\* nobody has used the ticket before.
PayloadIsTheTicket ==
    /\ \A t \in Tasks : rows[t].payload =>
          /\ rows[t].status \in Active
          /\ rows[t].claimed_by = NoProc => handed[t] = 0
          /\ \A u \in Tasks : origin[u] = t => u = t
          /\ origin[t] = t
    /\ \A p \in Procs : pc[p] \in {"claim", "payload"} =>
          /\ sel[p] \in 1 .. created
          /\ pc[p] = "payload" /\ rows[sel[p]].payload =>
                rows[sel[p]].claimed_by = p /\ handed[sel[p]] = 0

\* A job that has its verdict is never handed to a runner: stopped, restarted
\* or reaped between claim_next's SELECT and its UPDATE, or between the UPDATE
\* and the read of the payload, it stays unstarted.
NoStartAfterVerdict ==
    [][\A t \in Tasks : handed'[t] > handed[t] => rows[t].status \notin Terminal]_vars

\* While a process runs a job it claimed, nobody decides over it but the reaper,
\* and only for a row its SELECT returned: no stop, restart, claim or cleanup of
\* cancelled rows writes a verdict beside the runner. That the reaper does, to
\* jobs of healthy processes, is the code ("a long-but-healthy job is therefore
\* never touched" is not so: a worker that takes the lease reaps what the gateway
\* runs, and a gateway that saw no lease what a worker runs).
OnlyTheReaperInterferes ==
    [][\A p \in Procs, t \in Tasks :
         /\ job[p][t] = "run" /\ job'[p][t] = "run"
         /\ rows[t].claimed_by # NoProc
         /\ rows[t].status \in Active /\ rows'[t].status \in Terminal
         => \E q \in Procs : t \in victims[q] \ victims'[q]]_vars

Settled(t) == rows[t].status \notin Active

\* Every job that was queued or claimed ends with a verdict that stays (or is
\* dropped with its row by the retention): whoever dies, the reaper or the next
\* claimer closes it, and no late write of the old claimer reopens it for good.
EveryJobSettles ==
    \A t \in Tasks :
        (rows[t].kind # "" /\ (rows[t].payload \/ rows[t].claimed_by # NoProc))
            ~> []Settled(t)

\* A stop accepted for a claimed job that is watched ends it in its process,
\* even when the job itself would hang for ever; only a poll that raises before
\* the flag is seen (WatchFails) gives the stop up.
StopEndsWatchedJob ==
    \A p \in Procs, t \in Tasks :
        (t \in running[p] /\ rows[t].cancel_requested)
            ~> (t \notin running[p] \/ t \in deaf[p])

\* "`POST /api/deploy/stop` in the gateway must reach a worker elsewhere"
\* (test_job_runner.py): an accepted stop of a claimed job ends it there. It does
\* not, under HangingSpec, once a poll of the flag has raised: the watcher is gone.
StopEndsTheJob ==
    \A p \in Procs, t \in Tasks :
        (t \in running[p] /\ rows[t].cancel_requested) ~> (t \notin running[p])
=============================================================================
