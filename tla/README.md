# node-assistant in TLA+

node-assistant is a control panel for VPN infrastructure: a FastAPI back end
(`src/backend`), a React front end, and a few side services. The back end runs as
several processes: the **gateway**, which serves the API and can do everything by
itself, and, in the split profile of `docker-compose.yml`, a **deploy worker** and a
**monitoring worker** (`app/worker.py --role=...`). They share no memory, only
files: a SQLite database (`tasks`, `task_logs`, `leases`) and JSON stores.

This directory holds TLA+ models of the parts whose correctness depends on the order
in which several actors take their steps, TLC runs that check them on small
instances, and TLAPS proofs for all instances. All paths below are relative to
`src/backend/app/` unless they begin with `src/`.

| module | models | checked by | proved in |
|---|---|---|---|
| `JobQueue` | the queue of deploys and node operations between gateway and worker | `queue_*` | `JobQueueProofs` |
| `LogView` | what a browser that watches a task is promised (abstract) | by refinement | - |
| `MemoryTaskLog` | task log and WebSocket inside one process | `memory_safety` | `MemoryTaskLogProofs` |
| `SharedTaskLog` | the same across processes, by polling SQLite | `shared_stream` | `SharedTaskLogProofs` |
| `WorkerLease` | the lease that decides who performs a background duty | `lease_*` | `WorkerLeaseProofs` |
| `AiRuns` | the assistant's answers as background tasks | `ai_runs` | `AssistantProofs` |
| `ChatStore`, `AiChat` | the assistant's transcript, written by the server and by a page | `chat_*` | `AssistantProofs` |
| `DeployCards` | the list of deploys: a file, two processes, browser tabs | `cards_lists` | `DeployCardsProofs` |
| `SshDualPort` | the move of a server's SSH port, from afar | `ssh_move` | `SshDualPortProofs` |
| `Rules` | triggers, cooldowns and actions of alarm rules beside their editing | `rules_alarms` | `RulesProofs` |

`MCxxx` modules and `MCxxx_yyy.cfg` files instantiate them for TLC; the run `queue_safety`
is `MCJobQueue` with `MCJobQueue_safety.cfg`, and so on. To repeat a run or a proof:

    tlc -config MCJobQueue_safety.cfg MCJobQueue
    tlapm JobQueueProofs.tla

`PROJECT.json` lists components, runs, the source lines each definition stands for, the
hazards, the findings and the theorems, and for every checked property a *mutant*: a
definition in its module (marked `\* Mutant:`), with a plausible bug, under which TLC
finds the property violated. A property without one would say nothing about the code.

## 1. Inventory

### Modelled

**Shared task store** (`services/shared_task_store.py`). State: rows of `tasks` (status,
step, kind, encrypted payload, `claimed_by`, `cancel_requested`, `restarted_as`) and
`task_logs`. Operations: create (with retention), add_log, set_step, finish, enqueue,
claim_next, payload_of, request_cancel, restart_waiting, reap_orphans, subscribe.
Hard: every statement commits by itself and several processes issue them. Correct means:
a job is executed at most once; every job gets its verdict; a stop is final; credentials
are wiped with the verdict; every viewer sees every line once.

**Job runner** (`services/job_runner.py`). State: the set of jobs a process runs, the
lease it holds. Operations: offload (gateway), run_forever (claim loop of both), cancel
watcher, execute, orphan reaper. Hard: a coroutine reads a row, awaits and acts on it; a
process can die between any two statements; the gateway falls back to claiming when no
worker holds the lease, so the roles change under way.

**Deploy API and node operations** (`api/deploy.py`, `api/node_ops.py`). Submit, stop,
restart, the in-process semaphore and `_running_tasks`. They call the two above.

**Worker lease** (`services/worker_lease.py`, with the loops in `main.py`, `worker.py`,
`api/rules.py`, `api/xray_checker.py`, `api/server_monitor.py`, `api/user_stats.py`,
`services/auto_backup.py`, `provider_sync.py`, `updater.py`). State: one row per duty,
`holder` and `expires_at`. Hard: time, lateness, crash without release, two processes
that both believe they own a duty, a loop nobody is left to run.

**In-memory task and WebSocket** (`services/task_store.py`, `api/ws.py`). State: ring buffer,
subscribers' queues. Hard: a viewer attaches between two lines or after the end.

**AI runs** (`services/ai_runs.py`, `/chat*` in `api/ai.py`). State: `_RUNS`, one run per
conversation with its event buffer, task and done flag. Operations: start, append,
finish, follow, stop, _sweep. Hard: cancellation of a task that has not begun, two
callers of finish, one `asyncio.Event` shared by many readers, eviction of live runs.

**Chat transcript** (`services/ai_chat_store.py`, `ai_chat_persist.py`, `api/ai_history.py`, and the
page: `aiRunner.ts`, `aiSessions.ts`, `AiChat.tsx` in `src/frontend/src/components/automation/`).
State: `ai_chat.json`, the page's conversations, the reader of an answer, `busy`. Operations: append,
replace and clear a session; send, stop, resume, reconnect, synchronise, open, remove. Hard: both sides
write the same messages without a common id; streams break, pages reload, requests get lost.

**Deploy cards** (`api/deploy_jobs.py`, `deploy_jobs_sync.py`, `services/deploy_jobs_backfill.py`, and
`deployJobsStore.ts`, `deployJobsSync.ts`, `DeployDashboard.tsx`, `DeployCard.tsx`). State: the file of cards
and that of tombstones, and in every tab a list on the page, one in the store and requests under way.
Operations: list, upsert, delete, restart, synchronise with Remnawave, verdicts written by the process that
ran the deploy. Hard: tabs of different age send differences of lists; two processes write one file.

**Change of the SSH port** (steps 6 to 9 of `services/pipeline.py`, `services/ssh_manager.py`). State: a remote sshd,
its configuration and firewall, and what the pipeline believes. Hard: any command may fail half-way, the server
reboots, and an error locks the owner out of it.

**Rules engine** (`api/rules.py`, `services/rules_store.py`, `rule_engine.py`). State: `rules.json` with the time of
the last firing per scope. Operations: a tick, a webhook's delivery, creation, change, deletion. Hard: an
evaluator reads the rules, awaits the actions for minutes and then writes its note into the same file.

How they meet: `deploy`/`node_ops` call `offload` of the job runner, which trusts the
lease (`worker_lease.held_elsewhere`) and commits through the task store; the worker's
`run_forever` claims through the store and writes its log there; the gateway's WebSocket
polls that log, and the process that ran a deploy writes its verdict into the deploy cards. The pipeline
that a job executes moves the SSH port. The lease also decides who ticks the rules. `AiRuns` ends a run by
calling the writer of the chat transcript. In the models these seams are choices: a job succeeds, fails or is
cancelled at any point (`JobQueue`), a run says anything and ends at any point (`AiChat`), there is one scheduler
of rules or, with `"split"`, one in another process than the gateway (`Rules`).

### Not modelled

`PROJECT.json` has the complete list of components with reasons: remote shell, HTTP clients, parsing, or record
keeping whose only behaviour is create, read, update and delete. The nearest to being worth a model:

| component | what it would take |
|---|---|
| checker metrics, server monitor, user statistics | arithmetic over one list of samples (incidents, availability, counter resets); the loops that fill them are in `WorkerLease` |
| infrastructure billing | due dates and one notification a day, by one loop |
| accounts, roles, tokens | a permission check per request; no second actor |
| AI agent loop, tools | calls to a language model and to tools; `AiRuns` treats it as any generator of events |
| a panel's task windows (`DeployCard.tsx`, `useTaskStream.ts`) | the reader of a log is `LogView`'s viewer; what the window adds is in section 5 |

## 2. Plan

Modelled and model-checked: everything the first table lists. Proved: every safety property the passing runs check
(section 6). What is left:

1. Shorter proofs of what is proved: `Mirror` of `DeployCardsProofs` is carried through each action twice, once for
   the order of the requests and once for the lists; `AssistantProofs` proves what a step keeps of the screen once per
   action, where one lemma about patching the last reply could serve most of them.
2. More of the chat without assumptions: `AnswersStayHome` is proved under the three odds that do not break it, and after
   requests that fail; the three other properties are proved with none of the odds, though section 3 has
   `ShownIsStored` survive two of them.

## 3. The models

### JobQueue

One step is one SQL statement or transaction, or what a coroutine does between two
awaits. `pc[p]` says where the synchronous section of process `p` is; other coroutines of `p`
move only when it is `"idle"`, other processes always may.

| in the model | in the code |
|---|---|
| `rows[t]` | a row of `tasks`; `payload` is whether the encrypted payload is there |
| `lease`, `LeaseExpires`, `HeldElsewhere` | the `deploy-worker` lease; clock abstracted (below) |
| `running`, `job`, `local` | run_forever's set; what the coroutine of a task is doing; `_running_tasks` |
| `DeployAdmit`, `DeploySubmit`, `NodeStep` | `POST /deploy` in two turns, `POST` of a node operation |
| `Offload`, `RunHere` | `job_runner.offload`, or the gateway's own task |
| `StopDeploy`, `RestartDeploy` | `request_cancel`, `restart_waiting` and their endpoints |
| `LoopTop`, `ReapAlive`, `ReapScan`, `ReapOne` | one round of run_forever: lease, orphan reaper |
| `ClaimSelect`, `ClaimUpdate`, `ClaimPayload` | the three statements of a claim |
| `JobEnter`, `JobStep`, `JobEnd`, `JobCancelled` | `_run_one`, `execute` |
| `WatchCancel`, `WatchFails` | the watcher's poll of the stop flag; one that raises, which ends the watcher (`deaf`) |
| `Start`, `Kill`, `SigTerm`, `ShutDown` | container life; `ReuseIds` is an in-place restart |

`LeaseExpires` lets a lease lapse only when its holder is down. That abstracts the clock;
`WorkerLease` has it, and its `HolderNeverLapses` says that a process that renews in time never
holds a stale lease (here the renewal is the heartbeat, every 30 s against a TTL of 180 s).

`DbFaults` names statements that may raise: `"enqueue"`, a statement of offload before its
commit point, after which the gateway runs the job itself; `"payload"`, the read of the
payload after the claim is committed; `"poll"`, a watcher's read of the stop flag. `MaxExpired` lets the retention (24 h) delete the
oldest rows at any insert, rows of jobs that still run included.

### LogView, MemoryTaskLog, SharedTaskLog

`LogView` is the promise of `api/ws.py`: a viewer is shown consecutive lines, starting at
line 1 or at most `Cap` lines back, and its stream ends only after a verdict and after every
line written before it. A line is its rank. Both implementations are mapped to it with
`View == INSTANCE LogView WITH written <- lines`; `ImplementsLogView == View!Spec` is checked as
a property. `got`, `at` and `owed` exist in all three with the same meaning.

`MemoryTaskLog`: `AddLog`, `SetStep`, `Finish`, `Succeed`, `Fail` are the mutators of
`task_store.Task` as `run_pipeline` calls them (the last two with the closing line each writes);
`Connect` is subscribe with its replay, `Send` one frame of `log_stream`, `Disconnect` the end of
the socket. `SharedTaskLog` has the same handler over a tailer that reads rows:
`Replay` and `TailLogs`, `TailRow`, `TailDrain` are its SELECTs, between which another process may
commit lines and the verdict; `JobLog` ... `JobFailed` is the job, `ReapLine` and `ReapVerdict` a
reaper that ends it from outside, `TailRaises` a SELECT that raises.

### WorkerLease

Seconds are steps (`Second`); `lease.left` is `expires_at - now`. `wait[p][l]` counts to the
next turn of loop `l`, and `Second` is disabled while a loop is more than `Lag` overdue, which
is the assumption that the event loop is not blocked longer. `TurnOwned` and `TurnDenied` are
an acquire that succeeds or not, `TurnFailed` one that raises: the caller then goes ahead
(fail-open); `faulted` remembers that one has. `busy` is a turn under way; a turn of `rules` or `backup` may last any time, one
of `poll` (the short probes) ends within its own second. `dark` is a history counter: seconds
in which nobody evaluated the rules although a gateway was up.

### AiRuns

One event loop. `runs[r]` are all runs ever started, `registry` is `_RUNS`; `late` is the set of
runs past their time limit (30 minutes of running, 15 after the end), so time is a choice.
Every request sweeps first: `SweptRuns` is what `_sweep` does to overdue agents (cancel) and
`SweptRegistry` what is left, the newest `MaxRuns`. `Join`, `Begin`, `Resume`, `State`, `Stop` are the
endpoints; `PumpStarts` ... `PumpCancelled` are the background task; `Read`, `Arm`, `Timeout`, `Leave`
are `follow`. The image runs Python 3.11, where `asyncio.wait_for` wraps its argument in a task:
between `Event.clear()` and the moment the wait is armed other coroutines run, and
`Arm` models that turn. The wake-up of an event can be lost there, and the 25 s timeout repairs
it; that of `finish` cannot be lost, and `EveryStreamEnds` does not count on the timeout.
What an agent says is `"work"`, what the runner adds about an error or a stop is `"note"`.

### ChatStore, AiChat

`ChatStore` has the messages and the pure functions over them: a text is a sequence of marked pieces (a delta of
the answer, an error line, the page's line for a lost connection), so `SameOrPrefix` and `Deduped` are `_same_or_prefix`
and `_dedup` of `ai_chat_store`, comparisons of prefixes, and `AnswerText` is what the server makes of a run's events.
Its two ways to write an error, `Error` and `BareError`, are the page's and the server's, which differ.

`AiChat` is one tab and the server. `wire` holds the page's requests, `reader[r]` is one call of `consume`, with the
events of a run it has put into the last reply so far.

| in the model | in the code |
|---|---|
| `Ask`, `StopAnswer`, `New`, `Select`, `Clear`, `Delete`, `Reload` | what the user does |
| `AppendArrives` ... `ChatArrives`, `StopArrives` | the endpoints of `ai_history.py` and `ai.py`, in the order of the wire |
| `AgentSays`, `AgentEnds`, `EndRun` | a run (see `AiRuns`) and `save_answer` at its end |
| `ReadEvent`, `ReadEnds`, `Breaks`, `Hangs`, `ChatRefused` | `readStream` |
| `TryFails`, `TryResumes`, `TryPulls`, `GivesUp`, `Awakes` | `attemptAutoReconnect` and `pullFinalFromHistory` |
| `ReadOver`, `Keeps` | the `finally` of `consume`, and what it writes back |
| `CheckReturns`, `CheckIdle`, `SyncReturns`, `SyncFails` | `resume` and `syncSessions` after a reload |
| `WriteFails`, `Misses` | a request that fails and is not repeated |

The code does go wrong under conditions that are kept apart as `Odds`, so that the rest can be shown to hold
without them. Each was admitted alone and the run repeated:

| `Odds` | what happens | violated |
|---|---|---|
| `"switch"` | another conversation is opened while an answer is read | `AnswersStayHome`, `EachOnce`, `ShownIsStored`, `NothingLost` |
| `"lateSync"` | the transcripts arrive after the state of the run | `EachOnce`, `NothingLost` |
| `"early"` | the user acts before the page's first requests return | all four |
| `"overlap"` | the user acts while a stopped reader is still asleep | all four |
| `"overtake"` | requests reach the server in any order | `EachOnce`, `ShownIsStored`, `NothingLost` |
| `"errorFirst"` | an answer consists of an error alone | `EachOnce`, `NothingLost` |

`missed` marks that a request failed which the page does not repeat: the three invariants do not speak of such a
history (a lost append is lost), and the user then stops acting (`Settled`).

### DeployCards

A card is a record of id, address, colour and status (success and failure are one status, `"done"`). `cards` and
`tombs` are the two files, `copy` the file as a process has read it that will write a verdict back, `jobs[t]` the
list on the page, `snap[t]` the store's. `Commit` is `commitJobs`: the new list is shown at once and `Diff` sends a
DELETE or a POST per difference; `out` and `inbox` are requests and replies. `Add`, `Retry`, `Restart`, `Delete`, `Color`,
`Sync`, `Reload` are the user; `Serve...` the endpoints; `Ends` and `VerdictWritten` a deploy that ends and the write
of its verdict, by either process; `DeleteTorn` a process that dies between the file of cards and that of tombstones;
`Hears`, `Frame` and `Settled` a page that learns of a verdict. `fresh[t]` says that nobody else changed the server's list
since the tab's last GET and that none of the tab's requests failed or was refused; `ShownIsStored` is stated for such
tabs. The exception for a refused POST was found by the proof: `saveJob` (`deployJobsStore.ts:151`) takes the card that
the server's tombstone refuses out of the store, but the page has a list of its own, ignores the `false` it returns
(`DeployDashboard.tsx:118`) and shows the card until its next GET.

| `Odds` | what happens | violated |
|---|---|---|
| `"early"` | a tab changes its list while it waits for the server's | `ShownIsStored` |
| `"overtake"` | requests of a tab reach the server in any order | `ShownIsStored` |

### SshDualPort

Two actors. The server runs what is left of a script line by line, goes down and comes up; its sshd serves what its
configuration says at each (re)start, `dead` ports excepted. The pipeline goes through stages `pc`, sees only whether
a port answers, and may lose its connection anywhere. `ConfigScript`, `RebootScript`, `CleanupScript` are the scripts as
sequences of lines, of which a shell that is cut off runs a prefix. `verdict` is what the task reports.
A line may also have no effect (`SkipLine`), for the scripts run without `set -e`. Those of the clean-up, the rollback and the
whitelist are sent with `check=False` besides; there a skipped line is an ordinary step, and the pipeline goes on as if
nothing had happened. In the script that configures both ports it is the odd event `"lineFails"`; only its `sshd -t` is
checked. `skipped` remembers which kinds of lines of the current deploy had no effect, `kept` the ports that a failed
`drop` left in the configuration, of any deploy.

| `Odds` | what happens | violated |
|---|---|---|
| `"lostStatus"` | the exit status comes after the end of output and reads as 0 | `NeverLockedOut`, `VerdictIsTrue` |
| `"powerCut"` | the power goes between two lines that write the ports | `NeverLockedOut` |
| `"upgrade"` | step 2 upgrades openssh-server, which restarts sshd | `ColdStartProven` |
| `"lineFails"` | a line that prepares both ports has no effect, and the script goes on | `NeverLockedOut`, `VerdictIsTrue` |

Two assumptions: a new deploy of a server waits until the script of the previous one has ended, with no
reboot pending; and a port that is dead (the provider, SELinux, a socket unit) stays so.

### Rules

An evaluator, the scheduler or one delivery of a webhook, is a process with a program counter: it reads the rules
once (`ListRules`), looks at each (`Looks`: which scopes have an event, and which of these may fire), awaits the actions
of each (`Acts`) and notes the firing (`MarkReads`, `MarkWrites`), while users create, change and delete
rules. A node in `down` has an incident longer than the rule's threshold. `steady` are nodes that
stay down for the whole tick, which is what `AlarmsOnTime` owes an alarm for. A firing is dated as `last_fired` dates it,
with the start of the evaluator's turn and not with the moment the alarm goes out, so two alarms may *arrive* closer
together than the cooldown by as long as the actions before the first one took.

Processes die at any moment. Between the actions and the note that is the odd event `"crash"`; inside a write of the file it is
`TornWrite`: `storage._write` truncates the file and then fills it, and `_read` takes what is left for a file without
rules. `lost` are the rules that went that way, and `RulesAsSaved` speaks of all others.

| `Odds` | what happens | violated |
|---|---|---|
| `"crash"` | the process dies between the actions and the note | `AlarmsOnTime` |
| `"split"` | the scheduler is in another process than the gateway: two writers of one file | `RulesAsSaved` |
| `"retrigger"` | a trigger changes while an evaluator looks at the rule, or keeps a firing from before scopes | `AlarmsOnTime` |

Two deliveries at a time (`Hooks` with two members) violate `AlarmsOnTime` as well. `"split"` is no accident: it is the
split profile of `docker-compose.yml`. The run then speaks of the default one, a gateway alone.

## 4. The runs

Deadlock is checked in the runs of `JobQueue` and `WorkerLease`, where a gateway can always
take a step; the others switch it off, because a task, a conversation, or the last run that the bound
allows may simply be over.

| run | instance | what it shows |
|---|---|---|
| `queue_safety` | 1 gateway, 2 workers, 2 rows, 1 kill or shutdown, ids reused, failing statements, retention | a job runs at most once (a restart's replacement included), the payload is an unused ticket, nothing is started after its verdict, and only the reaper decides over a job that runs |
| `queue_settle` | 2 gateway ids, 1 worker, 2 rows, 1 kill or shutdown, no id reused, polls that raise | every queued or claimed job gets a verdict that stays; a stop ends a claimed job that would hang, as long as the job's watcher lives |
| `memory_safety` | 2 viewers, 3 lines, buffer of 2, 2 steps | `LogView` is implemented; a viewer with an empty queue knows everything, and the task still goes on |
| `shared_stream` | 1 viewer, 4 lines, replay of 2, polls of 2, 1 fault, a reaper | `LogView` is implemented whatever commits between two SELECTs; the stream ends unless a read failed, and with the verdict unless a reaper interfered |
| `lease_duty` | 2 gateway ids, 1 worker id, TTL 3, lag 1, acquire may raise | until acquire raises, a renewing holder's lease is fresh and the gateway yields; takeover is in time; rules are evaluated for ever wherever a gateway is, and a lone gateway runs its own loops too |
| `lease_backup` | gateway and worker | *violation*: finding 1 |
| `ai_runs` | 2 conversations, 2 readers, 2 runs, registry of 1, buffer of 2 | agents stay in reach, answers are saved once and whole, readers see them, everything ends |
| `chat_answers` | 2 conversations, 2 questions, 1 reload, 2 broken connections or lost requests | page and server agree on a transcript that has each message once, whole, in its place, in its own conversation; the page stops being busy |
| `chat_switch` | the same with two readers and `"switch"` | *violation*: finding 2 |
| `cards_lists` | 2 tabs, 2 deploys, 2 further actions, reloads or failures | no card is deleted unasked, doubled or brought back; a tab nobody interfered with shows what is stored |
| `ssh_move` | 3 ports, 3 deploys, 1 reboot nobody asked for, lines without effect | the owner is never locked out; SSH answers where a verdict says, and nowhere else if the lines that give the other port up had their effect; the old port goes only after a start that proved the new one |
| `rules_alarms` | 1 rule, 2 nodes, 1 webhook, 4 instants, 2 edits, deaths, torn writes | edits survive the notes of firings, and only a torn write loses rules; no alarm comes early, none is missed because of another node's |

The type invariants of `SshDualPort` (`TypeOK`) and of `AiChat` (`ChatTyped`) are in no run: the first is proved as it
stands, the second as a part of `HomeInv`, under what `AnswersStayHomeHolds` assumes.

**Bounds.** Named in the modules: `MaxTasks`, `MaxDowns`, `MaxExpired`, `MaxLines`, `MaxSteps`,
`MaxFaults`, `MaxStarted`, `MaxAsked`, `MaxDrops`, `MaxReloads`, `MaxEvents`, `MaxDeploys`, `MaxCuts`, `MaxTime`,
`MaxEdits`. Two rows are what a restart needs (the old job and its replacement),
and what makes "oldest first" and a full `MaxSessions` of 1 happen; with two workers the
duty can change hands in the middle of a claim, and one death in any place is what the reaper is for. Ids are taken once unless
`ReuseIds`, so a second gateway id is a restarted gateway. Logs are longer than the buffer
or the poll limit, so that overflow and a continued poll happen; a log line is written
after the verdict. The lease's TTL of 3 s, periods of 1, 2 and 4 s and a lag of 1 s keep the
order of the real ones (a TTL of 180 s over loops of a minute, and minutes for the gateway's own), with
lapses, steals and the second between `<` and `>` all reached. A registry of one run and two conversations is the
smallest that evicts; two readers are the fewest that can take each other's wake-up.
Two questions are a conversation whose answer is not the last, or two conversations; an answer of one delta or of a
delta and an error is enough for a prefix, and two drops break an answer and its reconnect. Two tabs are a
stale one beside a fresh one, two deploys a card that another is restarted as. Three deploys of one server are a
failed attempt, its repetition, and one from the port reached. One rule, two nodes and a cooldown of two ticks
in four instants are a cooldown that blocks, one that is over, and another node's that must not matter.
The theorems of section 6 do not depend on any of these.

**Fairness.** Written out in each module, and only what the code or its deployment does:

* the event loop runs a ready coroutine at last. Where a coroutine may find its loop inside
  another's synchronous section again and again this is strong fairness (`Owed`,
  `EndsByItself` in `JobQueue`; `Poll`, `Send` in `SharedTaskLog`), elsewhere weak;
* sleeping loops wake up and time passes (`LeaseExpires`, `Second`; not the timeout of `AiRuns`, so
  `EveryStreamEnds` holds without it);
* docker restarts the gateway (`restart: unless-stopped`), nothing starts a worker;
* a job ends by itself (`EndsByItself`), which is an assumption about the servers: single commands have a timeout, but a
  script is run without one (`services/pipeline.py:606`, `services/ssh_manager.py:149-152`). It is *not* assumed of a
  job whose stop was asked for while it was watched, since `StopEndsWatchedJob` must hold for one that hangs;
* a job that logs ends (`SharedTaskLog`); an agent of `AiRuns` need not: nothing is assumed of it;
* a request of the page arrives or fails, the answers to it too (`Arrives`, `Boots` in `AiChat`), its timers fire
  (`Retries`), and an agent comes to an end (`MAX_RUNTIME` sees to that);
* nobody is assumed to send requests, to read, to leave or to die.

`DeployCards`, `MemoryTaskLog`, `SshDualPort` and `Rules` are checked for safety only and state no fairness.

## 5. Findings

1. `lease_backup` - `services/auto_backup.py:98`. Backups, updates and provider sync run only in the
   gateway, but wait for the monitoring lease, which a monitoring worker never gives up: in the
   split profile nobody runs them, against `main.py:104-105`.
2. `chat_switch` - `src/frontend/src/components/automation/aiRunner.ts:598`. The reader of an answer writes into the
   conversation that is open, not into the one it answers; open another one meanwhile and the answer continues
   there, and is stored there, against `aiRunner.ts:47`.

Seen while modelling, without a run of their own. Where a property is named, the models show it with the constant
changed as said:

*Jobs and logs*

* a container restarted in place has the hostname and pid of its predecessor, so the reaper takes the job that
  was running for its own: it stays RUNNING (`services/job_runner.py:106`; `ReuseIds = TRUE` violates `EveryJobSettles`);
* one poll of the stop flag that raises ends the watcher of that job for good; a later stop is accepted and flagged, and
  nobody sees it (`services/job_runner.py:92`), against `tests/test_job_runner.py:191`: "`POST /api/deploy/stop` in the gateway
  must reach a worker elsewhere". `StopEndsTheJob`, which is `StopEndsWatchedJob` without its exception, is violated under
  `HangingSpec`, where no stopped job ends by itself;
* a worker that takes the lease reaps jobs that a live gateway runs, against "A long-but-healthy job is therefore
  never touched" (`services/job_runner.py:103-104`; the exception in `OnlyTheReaperInterferes`);
* the read of a payload that raises after the claim leaves a row of a live process that does not run it
  (`services/shared_task_store.py:390`; `DbFaults = {"payload"}` violates `EveryJobSettles`);
* the two counters of one process, run_forever's and deploy.py's semaphore, together allow
  twice `max_ssh_sessions` (`services/job_runner.py:228-231`);
* a deploy that the gateway runs itself has no claimer; if the gateway dies the row stays
  RUNNING, and a stop of it is answered ok (`services/shared_task_store.py:507`);
* the closing line of a successful deploy follows the verdict, so a live viewer never sees it
  (`services/pipeline.py:2669`), and if writing it raises, the success becomes a failure;
* one failed read ends the tailer without telling the handler, and the browser is pinged for ever, against "The
  stream ends with "done"" (`services/shared_task_store.py:320`, `api/ws.py:11`); `EveryStreamEnds` excepts it;
* the retention deletes a row that is being watched, and a missing row reads as PENDING, for ever
  (`services/shared_task_store.py:350`);
* a task's window: an operation that is "pending" does not count as busy (`DeployCard.tsx:262-265`), and in
  `useTaskStream.ts` the `onclose` of an old socket clears the reference to the new one, and a socket that
  closes without `done` is never reopened.

*Leases and rules*

* `autostart_checker` looks at the lease once, awaits Docker and starts the container (`api/xray_checker.py:475`);
* a worker that crashes at every start takes the lease each time, and the duty stays dark
  (`services/worker_lease.py:70`; `TakeoverInTime` counts from the last start or end of a process);
* a rule switched off or deleted during a tick still fires in it, against `services/rule_engine.py:9`;
* two deliveries of a webhook both pass the cooldown; a crash before the note repeats the alarm;
  in the split profile the note of a firing can undo an edit, or an edit the note;
* `storage._write` is not atomic (`hostings_store._write` is): a process that dies inside it loses every rule of the
  workspace, which `RulesAsSaved` admits (`TornWrite`), and a reader in another process may see an empty file meanwhile,
  after which `add_rule` writes a file with the new rule alone;
* a PATCH from a stale page names an old `token_ref`; the collection of unused tokens then deletes the
  new token and leaves the rule without one, and that of a deleted rule takes a token another rule may share,
  against the comment at `services/rules_store.py:189`.

*Chat*

* besides `"switch"`, the rows of the table of `AiChat` in section 3;
* the watchdog throws inside a timer, where nobody catches it: a connection that dies silently leaves the page
  busy for ever, against `aiRunner.ts:418` (`SendingEnds`, which is `BusyEnds` without its exception, is violated);
* a question sent while a run of the conversation goes on is stored, and no agent answers it (`api/ai.py:321`);
* an answer that is an error alone is stored twice, for the page writes a line break before it (`ai_chat_persist.py:69`);
* `AiRuns`: a full registry pushes out the oldest run even while its agent works; then a stop does
  not reach it and the next question starts a second agent in the same conversation
  (`services/ai_runs.py:105`). `AgentsInReach` excepts exactly these, by the history variable `evicted`;
* `AiRuns`: a task that is cancelled after a stop adds a second "Ответ остановлен." to the buffer, on
  the screen but not in the saved answer (`services/ai_runs.py:144`).

*Deploy cards*

* a page that reports a verdict or a colour POSTs the whole card, so a stale one undoes what another page or the server
  wrote meanwhile (`DeployDashboard.tsx:276`, against the comment at `:99-100`);
* `DeployDashboard.tsx:145-146` speaks of a retry of failed requests; there is none but the next reload;
* a DELETE that dies between the two files, or that finds no card, leaves no tombstone (`api/deploy_jobs.py:231-237`);
* a POST that is refused because of a tombstone leaves the card on the page until its next reload;
* the synchronisation with Remnawave removes cards of deploys that are under way;
* pages POST finished cards again each time they are opened.

*SSH port*

* new port equal to the current one: "drop the old port" drops the only one, and the owner is locked out
  (`Forms <- AnyForm` violates `NeverLockedOut`). Nothing in `DeployForm.tsx:198-203` or `models/deploy.py:31-32` forbids it;
  the defaults of `new_ssh_port` and of the node's own port are both 2222;
* the clean-up is not checked: with the line that drops the old port or the restart of sshd failed, the old port is still
  configured or served after a deploy that ended in success (`services/pipeline.py:904`), against `pipeline.py:735` ("keep only
  the new port") and the script's own last line (`:753`); the rollback is alike. `OnlyThePort`, which is `VerdictIsTrue`
  without its exceptions, is violated;
* a deploy repeated after the move went through connects to the old port; a failed `sshd -t` leaves the configuration of both ports on disk;
* the exit status of a script may be read before it arrives, and `None` counts as 0 (`services/ssh_manager.py`).

## 6. Proofs

All theorems are proved by TLAPS to the last leaf, for any values of the constants that satisfy
the named assumptions of the module.

**`JobQueueProofs`** (`ProcsAssumption`: the two roles share no holder id; `BoundsAssumption`).
`TypeCorrect` is inductive by itself. The rest comes from

    IInv == TypeOK /\ Unused /\ PayloadIsTheTicket /\ RunAtMostOnce

`RunAtMostOnce` is not inductive: that a coroutine is created only once depends on *who may
create one*, and that is whoever finds a payload. `PayloadIsTheTicket` says so: a row that still
has its payload is open, unclaimed or claimed by the one process about to read it, has not been
handed out, and has no replacement. `Unused` says that ids beyond the counter are blank. Most
steps are *tame*: they hand no ticket out (lemmas on `Tame`); submission, restart, claim and the
read of the payload have a lemma each. Theorems: `RunAtMostOnceHolds`, `TicketHolds`,
`PayloadWipedHolds`, `NoStartAfterVerdictHolds` (an action property). No assumption on crashes,
reused ids or faults: they are part of `Next`. `PayloadWiped` (a verdict leaves no credentials behind)
follows from the ticket and has no run of its own.

**`WorkerLeaseProofs`** (`ProcsAssumption`; `TimesAssumption`, of which `PollEvery + Lag < TTL` is what
matters). `HolderNeverLapsesHolds` and `GatewayYieldsHolds` hold until an acquire has raised (`~faulted`) -
fail-open means exactly that they fail afterwards - and rest on

    HoldInv == TypeOK /\ OneEach /\ ShortTurns /\ Covered /\ WorkerHolds

where `Covered` ties the lease's remaining time to the time to the next short turn of its holder.
`TakeoverInTimeHolds` needs no such condition: `DarkInv` bounds `dark` against the clock that will
end it, a worker's next turn (`WorkerSoon`), the dead holder's lease (`LeaseRunsOut`) or the
gateway's next turn (`GatewaySoon`).

**`AssistantProofs`, the runs** (`KeyAssumption`, `RunsAssumption`). The module proves about both halves of the assistant,
`AiRuns` and `AiChat`; neither half uses the other's facts.

    IInv == TypeOK /\ Keyed /\ AgentsInReach /\ StreamShowsTheAnswer /\ \A r : Sound(runs[r])

`Sound(run)` is what holds of a run by itself: a done run has no agent at work, and what was
saved reaches its last `"work"` event. Every operation on a run yields one that has `Grown` from
the old: sound, of the same conversation, with what was saved unchanged, and no agent back at
work; the lemmas prove that once per operation (`AppendedSound`, `CancelledSound`,
`FinishedSound`, `StoppedSound`, `OverSound`). A step that starts no run then keeps `IInv` if its
runs, its book-keeping and its streams are tame (`TameKeepsIInv`); starting one has a lemma of its
own, in which `AgentsInReach` uses that the conversation's previous run was done. Theorems:
`TypeCorrect`, `AgentsInReachHolds`, `SavedOnceAndWholeHolds`, `StreamShowsTheAnswerHolds`.

**`AssistantProofs`, the transcript** (`ConvAssumption`, `BoundAssumption`, and `Odds = {}`: section 3 shows that each odd breaks
at least one of the three theorems). A lost request that nobody repeats may lose a message, so the invariant is
`ChatInv == missed \/ ChatGood`, and a step that misses one has nothing left to keep. `ChatGood` says where each message is, on
its way from the page to the server:

| part | what it says |
|---|---|
| `Lists` | a transcript, stored or shown, is questions of its conversation in their order, each followed by one reply at most, and no piece of it twice (`WellMade`) |
| `Runs`, `OneRun` | what a run has said is `1, 2, ...` and perhaps an error; at most one goes on, its question is the last thing stored, and only a stop can be next on the wire |
| `Appends`, `Replaces`, `Chats` | what the requests under way hold, and that it fits the transcript *as it will be when they arrive*: a question is newer than all there is, a reply is a beginning of what the server stored or will store (`Takes`), a whole conversation lacks no finished answer |
| `Handles`, `OnScreen` | one reader at most, and which; it writes the beginning of the run's answer, as far as it has read, after the question it asked |
| `AtServer` | how far the server is with that question: not arrived (`Pending`), or begun, going on or answered (`Begun`) |
| `Booting` | while the page waits for the transcripts nothing else is under way, and a run that goes on is one it has asked about |
| `Saved`, `Landing` | a finished answer is stored whole; every message on screen is stored, or some request on the wire brings it and none behind that takes it away (`Lands`) |

None of the three properties is inductive. That `_dedup` recognises the page's copy of an answer (`EachOnce`) depends on the
copy being a beginning of what the run says *in the end*, so on every stage of a reader, through breaks, reconnects and
the wipe of the reply; that the write of a whole conversation after a reload takes nothing away (`NothingLost`) depends on
what the page was sent before; and `Lands` must say which of several requests matters. The text of an answer is compared by
prefixes throughout, never computed: what `Deduped` returns is a lemma per case (`SameQuestionDropped`, `FirstReplyKept`,
`ShorterReplyDropped`, ...). Theorems: `ChatInvHolds`, `EachOnceHolds`, `ShownIsStoredHolds`, `NothingLostHolds`, for any number of
conversations, questions, readers, deltas, attempts, broken connections and reloads.

`AnswersStayHome` is proved under less: only `"switch"`, `"early"` and `"overlap"` are excluded, each of which breaks it (section
3; `chat_switch` is the first). Requests may overtake each other, transcripts come after the state of the run, answers be
errors, and requests fail. `ChatInv` is of no use here, it says nothing once a request was missed. The invariant is
`HomeInv`, which gives up what the messages say and keeps what they are about:

| part | what it says |
|---|---|
| `Placed`, `Sent` | what is stored, shown or under way for a conversation speaks of its own questions only |
| `Owned` | a run belongs to the conversation it is kept for, and a listed conversation that had one is in the file |
| `Reading` | an answer is read where its question was asked, in the open conversation; while transcripts are awaited, that one is in the file |
| `Looking` | the page asks for the run of the open conversation, or of one that has none and will get none |

The step that decides is `SyncReturns`, late as it may be: `syncSessions` opens another conversation when the open one is not
among those of the server, under the reader's hands. That this never happens to a conversation being read is the second
half of `Owned` and of `Reading`, and `Looking` is why a reader that `resume` starts is in one of these. Theorem:
`AnswersStayHomeHolds`.

**Invariant of a job's place** (also in `JobQueueProofs`). `OnlyTheReaperInterferesHolds` is about steps of other processes, so
it needs more than the ticket: `Exclusive` says that a job is in one process at most, that nobody runs what was never
handed out, and that an unclaimed row, or one whose claim is in progress, is such a row. Then a verdict given to a row
in which somebody's job is alive comes from that process, or from the reaper. No further assumption.

**`MemoryTaskLogProofs`** (`LogAssumption`). Theorems: `TypeCorrect`, `CaughtUpHolds`, and the refinement,
`LogViewImplemented`. The invariant is one sentence per open handler, `Follows`: its queue carries the lines after the last
one it sent up to the last one written, each once and in order (`Carried`, with a witness that says how many lines
each prefix of the queue shows); reading the queue's status frames from what it last saw gives the current status
(`Tells`); and once there is a verdict, a `done` is in the queue after the lines that came before it. `Carried` and
`Tells` have lemmas for appending (a broadcast), taking the head (a frame sent) and the replay; the actions then only
choose which. `IInv` also says that a handler that has not connected was sent nothing, and when `owed` is set.

**`SharedTaskLogProofs`** (`LogAssumption`). Theorems: `TypeCorrect`, `DoneTellsTheVerdictHolds`, `LogViewImplemented`. Here the
queue lags behind the database, and the tailer's `last` is what ties them: of an open handler there are `a <= b` with
line `a` sent last, `b` the tailer's `last` (or the replay's), and `queue` carrying the lines `a + 1 .. b` (`Runs`).
`Closes` says that `done` comes last and only when `b` has reached `owed`; a tailer that has read a terminal row and is
about to drain has, by then, the lines that were committed before it. `VerdictGiven` ties `owed` to the verdict,
with the exception of a task that a reaper took for an orphan while its job still writes. Nothing is assumed about
which process commits between two SELECTs, nor about reads that raise.

**`SshDualPortProofs`** (`PortsAssumption`, `OddsAssumption`, `BoundsAssumption`). A script outlives the pipeline that sent it,
so the invariant follows what is *left of the script*, not only the stage: `Shell` says for each suffix of each
script what is configured and allowed between two lines, `Stage` what the pipeline may rely on, `Untouched` that a
server with its firewall off is as it was found, `Valid` that nothing restarts sshd before `sshd -t` said yes and what
a verdict implies, `Warm` what sshd can be serving. Each theorem names the odd events
it does without; the table in section 3 shows that it breaks with them:

| theorem | assumes |
|---|---|
| `TypeCorrect` | nothing |
| `NeverLockedOutHolds` | `DistinctPorts`, no `"lostStatus"`, `"powerCut"`, `"lineFails"` |
| `VerdictIsTrueHolds` | `DistinctPorts`, no `"lostStatus"`, `"lineFails"` |
| `ColdStartProvenHolds` | `DistinctPorts`, no `"upgrade"`, `"lineFails"` |

None of them assumes that a line of the clean-up or of the rollback works. What such a line leaves behind is part of the
invariant: a port that should be gone but is still configured is one of `kept` (`Dropped`), and sshd serves what the last
start of the server brought up or one of these (`Warm`), since the restart at the end of a later script may bring it up.

`DistinctPorts` is that the form asks for a port other than the current one. Nothing in the code sees to it (section
5), and without it the first two are false.

**`RulesProofs`** (the named assumptions of `Rules`). `TypeCorrect` needs no condition. `RulesAsSavedHolds` assumes `"split" \notin Odds`,
one process that writes the file: an evaluator about to write its mark holds the file as it is, and is alone in that
(`Sole`). That process may die at any point, inside a write too; what is lost then is the file that was being
written and no more. `AlarmsOnTimeHolds` assumes `Odds = {}` and `OneHook`, one delivery of a webhook at a time; section 3 shows each
odd event, and two deliveries, to break it. Its invariant `Timely` is about *old news*: what the file, and every list
that an evaluator has read but not yet worked off, note of a scope's last firing is when it fired (`Noted`; the
form before scopes included), so that the cooldown judged on a list read minutes ago is still judged right; what is
about to fire is due (`Due`); and of the rules the scheduler is through with, none has passed over a node that stayed
down (`Told`). `Kinds` says which of the two evaluators looks at a rule, which is why they do not meet.

**`DeployCardsProofs`** (`ValueAssumption`, `BoundAssumption`). `TypeCorrect`, `DeletedStaysHiddenHolds` and `OnlyAskedDeletesHolds` hold for any `Odds`, any
number of tabs, torn deletes and failures included. A list on a page is data that travels: out as requests, back as
replies, through a server that meanwhile gives out new ids. So the invariant has a part for the server (`Server`), and
for each tab one for its lists (`PageIn`), its requests and replies (`WireIn`: a request deletes only what was asked for)
and one that keeps ids apart (`Clear`): the task of a deploy is on no list of the tab, nor on one it gets before the reply
to that deploy, so that no id is ever twice on a page. `OnlyAskedDeletes` needs the whole of it, for the difference of
two lists sends a DELETE for everything that is on one and not on the other.

`ShownIsStoredHolds` assumes `Odds = {}`; section 3 shows that it breaks with either odd. The lists of page, store and
server differ nearly always, by what is still on the wire. The invariant (`Mirror`) therefore compares them one id at a
time, for the tabs that are `fresh`: `Reaches(list, o, page, i)` says that the last request in `o` that writes `i` writes
what the page has, or, if none does, that the list has it already. `Faithful` asks this of the server's list and of the
store's, with three exceptions, each a way the page is still to learn of something: a card that a reply on its way will
bring (`Coming`), a verdict that it has not taken note of (`Unseen`), and everything while the list itself is awaited
(`Loading`); of a list on its way it says that it is the server's but for such verdicts (`Good`). It is inductive only
because of the order of things (`Queued`): a list is waited for alone and its request is the last one on the wire, so no
write of the page can be behind the list that replaces it, and what a page sent before it was reloaded is served before
the new page's GET. `Queued` is what `"overtake"` and `"early"` break.

**Only model-checked.** All liveness (TLAPS does not reason about fairness or ENABLED): `EveryJobSettles`,
`StopEndsWatchedJob`, `EveryStreamEnds` (twice), `DutiesRun`, `EveryEndIsSaved`, `BusyEnds`. And that each of the `Odds` matters: the
tables of section 3 and the two runs that expect a violation.

## 7. Left out, and why

* What a deploy or node operation does over SSH, parsing, formatting and the content of log lines: the
  models only know that a step succeeded, failed, logged or was cancelled.
* The payload's encryption: whether it is there is what the properties are about.
* `TaskStore.cleanup` and `SharedTaskStore.cleanup`, which nothing outside the tests calls.
* Pings of the WebSocket, which change no state; a viewer's queue is unbounded, as in the code.
* A restart of the gateway in `AiRuns`: the runs live in memory and are meant to die with it
  (`services/ai_runs.py:13-16`). The `start` parameter of `/chat/resume`: the client does not use it.
* Clock jumps in `WorkerLease`: time only goes forward, at the same rate for every process.
* `AiChat`: attachments and uploads, `/compact`, folders, questions with identical texts, the eviction of finished
  runs after `DONE_TTL`. A request that fails and is not repeated ends the user's part of the behaviour.
* `DeployCards`: the order of the list, cards of HAProxy and of private nodes, a restart refused for an unreadable
  payload, PUT (which no page sends), leaving the page without a reload, a retried deploy of unknown result.
  The end of a deploy and the read of the file by whoever writes its verdict are one step (`Ends`), the write another.
  Replies reach a tab in the order of its requests. This matters only under `"early"`: a list that overtakes the reply to
  a deploy, and shows its card twice (`DeployDashboard.tsx:232`), is outside the model.
* `SshDualPort`: fail2ban, rules of UFW that are not about SSH, the steps before and after, a deploy that keeps the port.
  A socket-activated sshd is one whose new port is dead.
* `Rules`: what the actions do, the vault of tokens, conditions, filters and thresholds (whether a node has an event for a
  rule is a choice), other workspaces (they delay a tick), the manual test run, which notes nothing. A write of the file
  by the gateway is one step unless the process dies in it (`TornWrite`); all rules have one cooldown and one interval.
