---------------------------- MODULE MemoryTaskLog ----------------------------
(***************************************************************************)
(* The in-process task and its log (services/task_store.py), read by the   *)
(* WebSocket handler (api/ws.py).  Producer and handlers are coroutines of *)
(* one event loop and every mutator is synchronous, so a step is what runs *)
(* between two awaits: several mutator calls in a row are one step.        *)
(***************************************************************************)
EXTENDS Integers, Sequences

CONSTANTS
    Viewers,   \* WebSocket connections to /ws/logs/{task_id}
    Cap,       \* maxlen of the ring buffer of lines
    MaxLines,  \* bound: lines the task writes before its last ones
    MaxSteps   \* bound: total_steps

ASSUME LogAssumption == Cap \in Nat \ {0} /\ MaxLines \in Nat /\ MaxSteps \in Nat

VARIABLES
    lines,   \* lines ever written; a line is its rank
    step, status,
    subs,    \* _subscribers: the viewers whose queues are broadcast to
    queue,   \* per viewer, the frames not yet sent
    at,      \* per viewer, where its handler is
    got,     \* per viewer, the lines it was sent
    saw,     \* per viewer, the last status frame it was sent
    owed     \* history: lines written when the verdict was given, -1 before

task == <<lines, step, status, owed>>
view == <<at, got, saw>>
vars == <<task, subs, queue, view>>

Terminal == {"success", "failed"}

LogFrames(from, to) == [i \in 1 .. to - from + 1 |-> <<"log", from + i - 1>>]
StepFrame(s, st) == <<"step", s, st>>
Done == <<"done">>

-----------------------------------------------------------------------------
(* The producer: a pipeline or a node operation                             *)

Broadcast(frames) ==
    queue' = [v \in Viewers |-> IF v \in subs THEN queue[v] \o frames ELSE queue[v]]

\* add_log
AddLog ==
    /\ status \notin Terminal /\ lines < MaxLines
    /\ lines' = lines + 1
    /\ Broadcast(LogFrames(lines + 1, lines + 1))
    /\ UNCHANGED <<step, status, owed, subs, view>>

\* set_step; a pipeline's steps only go up, and not every step reports
SetStep(s) ==
    /\ status \notin Terminal /\ s > step
    /\ step' = s /\ status' = "running"
    /\ Broadcast(<<StepFrame(s, "running")>>)
    /\ UNCHANGED <<lines, owed, subs, view>>

\* Mutant: the verdict goes out before the line that explains it.
FinishBeforeLine(verdict, before, after) ==
    /\ status \notin Terminal
    /\ status' = verdict
    /\ lines' = lines + before + after
    /\ owed' = lines + before
    /\ Broadcast(<<StepFrame(step, verdict), Done>>
                   \o LogFrames(lines + 1, lines + before + after))
    /\ UNCHANGED <<step, subs, view>>

\* finish, with what the same handler logs right before and right after it
Finish(verdict, before, after) ==
    /\ status \notin Terminal
    /\ status' = verdict
    /\ lines' = lines + before + after
    /\ owed' = lines + before
    /\ Broadcast(LogFrames(lines + 1, lines + before)
                   \o <<StepFrame(step, verdict), Done>>
                   \o LogFrames(lines + before + 1, lines + before + after))
    /\ UNCHANGED <<step, subs, view>>

\* run_pipeline, _run_op: the closing line follows finish(SUCCESS), where there is one
Succeed == \E after \in {0, 1} : Finish("success", 0, after)

\* an exception or a cancel: the line, then the verdict
Fail == \E before \in {0, 1} : Finish("failed", before, 0)

-----------------------------------------------------------------------------
(* The WebSocket handler                                                    *)

Oldest == IF lines > Cap THEN lines - Cap + 1 ELSE 1

\* Mutant: a late subscriber is left to wait for a frame that was sent before.
ReplayWithoutDone == <<StepFrame(step, status)>> \o LogFrames(Oldest, lines)

\* what subscribe puts into the queue: the state, the ring buffer, the end
Replay == <<StepFrame(step, status)>>
            \o LogFrames(Oldest, lines)
            \o (IF status \in Terminal THEN <<Done>> ELSE <<>>)

Connect(v) ==
    /\ at[v] = "away"
    /\ at' = [at EXCEPT ![v] = "watching"]
    /\ queue' = [queue EXCEPT ![v] = Replay]
    /\ subs' = subs \cup {v}
    /\ UNCHANGED <<task, got, saw>>

\* Mutant: the queue goes, its entry in _subscribers stays.
UnsubscribeKeepsEntry(v) ==
    /\ subs' = subs
    /\ queue' = [queue EXCEPT ![v] = <<>>]

\* unsubscribe, in the handler's finally
Unsubscribe(v) ==
    /\ subs' = subs \ {v}
    /\ queue' = [queue EXCEPT ![v] = <<>>]

\* one turn of log_stream's loop; done carries the status as it is by then
Send(v) ==
    LET frame == Head(queue[v]) IN
    /\ at[v] = "watching" /\ queue[v] # <<>>
    /\ CASE frame[1] = "log" ->
              /\ got' = [got EXCEPT ![v] = Append(@, frame[2])]
              /\ queue' = [queue EXCEPT ![v] = Tail(@)]
              /\ UNCHANGED <<at, saw, subs>>
         [] frame[1] = "step" ->
              /\ saw' = [saw EXCEPT ![v] = <<frame[2], frame[3]>>]
              /\ queue' = [queue EXCEPT ![v] = Tail(@)]
              /\ UNCHANGED <<at, got, subs>>
         [] OTHER ->
              /\ at' = [at EXCEPT ![v] = "ended"]
              /\ saw' = [saw EXCEPT ![v] = <<@[1], status>>]
              /\ Unsubscribe(v)
              /\ UNCHANGED got
    /\ UNCHANGED task

\* a frame or a ping fails: the browser is gone
Disconnect(v) ==
    /\ at[v] = "watching"
    /\ at' = [at EXCEPT ![v] = "left"]
    /\ Unsubscribe(v)
    /\ UNCHANGED <<task, got, saw>>

-----------------------------------------------------------------------------
Init ==
    /\ lines = 0 /\ step = 0 /\ status = "pending" /\ owed = -1
    /\ subs = {}
    /\ queue = [v \in Viewers |-> <<>>]
    /\ at = [v \in Viewers |-> "away"]
    /\ got = [v \in Viewers |-> <<>>]
    /\ saw = [v \in Viewers |-> <<0, "none">>]

Next ==
    \/ AddLog \/ (\E s \in 1 .. MaxSteps : SetStep(s)) \/ Succeed \/ Fail
    \/ \E v \in Viewers : Connect(v) \/ Send(v) \/ Disconnect(v)

Spec == Init /\ [][Next]_vars

-----------------------------------------------------------------------------
Frames == {<<"log", k>> : k \in 1 .. MaxLines + 1}
            \cup {StepFrame(s, st) : s \in 0 .. MaxSteps,
                                     st \in {"pending", "running"} \cup Terminal}
            \cup {Done}

\* Every variable has its type; only handlers that are still open are broadcast
\* to and have frames waiting.
TypeOK ==
    /\ lines \in 0 .. MaxLines + 1 /\ step \in 0 .. MaxSteps
    /\ status \in {"pending", "running"} \cup Terminal
    /\ owed \in -1 .. lines
    /\ subs = {v \in Viewers : at[v] = "watching"}
    /\ queue \in [Viewers -> Seq(Frames)]
    /\ \A v \in Viewers \ subs : queue[v] = <<>>
    /\ at \in [Viewers -> {"away", "watching", "ended", "left"}]
    /\ got \in [Viewers -> Seq(1 .. MaxLines + 1)]
    /\ saw \in [Viewers -> (0 .. MaxSteps)
                             \X ({"none", "pending", "running"} \cup Terminal)]

\* The replay and the broadcasts together give every viewer each line once and
\* in order, and done only after every line written before the verdict.
View == INSTANCE LogView WITH written <- lines
ImplementsLogView == View!Spec

\* A viewer with nothing in flight knows all there is, the current step and
\* status and the last line, and the task still goes on: whenever a stream was
\* opened, nothing is shown to some viewers only, and what ends it is on its way.
CaughtUp ==
    \A v \in subs : queue[v] = <<>> =>
        /\ saw[v] = <<step, status>>
        /\ View!LastOf(got[v]) = lines
        /\ status \notin Terminal
=============================================================================
