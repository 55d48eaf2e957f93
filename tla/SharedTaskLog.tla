---------------------------- MODULE SharedTaskLog ----------------------------
(***************************************************************************)
(* The same contract over SQLite (SharedTask in services/                  *)
(* shared_task_store.py): the job runs in the worker, the gateway's        *)
(* WebSocket handlers poll its rows.  Each statement commits by itself, so *)
(* a line or a verdict may fall between any two reads of a poll.  Within   *)
(* the gateway a poll runs from sleep to sleep: no other coroutine of that *)
(* process gets in between.                                                *)
(***************************************************************************)
EXTENDS Integers, Sequences

CONSTANTS
    Viewers,     \* WebSocket connections to /ws/logs/{task_id}
    Cap,         \* _LOG_TAIL_CAP, lines a replay reaches back
    Batch,       \* LIMIT of one poll
    MaxLines,    \* bound: lines of the job's body
    MaxSteps,    \* bound: total_steps
    Reaped,      \* another process may take the running job for an orphan
    MaxFaults    \* bound: statements that raise

ASSUME LogAssumption ==
    /\ Cap \in Nat \ {0} /\ Batch \in Nat \ {0}
    /\ MaxLines \in Nat /\ MaxSteps \in Nat /\ MaxFaults \in Nat
    /\ Reaped \in BOOLEAN

VARIABLES
    lines,         \* rows of task_logs; a line is its rank
    step, status,  \* the task's row
    pc,            \* the job: "body", "closing", "failing", "over"
    reaper,        \* "idle", "verdict" (its line is written) or "done"
    faults,        \* statements that have raised
    tail,          \* per viewer, its tailer: where it is and what it last read
    queue,         \* per viewer, the frames not yet sent
    at,            \* per viewer, where its handler is
    got,           \* per viewer, the lines it was sent
    saw,           \* per viewer, the last status it was sent
    owed           \* history: lines written when the first verdict was given

task == <<lines, step, status, owed>>
writers == <<pc, reaper>>
view == <<at, got, saw>>
vars == <<task, writers, faults, tail, queue, view>>

Terminal == {"success", "failed"}

LogFrames(from, to) == [i \in 1 .. to - from + 1 |-> <<"log", from + i - 1>>]
StepFrame(s, st) == <<"step", s, st>>
Done == <<"done">>

-----------------------------------------------------------------------------
(* Writers: the job, and the reaper of another process                      *)

Writing == UNCHANGED <<tail, queue, view>>

\* add_log
AddLog == /\ lines' = lines + 1
          /\ UNCHANGED <<step, status, owed>>

\* finish
Finish(verdict) ==
    /\ status' = verdict
    /\ owed' = IF owed = -1 THEN lines ELSE owed
    /\ UNCHANGED <<lines, step>>

JobLog == /\ pc = "body" /\ lines < MaxLines
          /\ AddLog
          /\ UNCHANGED <<writers, faults>> /\ Writing

\* set_step; a pipeline's steps only go up
JobStep == /\ pc = "body"
           /\ \E s \in step + 1 .. MaxSteps : step' = s
           /\ status' = "running"
           /\ UNCHANGED <<lines, owed, writers, faults>> /\ Writing

\* run_pipeline: finish(SUCCESS), then the closing line
JobSucceeds == /\ pc = "body"
               /\ Finish("success")
               /\ pc' = "closing"
               /\ UNCHANGED <<reaper, faults>> /\ Writing

JobCloses == /\ pc = "closing"
             /\ AddLog
             /\ pc' = "over"
             /\ UNCHANGED <<reaper, faults>> /\ Writing

\* an exception or a cancel anywhere in the body; or the closing line raises,
\* which the same handler takes for a failed deploy
JobFails == /\ \/ pc = "body" /\ UNCHANGED faults
               \/ pc = "closing" /\ faults < MaxFaults /\ faults' = faults + 1
            /\ AddLog
            /\ pc' = "failing"
            /\ UNCHANGED reaper /\ Writing

JobFailed == /\ pc = "failing"
             /\ Finish("failed")
             /\ pc' = "over"
             /\ UNCHANGED <<reaper, faults>> /\ Writing

\* reap_orphans: the row was open when it was selected
ReapLine == /\ Reaped /\ reaper = "idle" /\ status \notin Terminal
            /\ AddLog
            /\ reaper' = "verdict"
            /\ UNCHANGED <<pc, faults>> /\ Writing

ReapVerdict == /\ reaper = "verdict"
               /\ Finish("failed")
               /\ reaper' = "done"
               /\ UNCHANGED <<pc, faults>> /\ Writing

-----------------------------------------------------------------------------
(* The gateway                                                              *)

NoTail == [pc |-> "off", last |-> 0, step |-> 0, status |-> "none"]

\* Nothing in this process is between two of its reads.
Turn == \A v \in Viewers : tail[v].pc \in {"off", "poll"}

Push(v, frames) == queue' = [queue EXCEPT ![v] = @ \o frames]

Oldest == IF lines > Cap THEN lines - Cap + 1 ELSE 1

\* subscribe reads the row first ...
Connect(v) ==
    /\ Turn /\ at[v] = "away"
    /\ at' = [at EXCEPT ![v] = "watching"]
    /\ Push(v, <<StepFrame(step, status)>>)
    /\ tail' = [tail EXCEPT ![v] = [pc |-> "replay", last |-> 0,
                                    step |-> step, status |-> status]]
    /\ UNCHANGED <<task, writers, faults, got, saw>>

\* Mutant: nothing tells the viewer of a finished task that it is.
ReplayWithoutDone(v) ==
    LET open == tail[v].status \notin Terminal IN
    /\ tail[v].pc = "replay"
    /\ Push(v, LogFrames(Oldest, lines))
    /\ tail' = [tail EXCEPT ![v] = IF open THEN [@ EXCEPT !.pc = "poll", !.last = lines]
                                           ELSE NoTail]
    /\ UNCHANGED <<task, writers, faults, view>>

\* ... then the log; with a verdict in the row it read, the stream is complete
Replay(v) ==
    LET open == tail[v].status \notin Terminal IN
    /\ tail[v].pc = "replay"
    /\ Push(v, LogFrames(Oldest, lines) \o (IF open THEN <<>> ELSE <<Done>>))
    /\ tail' = [tail EXCEPT ![v] = IF open THEN [@ EXCEPT !.pc = "poll", !.last = lines]
                                           ELSE NoTail]
    /\ UNCHANGED <<task, writers, faults, view>>

BatchEnd(last) == IF lines - last > Batch THEN last + Batch ELSE lines

\* _tail wakes up: a batch of new lines
TailLogs(v) ==
    LET end == BatchEnd(tail[v].last) IN
    /\ Turn /\ tail[v].pc = "poll"
    /\ Push(v, LogFrames(tail[v].last + 1, end))
    /\ tail' = [tail EXCEPT ![v] = [@ EXCEPT !.pc = "row", !.last = end]]
    /\ UNCHANGED <<task, writers, faults, view>>

\* Mutant: close as soon as the verdict is seen.
TailRowCloses(v) ==
    LET changed == <<step, status>> # <<tail[v].step, tail[v].status>>
        ended == status \in Terminal IN
    /\ tail[v].pc = "row"
    /\ Push(v, (IF changed THEN <<StepFrame(step, status)>> ELSE <<>>)
                  \o (IF ended THEN <<Done>> ELSE <<>>))
    /\ tail' = [tail EXCEPT ![v] = IF ended THEN NoTail
                 ELSE [@ EXCEPT !.pc = "poll", !.step = step, !.status = status]]
    /\ UNCHANGED <<task, writers, faults, view>>

\* Mutant: any change of the status ends the stream.
TailRowAnyChange(v) ==
    LET changed == <<step, status>> # <<tail[v].step, tail[v].status>> IN
    /\ tail[v].pc = "row"
    /\ Push(v, IF changed THEN <<StepFrame(step, status)>> ELSE <<>>)
    /\ tail' = [tail EXCEPT ![v] =
                 [@ EXCEPT !.pc = IF status # tail[v].status THEN "drain" ELSE "poll",
                           !.step = step, !.status = status]]
    /\ UNCHANGED <<task, writers, faults, view>>

\* then the row; a verdict means: drain what is left
TailRow(v) ==
    LET changed == <<step, status>> # <<tail[v].step, tail[v].status>> IN
    /\ tail[v].pc = "row"
    /\ Push(v, IF changed THEN <<StepFrame(step, status)>> ELSE <<>>)
    /\ tail' = [tail EXCEPT ![v] =
                 [@ EXCEPT !.pc = IF status \in Terminal THEN "drain" ELSE "poll",
                           !.step = step, !.status = status]]
    /\ UNCHANGED <<task, writers, faults, view>>

\* the drain goes on until a SELECT comes back empty
TailDrain(v) ==
    LET end == BatchEnd(tail[v].last) IN
    /\ tail[v].pc = "drain"
    /\ IF end = tail[v].last
       THEN Push(v, <<Done>>) /\ tail' = [tail EXCEPT ![v] = NoTail]
       ELSE /\ Push(v, LogFrames(tail[v].last + 1, end))
            /\ tail' = [tail EXCEPT ![v].last = end]
    /\ UNCHANGED <<task, writers, faults, view>>

\* any read of a poll raises: _tail logs it and returns
TailRaises(v) ==
    /\ tail[v].pc \in {"row", "drain"} \/ (Turn /\ tail[v].pc = "poll")
    /\ faults < MaxFaults
    /\ faults' = faults + 1
    /\ tail' = [tail EXCEPT ![v] = NoTail]
    /\ UNCHANGED <<task, writers, queue, view>>

\* Mutant: the tailer goes on polling for a viewer that left.
UnsubscribeKeepsTail(v) ==
    /\ tail' = tail
    /\ queue' = [queue EXCEPT ![v] = <<>>]

\* unsubscribe cancels the tailer; the queue is garbage
Unsubscribe(v) ==
    /\ tail' = [tail EXCEPT ![v] = NoTail]
    /\ queue' = [queue EXCEPT ![v] = <<>>]

\* one turn of log_stream's loop; done carries the status as it reads by then
Send(v) ==
    LET frame == Head(queue[v]) IN
    /\ Turn /\ at[v] = "watching" /\ queue[v] # <<>>
    /\ CASE frame[1] = "log" ->
              /\ got' = [got EXCEPT ![v] = Append(@, frame[2])]
              /\ queue' = [queue EXCEPT ![v] = Tail(@)]
              /\ UNCHANGED <<at, saw, tail>>
         [] frame[1] = "step" ->
              /\ saw' = [saw EXCEPT ![v] = <<frame[2], frame[3]>>]
              /\ queue' = [queue EXCEPT ![v] = Tail(@)]
              /\ UNCHANGED <<at, got, tail>>
         [] OTHER ->
              /\ at' = [at EXCEPT ![v] = "ended"]
              /\ saw' = [saw EXCEPT ![v] = <<@[1], status>>]
              /\ Unsubscribe(v)
              /\ UNCHANGED got
    /\ UNCHANGED <<task, writers, faults>>

\* a frame or a ping fails: the browser is gone
Disconnect(v) ==
    /\ Turn /\ at[v] = "watching"
    /\ at' = [at EXCEPT ![v] = "left"]
    /\ Unsubscribe(v)
    /\ UNCHANGED <<task, writers, faults, got, saw>>

-----------------------------------------------------------------------------
Init ==
    /\ lines = 0 /\ step = 0 /\ status = "pending" /\ owed = -1
    /\ pc = "body" /\ reaper = "idle" /\ faults = 0
    /\ tail = [v \in Viewers |-> NoTail]
    /\ queue = [v \in Viewers |-> <<>>]
    /\ at = [v \in Viewers |-> "away"]
    /\ got = [v \in Viewers |-> <<>>]
    /\ saw = [v \in Viewers |-> <<0, "none">>]

JobOn == JobSucceeds \/ JobCloses \/ JobFails \/ JobFailed
Poll(v) == Replay(v) \/ TailLogs(v) \/ TailRow(v) \/ TailDrain(v)

Next ==
    \/ JobLog \/ JobStep \/ JobOn \/ ReapLine \/ ReapVerdict
    \/ \E v \in Viewers : \/ Connect(v) \/ Poll(v) \/ TailRaises(v)
                          \/ Send(v) \/ Disconnect(v)

Spec == Init /\ [][Next]_vars

\* The gateway's event loop runs the tailers and the handlers (one may find the
\* loop busy again and again, hence SF), and a job ends at last.
FairSpec == /\ Spec /\ WF_vars(JobOn) /\ WF_vars(ReapVerdict)
            /\ \A v \in Viewers : SF_vars(Poll(v)) /\ SF_vars(Send(v))

-----------------------------------------------------------------------------
Statuses == {"pending", "running"} \cup Terminal
LineIds == 1 .. MaxLines + 3
Frames == {<<"log", k>> : k \in LineIds}
            \cup {StepFrame(s, st) : s \in 0 .. MaxSteps, st \in Statuses}
            \cup {Done}

\* Every variable has its type; a tailer belongs to an open handler, and no two
\* of them are inside a poll.
TypeOK ==
    /\ lines \in Nat /\ lines <= MaxLines + 3
    /\ step \in 0 .. MaxSteps /\ status \in Statuses
    /\ owed \in -1 .. lines
    /\ pc \in {"body", "closing", "failing", "over"}
    /\ reaper \in {"idle", "verdict", "done"}
    /\ faults \in 0 .. MaxFaults
    /\ tail \in [Viewers -> [pc: {"off", "replay", "poll", "row", "drain"},
                             last: {0} \cup LineIds, step: 0 .. MaxSteps,
                             status: {"none"} \cup Statuses]]
    /\ queue \in [Viewers -> Seq(Frames)]
    /\ at \in [Viewers -> {"away", "watching", "ended", "left"}]
    /\ \A v \in Viewers : at[v] # "watching" => tail[v] = NoTail /\ queue[v] = <<>>
    /\ got \in [Viewers -> Seq(LineIds)]
    /\ saw \in [Viewers -> (0 .. MaxSteps) \X ({"none"} \cup Statuses)]
    /\ \A u, v \in Viewers :
          (tail[u].pc \in {"replay", "row", "drain"}
             /\ tail[v].pc \in {"replay", "row", "drain"}) => u = v

\* Replay and polling together give every viewer each line once and in order,
\* and done only after every line committed before the first verdict: no line
\* or verdict that lands between two reads of subscribe or of _tail is lost.
View == INSTANCE LogView WITH written <- lines
ImplementsLogView == View!Spec

\* The verdict a stream ends with is one: done means success or fail.  (A job
\* that was taken for an orphan may write "running" over its verdict.)
DoneTellsTheVerdict ==
    \A v \in Viewers :
        at[v] = "ended" /\ reaper = "idle" => saw[v][2] \in Terminal

\* Every stream of a task ends, whenever it was opened and whoever gives the
\* verdict, unless a read of its tailer raises: then nothing ends it.
EveryStreamEnds ==
    \A v \in Viewers : (at[v] = "watching") ~> (at[v] # "watching" \/ faults > 0)
=============================================================================
