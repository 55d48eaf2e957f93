------------------------------- MODULE AiRuns -------------------------------
(***************************************************************************)
(* Answers of the assistant as background tasks (services/ai_runs.py): a   *)
(* POST /api/ai/chat starts a run, the agent's events go to the run's      *)
(* buffer, and every HTTP response only reads that buffer.  The end of a   *)
(* run saves the answer (on_done); the transcript it is saved to, and the  *)
(* question stored there before, belong to other modules.                  *)
(*                                                                         *)
(* All of it is one event loop: a step is what runs between two awaits.    *)
(* Runs are numbered in the order they are started.                        *)
(***************************************************************************)
EXTENDS Integers, Sequences, FiniteSets

CONSTANTS
    Conversations,  \* pairs of user and session, the keys of _RUNS
    NoKey,          \* of a run that was not started
    Streams,        \* HTTP responses of /chat and /chat/resume
    MaxRuns,        \* MAX_RUNS, runs the registry keeps
    MaxEvents,      \* MAX_EVENTS, events a buffer keeps
    MaxStarted      \* bound: runs ever started

ASSUME KeyAssumption == NoKey \notin Conversations
ASSUME RunsAssumption == MaxRuns \in Nat /\ MaxEvents \in Nat /\ MaxStarted \in Nat

VARIABLES
    runs,      \* every run: its conversation, task, buffer and results
    registry,  \* _RUNS
    started,   \* number of runs ever started
    late,      \* registered runs past MAX_RUNTIME, or past DONE_TTL if done
    tick,      \* per run, its asyncio.Event
    stream,    \* per stream: the run it reads, how far, and where it is
    evicted    \* history: runs pushed out of a full registry while at work

book == <<registry, started, late, evicted>>
vars == <<runs, book, tick, stream>>

Ids == 1 .. MaxStarted
NoRun == 0
Kinds == {"work", "note"}  \* what the agent says; errors the runner adds

Run == [key: Conversations \cup {NoKey},
        task: {"none", "new", "work", "cancel", "over"},
        events: Seq(Kinds), done: BOOLEAN, saved: Seq(Nat)]

NotStarted == [key |-> NoKey, task |-> "none", events |-> <<>>,
               done |-> FALSE, saved |-> <<>>]
NewRun(k) == [NotStarted EXCEPT !.key = k, !.task = "new"]

NoStream == [run |-> NoRun, at |-> 0, pc |-> "off"]

Busy(run) == run.task \in {"new", "work"}
AtWork(r) == Busy(runs[r])

-----------------------------------------------------------------------------
(* Run                                                                      *)

\* Mutant: the buffer has no limit.
AppendedAlways(run, kind) == [run EXCEPT !.events = Append(@, kind)]

\* append: a full buffer drops the event
Appended(run, kind) ==
    [run EXCEPT !.events = IF Len(@) < MaxEvents THEN Append(@, kind) ELSE @]

\* Mutant: finish without its guard.
FinishedAgain(run) == [run EXCEPT !.done = TRUE, !.saved = Append(@, Len(run.events))]

\* finish: once only; on_done gets what is in the buffer by then
Finished(run) ==
    IF run.done THEN run
    ELSE [run EXCEPT !.done = TRUE, !.saved = Append(@, Len(run.events))]

\* task.cancel: a task that has not begun never will
Cancelled(run) ==
    [run EXCEPT !.task = CASE @ = "new" -> "over" [] @ = "work" -> "cancel"
                           [] OTHER -> @]

\* Mutant: notify whoever waits, without the memory an Event has.
RingNotifies(r) ==
    /\ UNCHANGED tick
    /\ stream' = [f \in Streams |->
                    IF stream[f].run = r /\ stream[f].pc = "waiting"
                    THEN [stream[f] EXCEPT !.pc = "reading"] ELSE stream[f]]

\* _tick.set
Ring(r) ==
    /\ tick' = [tick EXCEPT ![r] = TRUE]
    /\ stream' = [f \in Streams |->
                    IF stream[f].run = r /\ stream[f].pc = "waiting"
                    THEN [stream[f] EXCEPT !.pc = "reading"] ELSE stream[f]]

-----------------------------------------------------------------------------
(* _sweep, which every request begins with                                  *)

Registered == {registry[k] : k \in Conversations} \ {NoRun}
InTime == Registered \ late

\* of the runs in time, the MaxRuns that were started last
Remaining == {r \in InTime : Cardinality({s \in InTime : s > r}) < MaxRuns}

\* Mutant: an overdue run is forgotten, its agent is left alone.
SweptRunsForgotten == runs

SweptRuns ==
    [r \in Ids |-> IF r \in Registered \cap late /\ ~runs[r].done
                   THEN Cancelled(runs[r]) ELSE runs[r]]

SweptRegistry ==
    [k \in Conversations |-> IF registry[k] \in Remaining THEN registry[k] ELSE NoRun]

Sweep == /\ late' = {}
         /\ evicted' = evicted \cup {r \in InTime \ Remaining : AtWork(r)}

-----------------------------------------------------------------------------
(* Requests                                                                 *)

Attached(f, r) == [stream EXCEPT ![f] = [run |-> r, at |-> 0, pc |-> "reading"]]
Idle(f) == stream[f].pc \in {"off", "ended"}

\* "if an answer is under way, return it"
Joinable(k) == SweptRegistry[k] # NoRun /\ ~runs[SweptRegistry[k]].done

\* POST /chat: join the answer under way, or start one
Join(k, f) ==
    /\ Idle(f) /\ Joinable(k)
    /\ Sweep
    /\ runs' = SweptRuns /\ registry' = SweptRegistry
    /\ stream' = Attached(f, SweptRegistry[k])
    /\ UNCHANGED <<started, tick>>

Begin(k, f) ==
    LET r == started + 1 IN
    /\ Idle(f) /\ ~Joinable(k) /\ started < MaxStarted
    /\ Sweep
    /\ started' = r
    /\ runs' = [SweptRuns EXCEPT ![r] = NewRun(k)]
    /\ registry' = [SweptRegistry EXCEPT ![k] = r]
    /\ stream' = Attached(f, r)
    /\ UNCHANGED tick

\* GET /chat/resume; GET /chat/state only sweeps
Resume(k, f) ==
    /\ Idle(f) /\ SweptRegistry[k] # NoRun
    /\ Sweep
    /\ runs' = SweptRuns /\ registry' = SweptRegistry
    /\ stream' = Attached(f, SweptRegistry[k])
    /\ UNCHANGED <<started, tick>>

State ==
    /\ Sweep
    /\ runs' = SweptRuns /\ registry' = SweptRegistry
    /\ UNCHANGED <<started, tick, stream>>

\* Mutant: leave the end to the task's finally.
StoppedTrusting(run) == Appended(Cancelled(run), "note")

\* stop cancels the task and ends the run itself
Stopped(run) == Finished(Appended(Cancelled(run), "note"))

\* POST /chat/stop
Stop(k) ==
    /\ Joinable(k)
    /\ Sweep
    /\ runs' = [SweptRuns EXCEPT ![SweptRegistry[k]] = Stopped(@)]
    /\ registry' = SweptRegistry
    /\ Ring(SweptRegistry[k])
    /\ UNCHANGED started

-----------------------------------------------------------------------------
(* _pump, the background task                                               *)

PumpStarts(r) ==
    /\ runs[r].task = "new"
    /\ runs' = [runs EXCEPT ![r].task = "work"]
    /\ UNCHANGED <<book, tick, stream>>

PumpEvent(r) ==
    /\ runs[r].task = "work"
    /\ runs' = [runs EXCEPT ![r] = Appended(@, "work")]
    /\ Ring(r)
    /\ UNCHANGED book

\* A finished run is kept for DONE_TTL from now on.
Ends(r, run) ==
    /\ runs' = [runs EXCEPT ![r] = Finished([run EXCEPT !.task = "over"])]
    /\ late' = IF runs[r].done THEN late ELSE late \ {r}
    /\ Ring(r)
    /\ UNCHANGED <<registry, started, evicted>>

PumpEnds(r) == runs[r].task = "work" /\ Ends(r, runs[r])

PumpFails(r) == runs[r].task = "work" /\ Ends(r, Appended(runs[r], "note"))

PumpCancelled(r) == runs[r].task = "cancel" /\ Ends(r, Appended(runs[r], "note"))

\* Time passes: half an hour for a live run (the event loop has started its
\* task long before, and older runs come first), DONE_TTL for a finished one.
GrowsLate(r) ==
    /\ r \in InTime /\ runs[r].task # "new"
    /\ ~runs[r].done => \A s \in InTime : s < r => runs[s].done
    /\ late' = late \cup {r}
    /\ UNCHANGED <<runs, registry, started, evicted, tick, stream>>

-----------------------------------------------------------------------------
(* follow                                                                   *)

\* Mutant: a finished run ends the stream at once.
ReadAllHasty(run, at) == run.done

ReadAll(run, at) == run.done /\ at = Len(run.events)

\* The next event, the end, or wait(): the Event is cleared at once ...
Read(f) ==
    LET s == stream[f] run == runs[s.run] IN
    /\ s.pc = "reading"
    /\ \/ /\ s.at < Len(run.events)
          /\ stream' = [stream EXCEPT ![f].at = @ + 1] /\ UNCHANGED tick
       \/ /\ ReadAll(run, s.at)
          /\ stream' = [stream EXCEPT ![f].pc = "ended"] /\ UNCHANGED tick
       \/ /\ s.at = Len(run.events) /\ ~run.done
          /\ stream' = [stream EXCEPT ![f].pc = "arming"]
          /\ tick' = [tick EXCEPT ![s.run] = FALSE]
    /\ UNCHANGED <<runs, book>>

\* ... but wait_for (Python 3.11) looks at it in a task of its own, a turn of
\* the event loop later: whoever clears it in between takes the wake-up away.
Arm(f) ==
    /\ stream[f].pc = "arming"
    /\ stream' = [stream EXCEPT ![f].pc =
                    IF tick[stream[f].run] THEN "reading" ELSE "waiting"]
    /\ UNCHANGED <<runs, book, tick>>

\* after 25 s
Timeout(f) ==
    /\ stream[f].pc = "waiting"
    /\ stream' = [stream EXCEPT ![f].pc = "reading"]
    /\ UNCHANGED <<runs, book, tick>>

\* The browser goes away. The run does not notice.
Leave(f) ==
    /\ ~Idle(f)
    /\ stream' = [stream EXCEPT ![f] = NoStream]
    /\ UNCHANGED <<runs, book, tick>>

-----------------------------------------------------------------------------
Init ==
    /\ runs = [r \in Ids |-> NotStarted]
    /\ registry = [k \in Conversations |-> NoRun]
    /\ started = 0 /\ late = {} /\ evicted = {}
    /\ tick = [r \in Ids |-> FALSE]
    /\ stream = [f \in Streams |-> NoStream]

Request == \/ State
           \/ \E k \in Conversations : Stop(k)
           \/ \E k \in Conversations, f \in Streams :
                 Join(k, f) \/ Begin(k, f) \/ Resume(k, f)

Pump(r) == \/ PumpStarts(r) \/ PumpEvent(r) \/ PumpEnds(r) \/ PumpFails(r)
           \/ PumpCancelled(r)

Follow(f) == Read(f) \/ Arm(f) \/ Timeout(f)

Next == \/ Request
        \/ \E r \in Ids : Pump(r) \/ GrowsLate(r)
        \/ \E f \in Streams : Follow(f) \/ Leave(f)

Spec == Init /\ [][Next]_vars

\* The event loop delivers a cancellation and runs the readers. Nothing is
\* assumed of the agent, which may wait for its provider for ever.
FairSpec == /\ Spec
            /\ \A r \in Ids : WF_vars(PumpCancelled(r))
            /\ \A f \in Streams : WF_vars(Read(f) \/ Arm(f))

-----------------------------------------------------------------------------
\* Every variable has its type; runs that are not started are untouched.
TypeOK ==
    /\ runs \in [Ids -> Run]
    /\ \A r \in Ids : Len(runs[r].events) <= MaxEvents
    /\ started \in 0 .. MaxStarted
    /\ \A r \in Ids : r <= started <=> runs[r].task # "none"
    /\ registry \in [Conversations -> 0 .. started]
    /\ late \subseteq Registered
    /\ evicted \subseteq 1 .. started
    /\ tick \in [Ids -> BOOLEAN]
    /\ stream \in [Streams -> [run: 0 .. started, at: Nat,
                     pc: {"off", "reading", "arming", "waiting", "ended"}]]
    /\ \A r \in Ids : runs[r] = NotStarted \/ runs[r].key # NoKey
    /\ \A f \in Streams : stream[f] = NoStream \/ stream[f].run # NoRun

\* An agent at work can be found: it is the one its conversation's next request
\* joins or stops, so no conversation has two. The one exception is an agent
\* that a full registry pushed out (_sweep takes the oldest, done or not).
AgentsInReach ==
    \A r \in Ids : AtWork(r) => registry[runs[r].key] = r \/ r \in evicted

\* on_done gets every answer once and whole: a run that is done was saved once,
\* with all that the agent ever put into the buffer; whoever ended it, the task,
\* a stop or the runtime limit, the agent has nothing to add.
SavedOnceAndWhole ==
    \A r \in Ids : LET run == runs[r] IN
        /\ Len(run.saved) = IF run.done THEN 1 ELSE 0
        /\ run.done => /\ ~Busy(run)
                       /\ \A i \in 1 .. Len(run.events) :
                             run.events[i] = "work" => i <= run.saved[1]

\* What is in the history was on the screen: a stream that ends by itself has
\* shown all that was saved.
StreamShowsTheAnswer ==
    \A f \in Streams : stream[f].pc = "ended" =>
        LET run == runs[stream[f].run] IN run.done /\ stream[f].at >= run.saved[1]

\* Whatever ends an agent, its run ends too, with its answer saved: no
\* conversation is "under way" for ever without an agent.
EveryEndIsSaved ==
    []<>(\A r \in Ids : runs[r].task \in {"cancel", "over"} => runs[r].saved # <<>>)

\* A stream of a finished run ends (or its browser leaves), and not by waiting
\* for the timeout: no reader's clear takes the wake-up of finish from another.
EveryStreamEnds ==
    \A f \in Streams :
        (~Idle(f) /\ runs[stream[f].run].done) ~> Idle(f)
=============================================================================
