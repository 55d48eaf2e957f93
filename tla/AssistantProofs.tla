-------------------------- MODULE AssistantProofs --------------------------
(***************************************************************************)
(* Safety of the assistant, for any number of conversations, runs, readers *)
(* and questions and any limits.                                           *)
(*                                                                         *)
(* The first part is about the server's runs (AiRuns) and their invariant  *)
(* IInv.  The second is about one browser tab and the transcripts that it  *)
(* and the server write (AiChat): ChatInv says how what is stored, what is *)
(* shown, what is read and what is on its way belong together, until a     *)
(* request fails that the page does not repeat.                            *)
(***************************************************************************)
EXTENDS AiRuns, AiChat, SequenceTheorems, FiniteSetTheorems, TLAPS

\* What holds of every run by itself: the buffer is bounded, and on_done was
\* given all the agent's events, once.
Sound(run) ==
    /\ run \in Run /\ Len(run.events) <= MaxEvents
    /\ Len(run.saved) = IF run.done THEN 1 ELSE 0
    /\ run.done => /\ ~Busy(run) /\ run.saved[1] <= Len(run.events)
                   /\ \A i \in 1 .. Len(run.events) :
                         run.events[i] = "work" => i <= run.saved[1]

\* A step of a run that was started: it stays sound, what was saved stays saved,
\* and an agent that is not at work does not go to work again.
Grown(run, old) ==
    /\ Sound(run)
    /\ run.key = old.key
    /\ old.done => run.done /\ run.saved = old.saved
    /\ run.task = "none" <=> old.task = "none"
    /\ Busy(run) => Busy(old)

-----------------------------------------------------------------------------
(* Run                                                                      *)

\* append keeps a run sound, if the agent only speaks before its end.
LEMMA AppendedSound ==
    ASSUME NEW run, Sound(run), NEW kind \in Kinds, kind = "work" => ~run.done
    PROVE  Grown(Appended(run, kind), run)
           /\ Appended(run, kind).task = run.task /\ Appended(run, kind).done = run.done
<1> DEFINE ev == IF Len(run.events) < MaxEvents THEN Append(run.events, kind)
                                                 ELSE run.events
<1>1. /\ run \in Run /\ run.events \in Seq(Kinds) /\ run.saved \in Seq(Nat)
      /\ Appended(run, kind) = [run EXCEPT !.events = ev]
  BY DEF Sound, Run, Appended
<1>2. /\ ev \in Seq(Kinds)
      /\ Len(ev) <= MaxEvents /\ Len(run.events) <= Len(ev)
      /\ \A i \in 1 .. Len(ev) :
            ev[i] = "work" => \/ kind = "work"
                              \/ i \in 1 .. Len(run.events) /\ run.events[i] = "work"
  BY <1>1, RunsAssumption, AppendProperties DEF Sound
<1>3. [run EXCEPT !.events = ev] \in Run
  BY <1>1, <1>2 DEF Run
<1>4. run.done => run.saved[1] \in Nat
  BY <1>1 DEF Sound
<1> HIDE DEF ev
<1>5. /\ Appended(run, kind).events = ev /\ Appended(run, kind).saved = run.saved
      /\ Appended(run, kind).done = run.done /\ Appended(run, kind).task = run.task
      /\ Appended(run, kind).key = run.key
  BY <1>1 DEF Run
<1>6. run.done => run.saved[1] <= Len(ev)
                  /\ \A i \in 1 .. Len(ev) : ev[i] = "work" => i <= run.saved[1]
  <2>1. ASSUME run.done PROVE run.saved[1] <= Len(ev)
    BY <2>1, <1>1, <1>2, <1>4, LenProperties DEF Sound
  <2>2. ASSUME run.done PROVE \A i \in 1 .. Len(ev) : ev[i] = "work" => i <= run.saved[1]
    BY <2>2, <1>2 DEF Sound
  <2> QED BY <2>1, <2>2
<1> QED BY <1>1, <1>2, <1>3, <1>5, <1>6 DEF Grown, Sound, Busy

\* cancel keeps a run sound, and its agent is not at work any more.
LEMMA CancelledSound ==
    ASSUME NEW run, Sound(run)
    PROVE  /\ Grown(Cancelled(run), run)
           /\ ~Busy(Cancelled(run)) /\ Cancelled(run).done = run.done
BY DEF Sound, Grown, Run, Cancelled, Busy

\* finish saves all there is, if the agent is not at work any more.
LEMMA FinishedSound ==
    ASSUME NEW run, Sound(run), ~Busy(run)
    PROVE  Grown(Finished(run), run) /\ Finished(run).task = run.task
<1>1. CASE run.done
  BY <1>1 DEF Finished, Grown
<1>2. CASE ~run.done
  <2>1. run.saved = <<>> /\ run.saved \in Seq(Nat) /\ run.events \in Seq(Kinds)
    BY <1>2, EmptySeq DEF Sound, Run
  <2>2. Len(run.events) \in Nat
    BY <2>1
  <2>3. Append(run.saved, Len(run.events)) = <<Len(run.events)>>
    BY <2>1, <2>2
  <2>4. Finished(run) = [run EXCEPT !.done = TRUE, !.saved = <<Len(run.events)>>]
    BY <1>2, <2>3 DEF Finished, Sound, Run
  <2>5. <<Len(run.events)>> \in Seq(Nat) /\ Len(<<Len(run.events)>>) = 1
        /\ <<Len(run.events)>>[1] = Len(run.events)
    BY <2>2
  <2> DEFINE one == <<Len(run.events)>>
  <2>6. one \in Seq(Nat) /\ Len(one) = 1 /\ one[1] = Len(run.events)
    BY <2>5
  <2> HIDE DEF one
  <2>7. Finished(run) = [run EXCEPT !.done = TRUE, !.saved = one]
    BY <2>4 DEF one
  <2>8. /\ Finished(run) \in Run
        /\ Finished(run).key = run.key /\ Finished(run).task = run.task
        /\ Finished(run).events = run.events
        /\ Finished(run).done = TRUE /\ Finished(run).saved = one
    BY <2>6, <2>7 DEF Sound, Run
  <2>9. \A i \in 1 .. Len(run.events) : i <= one[1]
    BY <2>2, <2>6
  <2> QED BY <1>2, <2>2, <2>6, <2>8, <2>9 DEF Sound, Grown, Busy
<1> QED BY <1>1, <1>2

\* A task that ends is not at work any more.
LEMMA OverSound ==
    ASSUME NEW run, Sound(run), run.task # "none"
    PROVE  /\ Grown([run EXCEPT !.task = "over"], run)
           /\ ~Busy([run EXCEPT !.task = "over"])
BY DEF Sound, Grown, Run, Busy

\* Growing step by step is growing.
LEMMA GrownTwice ==
    ASSUME NEW a, NEW b, NEW c, Grown(b, a), Grown(c, b)
    PROVE  Grown(c, a)
BY DEF Grown
-----------------------------------------------------------------------------
(* The inductive invariant                                                  *)

\* The registry lists a run under its own conversation.
Keyed == \A k \in Conversations : registry[k] # NoRun => runs[registry[k]].key = k

IInv == /\ TypeOK /\ Keyed /\ AgentsInReach /\ StreamShowsTheAnswer
        /\ \A r \in Ids : Sound(runs[r])

StreamSet == [run: 0 .. started, at: Nat,
              pc: {"off", "reading", "arming", "waiting", "ended"}]

\* Steps that start no run.
RunsTame == /\ runs' \in [Ids -> Run]
            /\ \A r \in Ids : Grown(runs'[r], runs[r])
            /\ \A r \in Ids : runs[r] = NotStarted => runs'[r] = NotStarted

BookTame == /\ registry' \in [Conversations -> 0 .. started]
            /\ \A k \in Conversations : registry'[k] \in {NoRun, registry[k]}
            /\ late' \subseteq Registered'
            /\ evicted' \subseteq 1 .. started
            /\ \A r \in Ids : Busy(runs'[r]) => registry'[runs[r].key] = r \/ r \in evicted'

\* A stream that ends has read the whole buffer of a finished run.
StreamsTame ==
    /\ stream' \in [Streams -> StreamSet]
    /\ \A f \in Streams : stream'[f] = NoStream \/ stream'[f].run # NoRun
    /\ \A f \in Streams : stream'[f].pc = "ended" =>
          \/ stream'[f] = stream[f]
          \/ /\ stream'[f].run = stream[f].run /\ stream[f] # NoStream
             /\ runs[stream[f].run].done
             /\ stream'[f].at = Len(runs[stream[f].run].events)

LEMMA TameKeepsIInv ==
    ASSUME IInv, RunsTame, BookTame, StreamsTame,
           tick' \in [Ids -> BOOLEAN], UNCHANGED started
    PROVE  IInv'
<1> USE DEF IInv
<1>1. \A r \in Ids : /\ Sound(runs'[r]) /\ runs'[r].key = runs[r].key
                     /\ runs[r].done => runs'[r].done /\ runs'[r].saved = runs[r].saved
                     /\ runs'[r].task = "none" <=> runs[r].task = "none"
  BY DEF RunsTame, Grown
<1>2. started \in 0 .. MaxStarted /\ registry \in [Conversations -> 0 .. started]
      /\ \A n \in 1 .. started : n \in Ids
  BY RunsAssumption DEF TypeOK, Ids
<1>3. TypeOK'
  <2>1. \A r \in Ids : Len(runs'[r].events) <= MaxEvents
    BY <1>1 DEF Sound
  <2>2. \A r \in Ids : r <= started <=> runs'[r].task # "none"
    BY <1>1 DEF TypeOK
  <2>3. \A r \in Ids : runs'[r] = NotStarted \/ runs'[r].key # NoKey
    BY <1>1 DEF TypeOK, RunsTame
  <2>4. stream' \in [Streams -> StreamSet]
    BY DEF StreamsTame
  <2> QED BY <2>1, <2>2, <2>3, <2>4, <1>2
             DEF TypeOK, RunsTame, BookTame, StreamsTame, StreamSet
<1>4. Keyed'
  <2> SUFFICES ASSUME NEW k \in Conversations, registry'[k] # NoRun
               PROVE  runs'[registry'[k]].key = k
    BY DEF Keyed
  <2>1. registry'[k] = registry[k] /\ registry[k] \in 1 .. started
    BY <1>2 DEF BookTame, NoRun
  <2> QED BY <2>1, <1>1, <1>2 DEF Keyed
<1>5. AgentsInReach'
  BY <1>1 DEF AgentsInReach, AtWork, BookTame
<1>6. StreamShowsTheAnswer'
  <2> SUFFICES ASSUME NEW f \in Streams, stream'[f].pc = "ended"
               PROVE  /\ runs'[stream'[f].run].done
                      /\ stream'[f].at >= runs'[stream'[f].run].saved[1]
    BY DEF StreamShowsTheAnswer
  <2>1. CASE stream'[f] = stream[f]
    <3>1. stream[f].run \in 1 .. started /\ stream[f].pc = "ended"
      BY <2>1 DEF TypeOK, NoStream, NoRun
    <3>2. runs[stream[f].run].done /\ stream[f].at >= runs[stream[f].run].saved[1]
      BY <3>1 DEF StreamShowsTheAnswer
    <3> QED BY <2>1, <3>1, <3>2, <1>1, <1>2
  <2>2. CASE /\ stream'[f].run = stream[f].run /\ stream[f] # NoStream
             /\ runs[stream[f].run].done
             /\ stream'[f].at = Len(runs[stream[f].run].events)
    <3>1. stream[f].run \in Ids
      BY <2>2, <1>2 DEF TypeOK, NoStream, NoRun
    <3>2. Sound(runs[stream[f].run])
      BY <3>1
    <3>3. /\ runs[stream[f].run].saved[1] <= Len(runs[stream[f].run].events)
          /\ runs[stream[f].run].saved \in Seq(Nat) /\ Len(runs[stream[f].run].saved) = 1
          /\ runs[stream[f].run].events \in Seq(Kinds)
      BY <2>2, <3>2 DEF Sound, Run
    <3> QED BY <2>2, <3>1, <3>3, <1>1
  <2> QED BY <2>1, <2>2 DEF StreamsTame
<1> QED BY <1>1, <1>3, <1>4, <1>5, <1>6

\* Requests start with a sweep: it keeps every run sound and every agent that
\* goes on is still registered, or has just been pushed out.
LEMMA SweepTame ==
    ASSUME IInv, Sweep
    PROVE  /\ SweptRegistry \in [Conversations -> 0 .. started]
           /\ \A k \in Conversations : SweptRegistry[k] \in {NoRun, registry[k]}
           /\ late' = {} /\ evicted' \subseteq 1 .. started
           /\ SweptRuns \in [Ids -> Run]
           /\ \A r \in Ids : /\ Grown(SweptRuns[r], runs[r])
                             /\ runs[r] = NotStarted => SweptRuns[r] = NotStarted
                             /\ Busy(SweptRuns[r]) =>
                                   SweptRegistry[runs[r].key] = r \/ r \in evicted'
           /\ \A k \in Conversations : SweptRegistry[k] # NoRun =>
                 SweptRuns[SweptRegistry[k]] = runs[SweptRegistry[k]]
<1> USE DEF IInv
<1>1. registry \in [Conversations -> 0 .. started] /\ started \in Nat
      /\ \A n \in 1 .. started : n \in Ids
  BY RunsAssumption DEF TypeOK, Ids
<1>2. /\ SweptRegistry \in [Conversations -> 0 .. started]
      /\ \A k \in Conversations : SweptRegistry[k] \in {NoRun, registry[k]}
  BY <1>1 DEF SweptRegistry, NoRun
<1>3. \A r \in Ids : SweptRuns[r] = runs[r] \/ SweptRuns[r] = Cancelled(runs[r])
  BY DEF SweptRuns
<1>4. \A r \in Ids : Grown(runs[r], runs[r]) /\ Grown(Cancelled(runs[r]), runs[r])
  BY CancelledSound DEF Grown
<1>5. \A r \in Ids : Grown(SweptRuns[r], runs[r])
  BY <1>3, <1>4
<1>6. SweptRuns \in [Ids -> Run]
  BY <1>5 DEF SweptRuns, Grown, Sound
<1>7. Registered \subseteq 1 .. started
  BY <1>1 DEF Registered, NoRun
<1>8. evicted' \subseteq 1 .. started /\ late' = {}
  BY <1>7 DEF Sweep, InTime, TypeOK
<1>9. ASSUME NEW r \in Ids, runs[r] = NotStarted
      PROVE  SweptRuns[r] = NotStarted
  <2>1. runs[r].task = "none"
    BY <1>9 DEF NotStarted
  <2>2. ~(r <= started)
    BY <2>1 DEF TypeOK
  <2>3. r \notin 1 .. started
    BY <2>2
  <2>4. r \notin Registered
    BY <2>3, <1>7
  <2> QED BY <2>4, <1>9 DEF SweptRuns
<1>10. ASSUME NEW r \in Ids, Busy(SweptRuns[r])
       PROVE  SweptRegistry[runs[r].key] = r \/ r \in evicted'
  <2>1. ~(r \in Registered \cap late /\ ~runs[r].done)
    BY <1>10, CancelledSound DEF SweptRuns
  <2>2. SweptRuns[r] = runs[r] /\ AtWork(r) /\ ~runs[r].done
    BY <2>1, <1>10 DEF SweptRuns, Sound, AtWork
  <2>3. CASE registry[runs[r].key] = r
    <3>1. runs[r] # NotStarted
      BY <2>2 DEF AtWork, Busy, NotStarted
    <3>2. runs[r].key \in Conversations
      BY <3>1 DEF TypeOK, Run
    <3>3. r \in InTime
      BY <2>1, <2>2, <2>3, <3>2 DEF Registered, InTime, NoRun, Ids
    <3> QED BY <3>2, <3>3, <2>2, <2>3 DEF Sweep, SweptRegistry
  <2>4. CASE r \in evicted
    BY <2>4 DEF Sweep
  <2> QED BY <2>2, <2>3, <2>4 DEF AgentsInReach
<1>11. ASSUME NEW k \in Conversations, SweptRegistry[k] # NoRun
       PROVE  SweptRuns[SweptRegistry[k]] = runs[SweptRegistry[k]]
  <2>1. SweptRegistry[k] = registry[k] /\ registry[k] \in Remaining
    BY <1>11, <1>1 DEF SweptRegistry
  <2>2. registry[k] \in InTime /\ registry[k] \in Ids
    BY <2>1, <1>1, <1>7 DEF Remaining, InTime
  <2> QED BY <2>1, <2>2 DEF SweptRuns, InTime
<1> QED BY <1>2, <1>5, <1>6, <1>8, <1>9, <1>10, <1>11

-----------------------------------------------------------------------------
(* The steps                                                                *)

\* Nothing is registered, nothing has run.
LEMMA InitIInv == Init => IInv
<1> SUFFICES ASSUME Init PROVE IInv
  OBVIOUS
<1>1. /\ NotStarted \in Run /\ NotStarted.task = "none" /\ NotStarted.done = FALSE
      /\ NotStarted.saved = <<>> /\ NotStarted.events = <<>>
  BY EmptySeq DEF NotStarted, Run
<1>2. \A r \in Ids : runs[r] = NotStarted /\ ~Busy(runs[r]) /\ ~(r <= 0)
  BY <1>1 DEF Init, Ids, Busy
<1>3. \A f \in Streams : stream[f] = NoStream
  BY DEF Init
<1>4. Len(<<>>) = 0 /\ 0 <= MaxEvents /\ 0 \in 0 .. MaxStarted
  BY RunsAssumption, EmptySeq
<1>5. \A r \in Ids : Sound(runs[r])
  BY <1>1, <1>2, <1>4 DEF Sound
<1>6. TypeOK
  <2>1. /\ runs \in [Ids -> Run]
        /\ \A r \in Ids : runs[r] = NotStarted \/ runs[r].key # NoKey
        /\ \A r \in Ids : Len(runs[r].events) <= MaxEvents
        /\ \A r \in Ids : r <= started <=> runs[r].task # "none"
    BY <1>1, <1>2, <1>4 DEF Init
  <2>2. NoStream \in [run: 0 .. 0, at: Nat,
                      pc: {"off", "reading", "arming", "waiting", "ended"}]
    BY DEF NoStream, NoRun
  <2> QED BY <2>1, <2>2, <1>3, <1>4 DEF TypeOK, Init, NoRun, Registered
<1> QED BY <1>2, <1>3, <1>5, <1>6
        DEF IInv, Keyed, AgentsInReach, AtWork, StreamShowsTheAnswer, NoStream, Init

\* A stream that turns to a run that was started.
LEMMA AttachTame ==
    ASSUME IInv, NEW f \in Streams, NEW r \in 1 .. started, stream' = Attached(f, r)
    PROVE  StreamsTame
<1>1. [run |-> r, at |-> 0, pc |-> "reading"] \in StreamSet
  BY DEF IInv, TypeOK, StreamSet
<1> QED BY <1>1 DEF Attached, StreamsTame, IInv, TypeOK, StreamSet, NoRun

\* Whom an Event wakes reads on.
LEMMA RingTame ==
    ASSUME IInv, NEW r \in Ids, Ring(r)
    PROVE  StreamsTame /\ tick' \in [Ids -> BOOLEAN]
<1>1. stream \in [Streams -> StreamSet]
  BY DEF IInv, TypeOK, StreamSet
<1>2. ASSUME NEW f \in Streams
      PROVE  /\ stream'[f] \in StreamSet
             /\ stream'[f] = stream[f] \/ /\ stream'[f].run = stream[f].run
                                          /\ stream'[f].pc = "reading"
                                          /\ stream[f].pc = "waiting"
  BY <1>1 DEF Ring, StreamSet
<1>3. \A f \in Streams : stream'[f] = NoStream \/ stream'[f].run # NoRun
  BY <1>2 DEF IInv, TypeOK, NoStream
<1>4. stream' \in [Streams -> StreamSet]
  BY <1>2 DEF Ring
<1> QED BY <1>2, <1>3, <1>4 DEF StreamsTame, Ring, IInv, TypeOK

\* The streams and Events of a step that leaves them alone.
LEMMA StillTame ==
    ASSUME IInv, UNCHANGED <<tick, stream>>
    PROVE  StreamsTame /\ tick' \in [Ids -> BOOLEAN]
BY DEF IInv, TypeOK, StreamsTame, StreamSet

\* A step of one run that was started.
LEMMA OneRunTame ==
    ASSUME IInv, NEW r \in Ids, runs[r].task # "none", NEW run, Grown(run, runs[r]),
           runs' = [runs EXCEPT ![r] = run],
           UNCHANGED <<registry, started, evicted>>, late' \subseteq late
    PROVE  RunsTame /\ BookTame
<1>1. \A s \in Ids : Grown(runs[s], runs[s])
  BY DEF IInv, Grown
<1>2. \A s \in Ids : runs'[s] = IF s = r THEN run ELSE runs[s]
  BY DEF IInv, TypeOK
<1>3. runs[r] # NotStarted
  BY DEF NotStarted
<1>4. RunsTame
  BY <1>1, <1>2, <1>3 DEF RunsTame, IInv, TypeOK, Grown, Sound
<1>5. \A s \in Ids : Busy(runs'[s]) => Busy(runs[s])
  BY <1>2 DEF Grown
<1>6. late' \subseteq Registered'
  BY DEF IInv, TypeOK, Registered
<1>7. BookTame
  BY <1>5, <1>6 DEF BookTame, IInv, TypeOK, AgentsInReach, AtWork
<1> QED BY <1>4, <1>7

\* A stop ends the run soundly and the agent for good.
LEMMA StoppedSound ==
    ASSUME NEW run, Sound(run)
    PROVE  Grown(Stopped(run), run)
<1> DEFINE cut == Cancelled(run)
           told == Appended(cut, "note")
<1>1. Grown(cut, run) /\ ~Busy(cut) /\ Sound(cut)
  BY CancelledSound DEF Grown
<1>2. Grown(told, cut) /\ told.task = cut.task
  BY <1>1, AppendedSound DEF Kinds
<1>3. Sound(told) /\ ~Busy(told)
  BY <1>1, <1>2 DEF Grown, Busy
<1>4. Grown(Finished(told), told)
  BY <1>3, FinishedSound
<1>5. Grown(told, run)
  BY <1>1, <1>2, GrownTwice
<1>6. Grown(Finished(told), run)
  BY <1>4, <1>5, GrownTwice
<1> QED BY <1>6 DEF Stopped

\* Steps that leave the runs and the registry alone.
LEMMA IdleTame ==
    ASSUME IInv, UNCHANGED <<runs, book>>
    PROVE  RunsTame /\ BookTame
<1>1. \A s \in Ids : Grown(runs[s], runs[s])
  BY DEF IInv, Grown
<1> QED BY <1>1 DEF RunsTame, BookTame, book, IInv, TypeOK, AgentsInReach, AtWork, Registered

\* A run that a sweep leaves registered was started.
LEMMA RegisteredStarted ==
    ASSUME IInv, Sweep, NEW k \in Conversations, SweptRegistry[k] # NoRun
    PROVE  /\ SweptRegistry[k] \in 1 .. started /\ SweptRegistry[k] \in Ids
           /\ SweptRuns[SweptRegistry[k]] = runs[SweptRegistry[k]]
           /\ runs[SweptRegistry[k]] # NotStarted /\ runs[SweptRegistry[k]].task # "none"
<1>1. SweptRegistry[k] \in 1 .. started
  BY SweepTame DEF NoRun
<1>2. SweptRegistry[k] \in Ids /\ SweptRegistry[k] <= started
  BY <1>1, RunsAssumption DEF IInv, TypeOK, Ids
<1>3. runs[SweptRegistry[k]].task # "none"
  BY <1>2 DEF IInv, TypeOK
<1> QED BY <1>1, <1>2, <1>3, SweepTame DEF NotStarted

\* A request that starts nothing and stops nothing.
LEMMA SweptTame ==
    ASSUME IInv, Sweep, runs' = SweptRuns, registry' = SweptRegistry, UNCHANGED started
    PROVE  RunsTame /\ BookTame
BY SweepTame DEF RunsTame, BookTame

LEMMA StopTame ==
    ASSUME IInv, NEW k \in Conversations, Stop(k)
    PROVE  RunsTame /\ BookTame
<1> DEFINE r == SweptRegistry[k]
<1>1. /\ r \in Ids /\ SweptRuns[r] = runs[r] /\ runs[r] # NotStarted
      /\ Sweep /\ r # NoRun
  BY RegisteredStarted DEF Stop, Joinable
<1> HIDE DEF r
<1>2. runs' = [SweptRuns EXCEPT ![r] = Stopped(SweptRuns[r])]
  BY DEF Stop, r
<1>3. /\ SweptRuns \in [Ids -> Run]
      /\ \A s \in Ids : Grown(SweptRuns[s], runs[s])
      /\ \A s \in Ids : runs[s] = NotStarted => SweptRuns[s] = NotStarted
      /\ \A s \in Ids : Busy(SweptRuns[s]) =>
                           SweptRegistry[runs[s].key] = s \/ s \in evicted'
  BY <1>1, SweepTame
<1>4. Grown(Stopped(runs[r]), runs[r])
  BY <1>1, StoppedSound DEF IInv
<1>5. \A s \in Ids : runs'[s] = IF s = r THEN Stopped(runs[r]) ELSE SweptRuns[s]
  BY <1>1, <1>2, <1>3
<1>6. \A s \in Ids : Grown(runs'[s], runs[s])
  BY <1>3, <1>4, <1>5
<1>7. runs' \in [Ids -> Run]
  BY <1>2, <1>3, <1>6 DEF Grown, Sound
<1>8. RunsTame
  BY <1>1, <1>3, <1>5, <1>6, <1>7 DEF RunsTame
<1>9. ASSUME NEW s \in Ids, Busy(runs'[s])
      PROVE  SweptRegistry[runs[s].key] = s \/ s \in evicted'
  <2>1. Busy(SweptRuns[s])
    BY <1>1, <1>4, <1>5, <1>9 DEF Grown
  <2> QED BY <2>1, <1>3
<1>10. registry' = SweptRegistry
  BY DEF Stop
<1>11. BookTame
  BY <1>1, <1>9, <1>10, SweepTame DEF BookTame
<1> QED BY <1>8, <1>11

\* Reading only ends a stream with the whole buffer of a finished run.
LEMMA ReadTame ==
    ASSUME IInv, NEW f \in Streams, Read(f)
    PROVE  StreamsTame /\ tick' \in [Ids -> BOOLEAN]
<1>1. /\ stream \in [Streams -> StreamSet] /\ tick \in [Ids -> BOOLEAN]
      /\ stream[f] \in StreamSet /\ stream[f] # NoStream
  BY DEF IInv, TypeOK, StreamSet, Read, NoStream
<1>2. stream[f].at + 1 \in Nat
  BY <1>1 DEF StreamSet
<1>3. \E s \in StreamSet : /\ stream' = [stream EXCEPT ![f] = s]
                           /\ s.run = stream[f].run
                           /\ s.pc = "ended" => /\ runs[stream[f].run].done
                                                /\ s.at = Len(runs[stream[f].run].events)
  <2>1. CASE stream' = [stream EXCEPT ![f].at = @ + 1]
    <3>1. [stream[f] EXCEPT !.at = @ + 1] \in StreamSet
      BY <1>1, <1>2 DEF StreamSet
    <3> WITNESS [stream[f] EXCEPT !.at = @ + 1] \in StreamSet
    <3> QED BY <2>1, <1>1, <1>2 DEF StreamSet, Read
  <2>2. CASE ReadAll(runs[stream[f].run], stream[f].at)
             /\ stream' = [stream EXCEPT ![f].pc = "ended"]
    <3>1. [stream[f] EXCEPT !.pc = "ended"] \in StreamSet
      BY <1>1 DEF StreamSet
    <3> WITNESS [stream[f] EXCEPT !.pc = "ended"] \in StreamSet
    <3> QED BY <2>2, <1>1 DEF StreamSet, ReadAll
  <2>3. CASE stream' = [stream EXCEPT ![f].pc = "arming"]
    <3>1. [stream[f] EXCEPT !.pc = "arming"] \in StreamSet
      BY <1>1 DEF StreamSet
    <3> WITNESS [stream[f] EXCEPT !.pc = "arming"] \in StreamSet
    <3> QED BY <2>3, <1>1 DEF StreamSet
  <2> QED BY <2>1, <2>2, <2>3 DEF Read
<1>4. tick' \in [Ids -> BOOLEAN]
  BY <1>1 DEF Read
<1>5. \A e \in Streams : stream[e] = NoStream \/ stream[e].run # NoRun
  BY DEF IInv, TypeOK
<1> QED BY <1>1, <1>3, <1>4, <1>5 DEF StreamsTame, NoStream

\* A stream that is left, or goes on after its wait.
LEMMA WaitTame ==
    ASSUME IInv, NEW f \in Streams, Arm(f) \/ Timeout(f) \/ Leave(f)
    PROVE  StreamsTame /\ tick' \in [Ids -> BOOLEAN]
<1>1. /\ stream \in [Streams -> StreamSet] /\ tick \in [Ids -> BOOLEAN]
      /\ \A e \in Streams : stream[e] = NoStream \/ stream[e].run # NoRun
  BY DEF IInv, TypeOK, StreamSet
<1>2. NoStream \in StreamSet /\ NoStream.pc = "off"
  BY DEF NoStream, StreamSet, NoRun, IInv, TypeOK
<1>3. UNCHANGED tick
  BY DEF Arm, Timeout, Leave
<1>4. CASE Leave(f)
  BY <1>1, <1>2, <1>3, <1>4 DEF Leave, StreamsTame
<1>5. CASE Arm(f) \/ Timeout(f)
  <2>1. PICK pc \in {"reading", "waiting"} : stream' = [stream EXCEPT ![f].pc = pc]
    BY <1>5 DEF Arm, Timeout
  <2>2. stream[f] # NoStream
    BY <1>5 DEF Arm, Timeout, NoStream
  <2> QED BY <1>1, <1>3, <2>1, <2>2 DEF StreamsTame, StreamSet
<1> QED BY <1>4, <1>5

\* A new run: its conversation had no agent at work, so it has one now.
LEMMA BeginKeepsIInv ==
    ASSUME IInv, NEW k \in Conversations, NEW f \in Streams, Begin(k, f)
    PROVE  IInv'
<1> DEFINE r == started + 1
<1>1. /\ r \in Ids /\ started \in 0 .. MaxStarted /\ started' = r
      /\ \A s \in Ids : s <= r <=> s <= started \/ s = r
      /\ 1 .. started \subseteq 1 .. r /\ 0 .. started \subseteq 0 .. r
      /\ r \in 0 .. r /\ r # NoRun /\ ~(r <= started)
  BY RunsAssumption DEF IInv, TypeOK, Begin, Ids, NoRun
<1>2. /\ Sweep /\ stream' = Attached(f, r) /\ UNCHANGED tick
      /\ registry' = [SweptRegistry EXCEPT ![k] = r]
      /\ runs' = [SweptRuns EXCEPT ![r] = NewRun(k)]
  BY DEF Begin
<1>3. /\ SweptRuns \in [Ids -> Run]
      /\ SweptRegistry \in [Conversations -> 0 .. started]
      /\ late' = {} /\ evicted' \subseteq 1 .. started
      /\ \A s \in Ids : Grown(SweptRuns[s], runs[s])
      /\ \A s \in Ids : runs[s] = NotStarted => SweptRuns[s] = NotStarted
      /\ \A s \in Ids : Busy(SweptRuns[s]) =>
                           SweptRegistry[runs[s].key] = s \/ s \in evicted'
  BY <1>2, SweepTame
<1>4. /\ NewRun(k) \in Run /\ NewRun(k).key = k /\ NewRun(k).task = "new"
      /\ NewRun(k).done = FALSE /\ NewRun(k).saved = <<>> /\ NewRun(k).events = <<>>
  BY EmptySeq DEF NewRun, NotStarted, Run
<1>5. k # NoKey
  BY KeyAssumption
<1>6. Sound(NewRun(k))
  BY <1>4, EmptySeq, RunsAssumption DEF Sound
<1> HIDE DEF r
<1>7. \A s \in Ids : runs'[s] = IF s = r THEN NewRun(k) ELSE SweptRuns[s]
  BY <1>1, <1>2, <1>3
<1>8. \A s \in Ids : Sound(runs'[s])
  BY <1>3, <1>6, <1>7 DEF Grown
<1>9. \A s \in Ids \ {r} : Grown(runs'[s], runs[s])
  BY <1>3, <1>7
<1>10. runs' \in [Ids -> Run]
  BY <1>2, <1>3, <1>8 DEF Sound
<1>11. /\ \A s \in Streams \ {f} : stream'[s] = stream[s]
       /\ stream'[f] = [run |-> r, at |-> 0, pc |-> "reading"]
       /\ stream' = [stream EXCEPT ![f] = stream'[f]]
  BY <1>2 DEF Attached, IInv, TypeOK
<1>12. registry' \in [Conversations -> 0 .. r]
  BY <1>1, <1>2, <1>3
<1>13. TypeOK'
  <2>1. \A s \in Ids : s <= r <=> runs'[s].task # "none"
    <3> SUFFICES ASSUME NEW s \in Ids PROVE s <= r <=> runs'[s].task # "none"
      OBVIOUS
    <3>1. CASE s = r
      BY <3>1, <1>1, <1>4, <1>7
    <3>2. CASE s # r
      BY <3>2, <1>1, <1>9 DEF Grown, IInv, TypeOK
    <3> QED BY <3>1, <3>2
  <2>2. \A s \in Ids : runs'[s] = NotStarted \/ runs'[s].key # NoKey
    <3> SUFFICES ASSUME NEW s \in Ids PROVE runs'[s] = NotStarted \/ runs'[s].key # NoKey
      OBVIOUS
    <3>1. CASE s = r
      BY <3>1, <1>4, <1>5, <1>7
    <3>2. CASE s # r
      BY SMTT(20), <3>2, <1>3, <1>7 DEF Grown, IInv, TypeOK
    <3> QED BY <3>1, <3>2
  <2>3. stream' \in [Streams -> [run: 0 .. r, at: Nat,
                       pc: {"off", "reading", "arming", "waiting", "ended"}]]
    <3>1. \A s \in Streams : stream[s] \in [run: 0 .. r, at: Nat,
                       pc: {"off", "reading", "arming", "waiting", "ended"}]
      BY <1>1 DEF IInv, TypeOK
    <3>2. stream'[f] \in [run: 0 .. r, at: Nat,
                       pc: {"off", "reading", "arming", "waiting", "ended"}]
      BY <1>1, <1>11
    <3> QED BY <3>1, <3>2, <1>11 DEF IInv, TypeOK
  <2>4. \A s \in Streams : stream'[s] = NoStream \/ stream'[s].run # NoRun
    BY <1>1, <1>11 DEF IInv, TypeOK
  <2>5. evicted' \subseteq 1 .. r /\ r \in 0 .. MaxStarted /\ late' \subseteq Registered'
    BY <1>1, <1>3, RunsAssumption DEF Ids
  <2>6. \A s \in Ids : Len(runs'[s].events) <= MaxEvents
    BY <1>8 DEF Sound
  <2> QED BY <2>1, <2>2, <2>3, <2>4, <2>5, <2>6, <1>1, <1>2, <1>10, <1>12
             DEF IInv, TypeOK
<1>14. Keyed'
  <2> SUFFICES ASSUME NEW c \in Conversations, registry'[c] # NoRun
               PROVE  runs'[registry'[c]].key = c
    BY DEF Keyed
  <2>1. CASE c = k
    BY <2>1, <1>1, <1>2, <1>3, <1>4, <1>7
  <2>2. CASE c # k
    <3>1. registry'[c] = SweptRegistry[c]
      BY <2>2, <1>2, <1>3
    <3>2. registry'[c] = registry[c]
      BY <3>1, <1>2, SweepTame
    <3>3. registry[c] \in 1 .. started /\ registry[c] \in Ids
      BY <3>1, <3>2, <1>2, RegisteredStarted
    <3>4. registry[c] # r
      BY <3>3, <1>1
    <3>5. runs[registry[c]].key = c
      BY <3>2 DEF IInv, Keyed
    <3> QED BY <3>2, <3>3, <3>4, <3>5, <1>9 DEF Grown
  <2> QED BY <2>1, <2>2
<1>15. AgentsInReach'
  <2> SUFFICES ASSUME NEW s \in Ids, Busy(runs'[s])
               PROVE  registry'[runs'[s].key] = s \/ s \in evicted'
    BY DEF AgentsInReach, AtWork
  <2>1. CASE s = r
    BY <2>1, <1>2, <1>3, <1>4, <1>7
  <2>2. CASE s # r
    <3>1. Busy(SweptRuns[s]) /\ runs'[s].key = runs[s].key
      BY <2>2, <1>7, <1>9 DEF Grown
    <3>2. CASE SweptRegistry[runs[s].key] = s /\ runs[s].key = k
      <4>1. SweptRegistry[k] = s /\ s # NoRun
        BY <3>2 DEF Ids, NoRun
      <4>2. runs[s].done
        BY <4>1 DEF Begin, Joinable
      <4>3. ~Busy(runs[s])
        BY <4>2 DEF IInv, Sound
      <4> QED BY <3>1, <4>3, <1>3 DEF Grown
    <3>3. CASE SweptRegistry[runs[s].key] = s /\ runs[s].key # k
      <4>1. runs[s].task # "none"
        BY <3>1, <1>3 DEF Grown, Busy
      <4>2. runs[s].key \in Conversations
        BY <4>1 DEF IInv, TypeOK, NotStarted, Run
      <4> QED BY <4>2, <3>1, <3>3, <1>2, <1>3
    <3> QED BY <3>1, <3>2, <3>3, <1>3
  <2> QED BY <2>1, <2>2
<1>16. StreamShowsTheAnswer'
  <2> SUFFICES ASSUME NEW s \in Streams, stream'[s].pc = "ended"
               PROVE  /\ runs'[stream'[s].run].done
                      /\ stream'[s].at >= runs'[stream'[s].run].saved[1]
    BY DEF StreamShowsTheAnswer
  <2>1. s # f /\ stream'[s] = stream[s]
    BY <1>11
  <2>2. stream[s].run \in Ids \ {r}
    BY <2>1, <1>1, RunsAssumption DEF IInv, TypeOK, NoStream, NoRun, Ids
  <2>3. runs[stream[s].run].done /\ stream[s].at >= runs[stream[s].run].saved[1]
    BY <2>1 DEF IInv, StreamShowsTheAnswer
  <2> QED BY <2>1, <2>2, <2>3, <1>9 DEF Grown
<1> QED BY <1>8, <1>13, <1>14, <1>15, <1>16 DEF IInv

\* A step of a background task.
LEMMA PumpTame ==
    ASSUME IInv, NEW r \in Ids, Pump(r)
    PROVE  RunsTame /\ BookTame /\ StreamsTame /\ tick' \in [Ids -> BOOLEAN]
           /\ UNCHANGED started
<1> DEFINE run == runs[r]
<1>1. Sound(run) /\ runs \in [Ids -> Run]
  BY DEF IInv, TypeOK
<1>2. CASE PumpStarts(r)
  <2> DEFINE begun == [run EXCEPT !.task = "work"]
  <2>1. Grown(begun, run) /\ run.task # "none"
    BY <1>1, <1>2 DEF PumpStarts, Grown, Sound, Run, Busy
  <2>2. runs' = [runs EXCEPT ![r] = begun] /\ UNCHANGED <<registry, started, late, evicted>>
    BY <1>1, <1>2 DEF PumpStarts, book
  <2>3. RunsTame /\ BookTame
    BY <2>1, <2>2, OneRunTame
  <2> QED BY <2>3, <2>2, <1>2, StillTame DEF PumpStarts
<1>3. CASE PumpEvent(r)
  <2>1. Grown(Appended(run, "work"), run) /\ run.task # "none"
    BY <1>1, <1>3, AppendedSound DEF PumpEvent, Sound, Busy, Kinds
  <2>2. /\ runs' = [runs EXCEPT ![r] = Appended(run, "work")]
        /\ UNCHANGED <<registry, started, late, evicted>>
    BY <1>3 DEF PumpEvent, book
  <2>3. RunsTame /\ BookTame
    BY <2>1, <2>2, OneRunTame
  <2> QED BY <2>2, <2>3, <1>3, RingTame DEF PumpEvent
<1>4. ASSUME NEW last, Grown(last, run), run.task # "none", Ends(r, last)
      PROVE  RunsTame /\ BookTame /\ StreamsTame /\ tick' \in [Ids -> BOOLEAN]
             /\ UNCHANGED started
  <2> DEFINE over == [last EXCEPT !.task = "over"]
  <2>1. Sound(last) /\ last.task # "none"
    BY <1>4 DEF Grown
  <2>2. Grown(over, last) /\ ~Busy(over)
    BY <2>1, OverSound
  <2>3. Grown(Finished(over), over)
    BY <2>2, FinishedSound DEF Grown
  <2> HIDE DEF over
  <2>4. Grown(over, run)
    BY <2>2, <1>4, GrownTwice
  <2>5. Grown(Finished(over), run)
    BY <2>3, <2>4, GrownTwice
  <2>6. runs' = [runs EXCEPT ![r] = Finished(over)]
        /\ UNCHANGED <<registry, started, evicted>> /\ late' \subseteq late
    BY <1>4 DEF Ends, over
  <2>7. RunsTame /\ BookTame
    BY <1>4, <2>5, <2>6, OneRunTame
  <2> QED BY <2>6, <2>7, <1>4, RingTame DEF Ends
<1>5. CASE PumpEnds(r)
  <2>1. Grown(run, run) /\ run.task # "none" /\ Ends(r, run)
    BY <1>1, <1>5 DEF Grown, PumpEnds
  <2> QED BY <2>1, <1>4
<1>6. CASE PumpFails(r) \/ PumpCancelled(r)
  <2>1. Grown(Appended(run, "note"), run)
    BY <1>1, AppendedSound DEF Kinds
  <2>2. run.task # "none" /\ Ends(r, Appended(run, "note"))
    BY <1>6 DEF PumpFails, PumpCancelled
  <2> QED BY <2>1, <2>2, <1>4
<1> QED BY <1>2, <1>3, <1>5, <1>6 DEF Pump

-----------------------------------------------------------------------------
LEMMA NextKeepsIInv == IInv /\ [Next]_vars => IInv'
<1> SUFFICES ASSUME IInv, [Next]_vars PROVE IInv'
  OBVIOUS
<1>1. ASSUME NEW k \in Conversations, NEW f \in Streams, Join(k, f) \/ Resume(k, f)
      PROVE  IInv'
  <2>1. /\ Sweep /\ SweptRegistry[k] # NoRun
        /\ runs' = SweptRuns /\ registry' = SweptRegistry
        /\ stream' = Attached(f, SweptRegistry[k]) /\ UNCHANGED <<started, tick>>
    BY <1>1 DEF Join, Resume, Joinable
  <2>2. SweptRegistry[k] \in 1 .. started
    BY <2>1, RegisteredStarted
  <2>3. StreamsTame
    BY <2>1, <2>2, AttachTame
  <2>4. RunsTame /\ BookTame
    BY <2>1, SweptTame
  <2>5. tick' \in [Ids -> BOOLEAN]
    BY <2>1 DEF IInv, TypeOK
  <2> QED BY <2>1, <2>3, <2>4, <2>5, TameKeepsIInv
<1>2. CASE State
  <2>1. RunsTame /\ BookTame /\ UNCHANGED started
    BY <1>2, SweptTame DEF State
  <2>2. StreamsTame /\ tick' \in [Ids -> BOOLEAN]
    BY <1>2, StillTame DEF State
  <2> QED BY <2>1, <2>2, TameKeepsIInv
<1>3. ASSUME NEW k \in Conversations, Stop(k)
      PROVE  IInv'
  <2>1. RunsTame /\ BookTame
    BY <1>3, StopTame
  <2>2. SweptRegistry[k] \in Ids /\ Ring(SweptRegistry[k]) /\ UNCHANGED started
    BY <1>3, RegisteredStarted DEF Stop, Joinable
  <2>3. StreamsTame /\ tick' \in [Ids -> BOOLEAN]
    BY <2>2, RingTame
  <2> QED BY <2>1, <2>2, <2>3, TameKeepsIInv
<1>4. CASE Request
  BY <1>1, <1>2, <1>3, <1>4, BeginKeepsIInv DEF Request
<1>5. ASSUME NEW r \in Ids, Pump(r)
      PROVE  IInv'
  BY <1>5, PumpTame, TameKeepsIInv
<1>6. ASSUME NEW r \in Ids, GrowsLate(r)
      PROVE  IInv'
  <2>1. /\ UNCHANGED <<runs, registry, started, evicted, tick, stream>>
        /\ late' \subseteq Registered
    BY <1>6 DEF GrowsLate, InTime, IInv, TypeOK
  <2>2. StreamsTame /\ tick' \in [Ids -> BOOLEAN]
    BY <2>1, StillTame
  <2>3. \A s \in Ids : Grown(runs[s], runs[s])
    BY DEF IInv, Grown
  <2>4. RunsTame /\ BookTame
    BY <2>1, <2>3 DEF RunsTame, BookTame, IInv, TypeOK, AgentsInReach, AtWork, Registered
  <2> QED BY <2>1, <2>2, <2>4, TameKeepsIInv
<1>7. ASSUME NEW f \in Streams, Follow(f) \/ Leave(f)
      PROVE  IInv'
  <2>1. UNCHANGED <<runs, book>> /\ UNCHANGED started
    BY <1>7 DEF Follow, Read, Arm, Timeout, Leave, book
  <2>2. StreamsTame /\ tick' \in [Ids -> BOOLEAN]
    BY <1>7, ReadTame, WaitTame DEF Follow
  <2> QED BY <2>1, <2>2, IdleTame, TameKeepsIInv
<1>8. CASE UNCHANGED vars
  <2>1. UNCHANGED <<runs, book>> /\ UNCHANGED started /\ UNCHANGED <<tick, stream>>
    BY <1>8 DEF vars, book
  <2> QED BY <2>1, IdleTame, StillTame, TameKeepsIInv
<1> QED BY <1>4, <1>5, <1>6, <1>7, <1>8 DEF Next

\* The invariant all the theorems below come from.
LEMMA IInvHolds == Spec => []IInv
BY InitIInv, NextKeepsIInv, PTL DEF Spec

\* Every variable keeps its type, whatever requests, agents and browsers do.
THEOREM TypeCorrect == Spec => []TypeOK
<1>1. IInv => TypeOK
  BY DEF IInv
<1> QED BY <1>1, IInvHolds, PTL

\* An agent at work is the one its conversation's next request joins or stops,
\* unless a full registry pushed it out (ai_runs.py _sweep).
THEOREM AgentsInReachHolds == Spec => []AgentsInReach
<1>1. IInv => AgentsInReach
  BY DEF IInv
<1> QED BY <1>1, IInvHolds, PTL

\* However a run ends (by itself, by an error, a stop, the runtime limit, or
\* several of them), on_done gets the agent's whole answer, once (ai_runs.py finish).
THEOREM SavedOnceAndWholeHolds == Spec => []SavedOnceAndWhole
<1>1. IInv => SavedOnceAndWhole
  BY DEF IInv, Sound, SavedOnceAndWhole
<1> QED BY <1>1, IInvHolds, PTL

\* A stream that ends by itself has shown all that was saved (ai_runs.py follow).
THEOREM StreamShowsTheAnswerHolds == Spec => []StreamShowsTheAnswer
<1>1. IInv => StreamShowsTheAnswer
  BY DEF IInv
<1> QED BY <1>1, IInvHolds, PTL

-----------------------------------------------------------------------------
(***************************************************************************)
(* The conversation of a page with the server: what its invariant says     *)
(***************************************************************************)

\* A text is a sequence of pieces, each of a question.
Texts == Seq(Nat \X Nat)
Messages == [role: {"user", "assistant"}, text: Texts]
Requests == [op: {"append", "replace", "delete", "chat", "stop"}, conv: Convs,
             msgs: Seq(Messages), run: 0 .. MaxAsked]
Calls == [pc: {"off", "sent", "reading", "broken", "hung"}, conv: Convs \cup {NoConv},
          mode: {"append", "replace"}, run: 0 .. MaxAsked, pos: Nat, tries: Nat,
          aborted: BOOLEAN, fresh: BOOLEAN]
Answers == [state: {"none", "going", "done"}, events: Seq(Nat)]

\* What the variables range over.
ChatTyped ==
    /\ store \in [Convs -> Seq(Messages)] /\ filed \subseteq used /\ IsFiniteSet(filed)
    /\ answer \in [Questions -> Answers] /\ current \in [Convs -> 0 .. MaxAsked]
    /\ used \subseteq Convs /\ listed \subseteq used /\ active \in listed
    /\ IsFiniteSet(listed)
    /\ msgs \in [Convs -> Seq(Messages)] /\ \A c \in Convs \ used : msgs[c] = <<>>
    /\ busy \in Convs \cup {NoConv} /\ ac \in Readers \cup {NoReader}
    /\ reader \in [Readers -> Calls]
    /\ checks \subseteq used /\ syncing \in BOOLEAN
    /\ wire \in Seq(Requests) /\ \A i \in 1 .. Len(wire) : wire[i].conv \in used
    /\ asked \in Seq(used) /\ Len(asked) <= MaxAsked

-----------------------------------------------------------------------------
(* Transcripts *)

\* s ends with m
LastIs(s, m) == s # <<>> /\ Last(s) = m
\* every question in s is older than n
Below(n, s) == \A i \in 1 .. Len(s), k \in Nat : s[i] = Question(k) => k < n
\* no piece of t comes twice, and all are of question n
ReplyTo(n, t) == IsInjective(t) /\ \A i \in 1 .. Len(t) : t[i][1] = n
\* Questions of "own" in their order, each followed by one reply at most.
WellMade(own, s) ==
    /\ \A i \in 1 .. Len(s) :
          \/ \E n \in own : s[i] = Question(n)
          \/ /\ i > 1 /\ s[i].role = "assistant"
             /\ \E n \in own : s[i - 1] = Question(n) /\ ReplyTo(n, s[i].text)
    /\ \A i, j \in 1 .. Len(s), n, k \in own :
          i < j /\ s[i] = Question(n) /\ s[j] = Question(k) => n < k
\* s holds what the run a has to say to question n
Whole(n, a, s) ==
    a.state # "none" =>
       /\ Contains(s, Question(n))
       /\ a.state = "done" /\ a.events # <<>> => Contains(s, Reply(AnswerText(n, a.events)))
\* s ends with question n and the answer to it
Answered(n, a, s) ==
    /\ a.events # <<>> /\ Len(s) > 1 /\ s[Len(s) - 1] = Question(n)
    /\ Last(s) = Reply(AnswerText(n, a.events))
\* a reply t to question n fits what s ends with
Lost(n) == {<< <<n, Gone>> >>, << <<n, Refused>> >>}
Takes(n, a, s, t) ==
    \/ IsPrefix(t, AnswerText(n, a.events)) /\ (LastIs(s, Question(n)) \/ Answered(n, a, s))
    \/ t \in Lost(n) /\ a.state # "going" /\ a.events = <<>> /\ LastIs(s, Question(n))

-----------------------------------------------------------------------------
\* A run says 1, 2, ... and may end with an error.
Uttered(a) ==
    /\ a.state = "none" => a.events = <<>>
    /\ \A i \in 1 .. Len(a.events) :
          \/ a.events[i] = i /\ i <= Deltas
          \/ a.events[i] = Error /\ i = Len(a.events) /\ a.state = "done"

Runs ==
    /\ \A n \in Questions : Uttered(answer[n])
    /\ \A n \in Questions : answer[n].state # "none" => n <= Len(asked)
    /\ \A c \in Convs : current[c] # NoQuestion => current[c] \in Of(c)
    /\ \A c \in Convs : store[c] # <<>> => c \in filed

\* One run at most goes on; only a "stop" can be the next to arrive.
OneRun == \A n \in Questions : answer[n].state = "going" =>
    /\ current[asked[n]] = n /\ LastIs(store[asked[n]], Question(n))
    /\ \A k \in Questions : answer[k].state = "going" => k = n
    /\ wire # <<>> => wire[1].op = "stop" /\ wire[1].conv = asked[n] /\ n \in waived

\* What is stored and what is shown is well made.
Lists == \A c \in Convs : WellMade(Of(c), store[c]) /\ WellMade(Of(c), msgs[c])

\* An append under way brings a new question,
Asks(j, n) ==
    /\ wire[j].msgs = <<Question(n)>> /\ Below(n, store[wire[j].conv])
    /\ \A i \in 1 .. j - 1 : wire[i].conv = wire[j].conv => Below(n, wire[i].msgs)
\* or a part of the answer to the last one.
Tells(j, n) ==
    /\ j = 1 \/ (j = 2 /\ wire[1].op = "stop" /\ wire[1].conv = wire[j].conv)
    /\ \E t \in Texts : /\ wire[j].msgs = <<Reply(t)>> /\ t # <<>> /\ ReplyTo(n, t)
                        /\ Takes(n, answer[n], store[wire[j].conv], t)
Appends == \A j \in 1 .. Len(wire) : wire[j].op = "append" =>
    \E n \in Of(wire[j].conv) : Asks(j, n) \/ Tells(j, n)
\* A whole transcript under way lacks no finished answer, and only what the user
\* removed is deleted.
Replaces == \A j \in 1 .. Len(wire) :
    /\ wire[j].op = "replace" =>
         /\ WellMade(Of(wire[j].conv), wire[j].msgs)
         /\ \A n \in Of(wire[j].conv) \ waived : Whole(n, answer[n], wire[j].msgs)
    /\ wire[j].op = "delete" => /\ Of(wire[j].conv) \subseteq waived
                                /\ wire[j].conv \notin listed
    /\ wire[j].op \in {"chat", "stop", "delete"} => wire[j].msgs = <<>>
\* A question under way follows its append, and only a "stop" follows it.
Chats == \A j \in 1 .. Len(wire) : wire[j].op = "chat" => LET n == wire[j].run IN
    /\ n \in Of(wire[j].conv) /\ answer[n].state = "none"
    /\ j < Len(wire) => /\ wire[j + 1].op = "stop" /\ wire[j + 1].conv = wire[j].conv
                        /\ n \in waived
    /\ j = Len(wire) => \E r \in Readers : reader[r].pc = "sent" /\ reader[r].run = n
    /\ j = 1 => LastIs(store[wire[j].conv], Question(n))
    /\ j > 1 => /\ wire[j - 1].op = "append" /\ wire[j - 1].conv = wire[j].conv
                /\ wire[j - 1].msgs = <<Question(n)>>

\* One reader at most, and it is the one that "stop" would abort.
Handles ==
    /\ \A r, q \in Readers : ~Off(r) /\ ~Off(q) => r = q
    /\ busy = NoConv <=> ac = NoReader
    /\ ac # NoReader => ~Off(ac) /\ ~reader[ac].aborted /\ busy = active
    /\ \A r \in Readers : ~Off(r) /\ ~reader[r].aborted => ac = r
    /\ ~Free => ~syncing /\ checks = {}

\* The reader r writes the answer to the last question on screen. After a
\* resume everything before that is as the server has it.
Shown(r) ==
    LET rd == reader[r]  n == rd.run  s == msgs[active] IN
    /\ rd.conv = active /\ n \in Of(active)
    /\ rd.aborted => rd.pc = "broken" /\ n \in waived
    /\ Len(s) > 1 /\ s[Len(s) - 1] = Question(n) /\ Last(s).role = "assistant"
    /\ IsPrefix(Last(s).text, AnswerText(n, answer[n].events))
    /\ rd.pc \in {"sent", "reading"} =>
          IF rd.fresh THEN rd.pos = 0 ELSE Len(Last(s).text) = rd.pos
    /\ rd.mode = "replace" =>
          /\ answer[n].state # "none"
          /\ \A k \in Of(active) \ (waived \cup {n}) : Whole(k, answer[k], Front(s))
OnScreen == \A r \in Readers : ~Off(r) => Shown(r)

\* Where the server is with the question that r asked, once its run has begun,
Begun(r) ==
    LET rd == reader[r]  n == rd.run IN
    answer[n].state # "none" =>
    /\ rd.pc # "sent"
    /\ \/ wire = <<>>
       \/ rd.aborted /\ Len(wire) = 1 /\ wire[1].op = "stop" /\ wire[1].conv = active
    /\ ~rd.aborted /\ answer[n].events # <<>> => answer[n].events[1] # Error
    /\ answer[n].state = "done" => IF answer[n].events = <<>>
                                   THEN LastIs(store[active], Question(n))
                                   ELSE Answered(n, answer[n], store[active])
    /\ \A k \in Questions : answer[k].state = "going" => k = n /\ (rd.aborted => wire # <<>>)
\* and before that
Pending(r) ==
    LET rd == reader[r]  n == rd.run IN
    answer[n].state = "none" =>
    /\ rd.pc # "reading"
    /\ rd.pc = "sent" => wire # <<>> /\ Last(wire).op = "chat" /\ Last(wire).run = n
    /\ rd.pc # "sent" => \A i \in 1 .. Len(wire) : wire[i].op = "chat" => wire[i].run # n
    /\ rd.pc # "sent" /\ ~rd.aborted =>
         IF wire = <<>> THEN LastIs(store[active], Question(n))
         ELSE /\ Last(wire).op = "append" /\ Last(wire).conv = active
              /\ Last(wire).msgs = <<Question(n)>>
    /\ \A k \in Questions : answer[k].state = "going" => wire # <<>>
AtServer == \A r \in Readers : ~Off(r) => Begun(r) /\ Pending(r)

\* What is still to be asked after a reload; a run that nobody reads will be found.
Booting ==
    /\ syncing => Free /\ wire = <<>> /\ checks = {active}
    /\ checks # {} => \E c \in Convs : checks = {c}
    /\ \A n \in Questions : answer[n].state = "going" /\ Free /\ wire = <<>> =>
          /\ checks = {active} /\ active = asked[n]
          /\ syncing \/ msgs[active] = store[active]

\* Nothing that ended is lost.
Saved == \A n \in 1 .. Len(asked) : n \notin waived => Whole(n, answer[n], store[asked[n]])

\* s has a message that m is the beginning of
Covers(s, m) == \E j \in 1 .. Len(s) : s[j].role = m.role /\ IsPrefix(m.text, s[j].text)
Spares(q, c, m) == q.conv = c => /\ q.op # "delete"
                                 /\ q.op = "replace" => Covers(q.msgs, m)
Brings(q, c, m) == q.conv = c /\ q.op \in {"append", "replace"} /\ Covers(q.msgs, m)
\* When the requests w have arrived, the transcript c, which is s now, covers m.
Lands(s, w, c, m) ==
    \E i \in 0 .. Len(w) :
        /\ IF i = 0 THEN Covers(s, m) ELSE Brings(w[i], c, m)
        /\ \A j \in i + 1 .. Len(w) : Spares(w[j], c, m)
\* What the page shows is stored, or will be by the requests under way, or is the
\* reply that is being read.
Landing == ~syncing => \A c \in listed : \A i \in 1 .. Len(msgs[c]) :
    \/ msgs[c][i].text = <<>>
    \/ i = Len(msgs[c]) /\ c = active /\ ~Free
    \/ Lands(store[c], wire, c, msgs[c][i])

-----------------------------------------------------------------------------
(* Sequences *)

\* The beginning of a sequence, by its members.
LEMMA PrefixIs ==
    ASSUME NEW S, NEW s \in Seq(S), NEW t \in Seq(S)
    PROVE  IsPrefix(s, t) <=> /\ Len(s) <= Len(t)
                              /\ \A i \in 1 .. Len(s) : s[i] = t[i]
<1>1. /\ Len(s) \in Nat /\ Len(t) \in Nat
      /\ SubSeq(s, 1, Len(s)) \in Seq(S) /\ Len(SubSeq(s, 1, Len(s))) = Len(s)
      /\ \A i \in 1 .. Len(s) : SubSeq(s, 1, Len(s))[i] = s[i]
  OBVIOUS
<1>2. ASSUME Len(s) <= Len(t)
      PROVE  /\ SubSeq(t, 1, Len(s)) \in Seq(S) /\ Len(SubSeq(t, 1, Len(s))) = Len(s)
             /\ \A i \in 1 .. Len(s) : SubSeq(t, 1, Len(s))[i] = t[i]
  BY <1>1, <1>2
<1>3. ASSUME IsPrefix(s, t)
      PROVE  Len(s) <= Len(t) /\ \A i \in 1 .. Len(s) : s[i] = t[i]
  <2>1. Len(s) <= Len(t) /\ SubSeq(s, 1, Len(s)) = SubSeq(t, 1, Len(s))
    BY <1>3 DEF IsPrefix
  <2> QED BY <1>1, <1>2, <2>1
<1>4. ASSUME Len(s) <= Len(t), \A i \in 1 .. Len(s) : s[i] = t[i]
      PROVE  IsPrefix(s, t)
  <2>1. SubSeq(s, 1, Len(s)) = SubSeq(t, 1, Len(s))
    <3> DEFINE a == SubSeq(s, 1, Len(s))
               b == SubSeq(t, 1, Len(s))
    <3>1. a \in Seq(S) /\ b \in Seq(S) /\ Len(a) = Len(b) /\ \A i \in 1 .. Len(a) : a[i] = b[i]
      BY <1>1, <1>2, <1>4
    <3> HIDE DEF a, b
    <3>2. a = b
      BY <3>1, SeqEqual
    <3> QED BY <3>2 DEF a, b
  <2> QED BY <1>4, <2>1 DEF IsPrefix
<1> QED BY <1>3, <1>4

\* A sequence with one member more.
LEMMA Appended1 ==
    ASSUME NEW S, NEW s \in Seq(S), NEW e \in S
    PROVE  /\ Append(s, e) \in Seq(S) /\ Len(Append(s, e)) = Len(s) + 1 /\ Len(s) \in Nat
           /\ \A i \in 1 .. Len(s) : Append(s, e)[i] = s[i] /\ i \in 1 .. Len(s) + 1
           /\ Append(s, e)[Len(s) + 1] = e /\ Last(Append(s, e)) = e
           /\ Append(s, e) # <<>> /\ s \o <<e>> = Append(s, e)
  BY DEF Last

\* A sequence without its last member.
LEMMA Fronts ==
    ASSUME NEW S, NEW s \in Seq(S), s # <<>>
    PROVE  /\ Front(s) \in Seq(S) /\ Len(Front(s)) = Len(s) - 1
           /\ Len(s) \in Nat \ {0} /\ Last(s) \in S /\ Last(s) = s[Len(s)]
           /\ \A i \in 1 .. Len(s) - 1 : Front(s)[i] = s[i] /\ i \in 1 .. Len(s)
<1>1. /\ Len(s) \in Nat \ {0} /\ Last(s) \in S /\ Last(s) = s[Len(s)]
      /\ \A i \in 1 .. Len(s) : s[i] \in S
  BY DEF Last
<1> DEFINE n == Len(s) - 1
<1>2. n \in Nat /\ n \in Int /\ \A i \in 1 .. n : s[i] \in S /\ i \in 1 .. Len(s)
  BY <1>1
<1> HIDE DEF n
<1>3. /\ SubSeq(s, 1, n) \in Seq(S) /\ Len(SubSeq(s, 1, n)) = n
      /\ \A i \in 1 .. n : SubSeq(s, 1, n)[i] = s[i]
  BY <1>2, SubSeqProperties
<1> QED BY <1>1, <1>2, <1>3 DEF Front, n

\* A sequence without its first member.
LEMMA FirstRemoved ==
    ASSUME NEW S, NEW s \in Seq(S), s # <<>>
    PROVE  /\ RemoveAt(s, 1) \in Seq(S) /\ Len(RemoveAt(s, 1)) = Len(s) - 1
           /\ Len(s) \in Nat \ {0} /\ s[1] \in S
           /\ \A i \in 1 .. Len(s) - 1 : RemoveAt(s, 1)[i] = s[i + 1] /\ i + 1 \in 2 .. Len(s)
<1> DEFINE a == SubSeq(s, 1, 0)
           b == SubSeq(s, 2, Len(s))
<1>1. Len(s) \in Nat \ {0} /\ s[1] \in S /\ Len(s) \in Nat /\ Len(s) >= 1
  OBVIOUS
<1>2. a = <<>>
  OBVIOUS
<1>3. /\ b \in Seq(S) /\ Len(b) = Len(s) - 1
      /\ \A i \in 1 .. Len(s) - 1 : b[i] = s[i + 1] /\ i + 1 \in 2 .. Len(s)
  <2>1. Len(s) \in Int /\ \A i \in 2 .. Len(s) : s[i] \in S
    BY <1>1
  <2>2. /\ b \in Seq(S) /\ Len(b) = IF 2 <= Len(s) THEN Len(s) - 2 + 1 ELSE 0
        /\ \A i \in 1 .. Len(s) - 2 + 1 : b[i] = s[2 + i - 1]
    BY <2>1, SubSeqProperties
  <2> HIDE DEF b
  <2>3. ASSUME NEW i \in 1 .. Len(s) - 1
        PROVE  b[i] = s[i + 1] /\ i + 1 \in 2 .. Len(s)
    <3>1. i \in 1 .. Len(s) - 2 + 1 /\ 2 + i - 1 = i + 1 /\ i + 1 \in 2 .. Len(s)
      BY <1>1
    <3> QED BY <2>2, <3>1
  <2>4. Len(b) = Len(s) - 1
    <3>1. Len(b) = IF 2 <= Len(s) THEN Len(s) - 2 + 1 ELSE 0
      BY <2>2
    <3>2. CASE Len(s) = 1
      BY <3>1, <3>2
    <3>3. CASE 2 <= Len(s)
      BY <1>1, <3>1, <3>3
    <3>4. Len(s) = 1 \/ 2 <= Len(s)
      <4>1. \A k \in Nat : k >= 1 => k = 1 \/ 2 <= k
        OBVIOUS
      <4> QED BY <1>1, <4>1
    <3> QED BY <3>2, <3>3, <3>4
  <2> QED BY <2>2, <2>3, <2>4
<1>4. RemoveAt(s, 1) = a \o b
  BY DEF RemoveAt
<1> HIDE DEF a, b
<1>5. RemoveAt(s, 1) = b
  BY <1>2, <1>3, <1>4
<1> QED BY <1>1, <1>3, <1>5

\* Front is RemoveAt at the end.
LEMMA LastRemoved ==
    ASSUME NEW S, NEW s \in Seq(S), s # <<>>
    PROVE  RemoveAt(s, Len(s)) = Front(s)
<1> DEFINE a == SubSeq(s, 1, Len(s) - 1)
           b == SubSeq(s, Len(s) + 1, Len(s))
<1>1. a \in Seq(S) /\ b = <<>>
  OBVIOUS
<1>2. RemoveAt(s, Len(s)) = a \o b /\ Front(s) = a
  BY DEF RemoveAt, Front
<1> HIDE DEF a, b
<1> QED BY <1>1, <1>2

-----------------------------------------------------------------------------
(* Messages *)

\* Questions and replies are messages and cannot be taken for each other.
LEMMA MessageIs ==
    /\ \A n \in Nat : /\ Question(n) \in Messages /\ Question(n).role = "user"
                      /\ Question(n).text = << <<n, 0>> >> /\ Question(n).text # <<>>
    /\ \A t \in Texts : Reply(t) \in Messages /\ Reply(t).role = "assistant" /\ Reply(t).text = t
    /\ \A m \in Messages : m.role = "assistant" => m = Reply(m.text)
    /\ \A n, k \in Nat : Question(n) = Question(k) => n = k
    /\ \A n \in Nat, t \in Texts : Question(n) # Reply(t)
<1>1. ASSUME NEW n \in Nat
      PROVE  /\ Question(n) \in Messages /\ Question(n).role = "user"
             /\ Question(n).text = << <<n, 0>> >> /\ Question(n).text # <<>>
  BY DEF Question, Msg, Messages, Texts, Asked
<1>2. \A t \in Texts : Reply(t) \in Messages /\ Reply(t).role = "assistant" /\ Reply(t).text = t
  BY DEF Reply, Msg, Messages
<1>3. \A m \in Messages : m.role = "assistant" => m = Reply(m.text)
  BY DEF Reply, Msg, Messages
<1>4. ASSUME NEW n \in Nat, NEW k \in Nat, Question(n) = Question(k)
      PROVE  n = k
  <2>1. << <<n, 0>> >> = << <<k, 0>> >>
    BY <1>1, <1>4
  <2>2. << <<n, 0>> >>[1] = <<n, 0>> /\ << <<k, 0>> >>[1] = <<k, 0>>
    OBVIOUS
  <2>3. <<n, 0>> = <<k, 0>>
    BY <2>1, <2>2
  <2>4. <<n, 0>>[1] = n /\ <<k, 0>>[1] = k
    OBVIOUS
  <2> QED BY <2>3, <2>4
<1>5. \A n \in Nat, t \in Texts : Question(n) # Reply(t)
  BY <1>1, <1>2
<1> QED BY <1>1, <1>2, <1>3, <1>4, <1>5

\* What a run has said is a text; a longer list of events makes a longer text.
LEMMA AnswerIs ==
    ASSUME NEW n \in Nat, NEW ev \in Seq(Nat)
    PROVE  /\ AnswerText(n, ev) \in Texts /\ Len(AnswerText(n, ev)) = Len(ev)
           /\ \A i \in 1 .. Len(ev) : /\ AnswerText(n, ev)[i][1] = n
                                      /\ i > 1 \/ ev[i] # Error =>
                                            AnswerText(n, ev)[i] = <<n, ev[i]>>
                                      /\ AnswerText(n, ev)[i][2] \in {ev[i], BareError}
           /\ AnswerText(n, ev) = <<>> <=> ev = <<>>
<1> DEFINE w(i) == <<n, IF i = 1 /\ ev[i] = Error THEN BareError ELSE ev[i]>>
<1>1. Len(ev) \in Nat /\ \A i \in 1 .. Len(ev) : ev[i] \in Nat
  OBVIOUS
<1>2. \A i \in 1 .. Len(ev) : /\ w(i) \in Nat \X Nat /\ w(i)[1] = n
                              /\ i > 1 \/ ev[i] # Error => w(i) = <<n, ev[i]>>
                              /\ w(i)[2] \in {ev[i], BareError}
  BY <1>1 DEF BareError
<1>3. AnswerText(n, ev) = [i \in 1 .. Len(ev) |-> w(i)]
  BY DEF AnswerText
<1> HIDE DEF w
<1>4. AnswerText(n, ev) \in Texts /\ Len(AnswerText(n, ev)) = Len(ev)
  BY <1>1, <1>2, <1>3, IsASeq DEF Texts
<1>5. \A i \in 1 .. Len(ev) : AnswerText(n, ev)[i] = w(i)
  BY <1>3
<1>6. AnswerText(n, ev) = <<>> <=> ev = <<>>
  BY <1>4 DEF Texts
<1> QED BY <1>2, <1>4, <1>5, <1>6

-----------------------------------------------------------------------------
(* Transcripts *)

\* A transcript stays well made when more questions are asked elsewhere in it.
LEMMA MoreQuestions ==
    ASSUME NEW own \in SUBSET Nat, NEW all \in SUBSET Nat, own \subseteq all,
           NEW s \in Seq(Messages), WellMade(own, s)
    PROVE  WellMade(all, s)
<1>1. ASSUME NEW i \in 1 .. Len(s), NEW n \in all, s[i] = Question(n)
      PROVE  n \in own
  <2>1. CASE \E k \in own : s[i] = Question(k)
    BY <1>1, <2>1, MessageIs
  <2>2. CASE s[i].role = "assistant"
    BY <1>1, <2>2, MessageIs
  <2> QED BY <2>1, <2>2 DEF WellMade
<1>2. ASSUME NEW i \in 1 .. Len(s), NEW j \in 1 .. Len(s), NEW n \in all, NEW k \in all,
             i < j, s[i] = Question(n), s[j] = Question(k)
      PROVE  n < k
  <2>1. n \in own /\ k \in own
    BY <1>1, <1>2
  <2> QED BY <1>2, <2>1 DEF WellMade
<1>3. ASSUME NEW i \in 1 .. Len(s)
      PROVE  \/ \E n \in all : s[i] = Question(n)
             \/ /\ i > 1 /\ s[i].role = "assistant"
                /\ \E n \in all : s[i - 1] = Question(n) /\ ReplyTo(n, s[i].text)
  BY DEF WellMade
<1> QED BY <1>2, <1>3 DEF WellMade

\* The empty transcript is well made.
LEMMA NothingMade ==
    ASSUME NEW own
    PROVE  WellMade(own, <<>>)
  BY DEF WellMade

\* The questions of a transcript are its own.
LEMMA OwnQuestion ==
    ASSUME NEW own \in SUBSET Nat, NEW s \in Seq(Messages), WellMade(own, s),
           NEW i \in 1 .. Len(s), NEW n \in Nat, s[i] = Question(n)
    PROVE  n \in own
<1>1. CASE \E k \in own : s[i] = Question(k)
  BY <1>1, MessageIs
<1>2. CASE s[i].role = "assistant"
  BY <1>2, MessageIs
<1> QED BY <1>1, <1>2 DEF WellMade

\* A newer question at the end keeps a transcript well made,
LEMMA QuestionAdded ==
    ASSUME NEW own \in SUBSET Nat, NEW n \in own, NEW s \in Seq(Messages),
           WellMade(own, s), Below(n, s)
    PROVE  WellMade(own, Append(s, Question(n)))
<1> DEFINE q == Question(n)
           u == Append(s, q)
<1>1. q \in Messages /\ q.role = "user"
  BY MessageIs
<1>2. /\ Len(u) = Len(s) + 1 /\ Len(s) \in Nat /\ u[Len(s) + 1] = q
      /\ \A i \in 1 .. Len(s) : u[i] = s[i]
  BY <1>1, Appended1
<1> HIDE DEF u
<1>3. ASSUME NEW i \in 1 .. Len(u)
      PROVE  \/ \E k \in own : u[i] = Question(k)
             \/ /\ i > 1 /\ u[i].role = "assistant"
                /\ \E k \in own : u[i - 1] = Question(k) /\ ReplyTo(k, u[i].text)
  <2>1. CASE i = Len(s) + 1
    BY <1>2, <2>1
  <2>2. CASE i \in 1 .. Len(s)
    <3>1. u[i] = s[i] /\ (i > 1 => u[i - 1] = s[i - 1])
      BY <1>2, <2>2
    <3> QED BY <2>2, <3>1 DEF WellMade
  <2>3. i = Len(s) + 1 \/ i \in 1 .. Len(s)
    BY <1>2
  <2> QED BY <2>1, <2>2, <2>3
<1>4. ASSUME NEW i \in 1 .. Len(u), NEW j \in 1 .. Len(u), NEW m \in own, NEW k \in own,
             i < j, u[i] = Question(m), u[j] = Question(k)
      PROVE  m < k
  <2>1. i \in 1 .. Len(s) /\ u[i] = s[i] /\ m \in Nat
    BY <1>2, <1>4
  <2>2. CASE j = Len(s) + 1
    <3>1. k = n
      BY <1>2, <1>4, <2>2, MessageIs
    <3> QED BY <1>4, <2>1, <3>1 DEF Below
  <2>3. CASE j \in 1 .. Len(s)
    BY <1>2, <1>4, <2>1, <2>3 DEF WellMade
  <2> QED BY <1>2, <2>2, <2>3
<1> QED BY <1>3, <1>4 DEF WellMade, u

\* and so does a reply directly after its question.
LEMMA ReplyAdded ==
    ASSUME NEW own \in SUBSET Nat, NEW n \in own, NEW s \in Seq(Messages),
           WellMade(own, s), LastIs(s, Question(n)), NEW t \in Texts, ReplyTo(n, t)
    PROVE  WellMade(own, Append(s, Reply(t)))
<1> DEFINE q == Reply(t)
           u == Append(s, q)
<1>1. q \in Messages /\ q.role = "assistant" /\ q.text = t /\ \A k \in Nat : Question(k) # q
  BY MessageIs
<1>2. /\ Len(u) = Len(s) + 1 /\ Len(s) \in Nat /\ u[Len(s) + 1] = q
      /\ \A i \in 1 .. Len(s) : u[i] = s[i]
  BY <1>1, Appended1
<1>3. Len(s) > 0 /\ s[Len(s)] = Question(n)
  BY <1>2 DEF LastIs, Last
<1> HIDE DEF u, q
<1>4. ASSUME NEW i \in 1 .. Len(u)
      PROVE  \/ \E k \in own : u[i] = Question(k)
             \/ /\ i > 1 /\ u[i].role = "assistant"
                /\ \E k \in own : u[i - 1] = Question(k) /\ ReplyTo(k, u[i].text)
  <2>1. CASE i = Len(s) + 1
    <3>1. i > 1 /\ u[i] = q /\ u[i - 1] = Question(n)
      BY <1>2, <1>3, <2>1
    <3> QED BY <1>1, <3>1
  <2>2. CASE i \in 1 .. Len(s)
    <3>1. u[i] = s[i] /\ (i > 1 => u[i - 1] = s[i - 1])
      BY <1>2, <2>2
    <3> QED BY <2>2, <3>1 DEF WellMade
  <2>3. i = Len(s) + 1 \/ i \in 1 .. Len(s)
    BY <1>2
  <2> QED BY <2>1, <2>2, <2>3
<1>5. ASSUME NEW i \in 1 .. Len(u), NEW j \in 1 .. Len(u), NEW m \in own, NEW k \in own,
             i < j, u[i] = Question(m), u[j] = Question(k)
      PROVE  m < k
  <2>1. j # Len(s) + 1
    BY <1>1, <1>2, <1>5
  <2>2. i \in 1 .. Len(s) /\ j \in 1 .. Len(s)
    BY <1>2, <1>5, <2>1
  <2> QED BY <1>2, <1>5, <2>2 DEF WellMade
<1> QED BY <1>4, <1>5 DEF WellMade, u, q

\* A transcript without its last message is well made.
LEMMA FrontMade ==
    ASSUME NEW own \in SUBSET Nat, NEW s \in Seq(Messages), s # <<>>, WellMade(own, s)
    PROVE  WellMade(own, Front(s)) /\ Front(s) \in Seq(Messages)
<1> DEFINE u == Front(s)
<1>1. /\ u \in Seq(Messages) /\ Len(u) = Len(s) - 1 /\ Len(s) \in Nat
      /\ \A i \in 1 .. Len(u) : u[i] = s[i] /\ i \in 1 .. Len(s)
  BY Fronts
<1> HIDE DEF u
<1>2. ASSUME NEW i \in 1 .. Len(u)
      PROVE  \/ \E k \in own : u[i] = Question(k)
             \/ /\ i > 1 /\ u[i].role = "assistant"
                /\ \E k \in own : u[i - 1] = Question(k) /\ ReplyTo(k, u[i].text)
  <2>1. i \in 1 .. Len(s) /\ u[i] = s[i] /\ (i > 1 => u[i - 1] = s[i - 1])
    BY <1>1
  <2> QED BY <2>1 DEF WellMade
<1>3. ASSUME NEW i \in 1 .. Len(u), NEW j \in 1 .. Len(u), NEW m \in own, NEW k \in own,
             i < j, u[i] = Question(m), u[j] = Question(k)
      PROVE  m < k
  BY <1>1, <1>3 DEF WellMade
<1> QED BY <1>1, <1>2, <1>3 DEF WellMade, u

\* u is s with t as the reply to question n, with which it ends.
Retold(own, n, s, t, u) ==
    /\ WellMade(own, u) /\ u \in Seq(Messages) /\ Len(u) = Len(s)
    /\ u[Len(s) - 1] = Question(n) /\ Last(u) = Reply(t) /\ u[Len(s)] = Reply(t)
    /\ Front(u) = Front(s) /\ \A i \in 1 .. Len(s) - 1 : u[i] = s[i]

\* patchLast: another reply to the same question in the place of the last message.
LEMMA ReplyReplaced ==
    ASSUME NEW own \in SUBSET Nat, NEW n \in own, NEW s \in Seq(Messages), WellMade(own, s),
           Len(s) > 1, s[Len(s) - 1] = Question(n), NEW t \in Texts, ReplyTo(n, t)
    PROVE  Retold(own, n, s, t, Append(Front(s), Reply(t)))
<1> DEFINE f == Front(s)
           q == Reply(t)
           u == Append(f, q)
<1>1. /\ f \in Seq(Messages) /\ Len(f) = Len(s) - 1 /\ Len(s) \in Nat
      /\ \A i \in 1 .. Len(s) - 1 : f[i] = s[i]
      /\ WellMade(own, f)
  BY Fronts, FrontMade
<1>2. q \in Messages
  BY MessageIs
<1> HIDE DEF f, q
<1>3. LastIs(f, Question(n))
  <2>1. Len(s) - 1 \in 1 .. Len(s) - 1 /\ Len(f) > 0
    BY <1>1
  <2> QED BY <1>1, <2>1 DEF LastIs, Last
<1>4. WellMade(own, u)
  BY <1>1, <1>3, ReplyAdded DEF q
<1>5. /\ u \in Seq(Messages) /\ Len(u) = Len(f) + 1 /\ Last(u) = q /\ u # <<>>
      /\ \A i \in 1 .. Len(f) : u[i] = f[i]
  BY <1>1, <1>2, Appended1
<1> HIDE DEF u
<1>6. Len(u) = Len(s) /\ \A i \in 1 .. Len(s) - 1 : u[i] = s[i]
  BY <1>1, <1>5
<1>7. u[Len(s) - 1] = Question(n)
  BY <1>1, <1>6
<1>8. Front(u) = f
  <2>1. /\ Front(u) \in Seq(Messages) /\ Len(Front(u)) = Len(f)
        /\ \A i \in 1 .. Len(f) : Front(u)[i] = f[i]
    <3>1. /\ Front(u) \in Seq(Messages) /\ Len(Front(u)) = Len(u) - 1
          /\ \A i \in 1 .. Len(u) - 1 : Front(u)[i] = u[i]
      BY <1>5, Fronts
    <3>2. Len(u) - 1 = Len(f)
      BY <1>1, <1>5
    <3> QED BY <1>5, <3>1, <3>2
  <2> QED BY <1>1, <2>1, SeqEqual
<1>9. u[Len(s)] = q
  BY <1>1, <1>5, <1>6 DEF Last
<1>10. Front(u) = Front(s)
  BY <1>8 DEF f
<1> QED BY <1>4, <1>5, <1>6, <1>7, <1>9, <1>10 DEF Retold, u, f, q

\* _dedup where it is used: a question that is new, or is there already; a reply to
\* the question at the end, or to one that is answered.
LEMMA NewQuestionKept ==
    ASSUME NEW own \in SUBSET Nat, NEW n \in Nat, NEW s \in Seq(Messages),
           WellMade(own, s), Below(n, s)
    PROVE  Deduped(s, Question(n)) = Append(s, Question(n))
<1>1. SUFFICES ASSUME s # <<>>, Last(s).role = "user"
               PROVE  ~ SameOrPrefix(Last(s).text, Question(n).text)
  BY MessageIs DEF Deduped
<1>2. /\ Len(s) \in 1 .. Len(s) /\ Last(s) = s[Len(s)] /\ Last(s) \in Messages
  BY <1>1, Fronts
<1>3. PICK k \in own : s[Len(s)] = Question(k)
  BY <1>1, <1>2 DEF WellMade
<1>4. k < n
  BY <1>2, <1>3 DEF Below
<1> DEFINE a == << <<k, 0>> >>
           b == << <<n, 0>> >>
<1>5. Last(s).text = a /\ Question(n).text = b
  BY <1>2, <1>3, MessageIs
<1>6. a \in Texts /\ b \in Texts /\ Len(a) = 1 /\ Len(b) = 1 /\ a[1] = <<k, 0>> /\ b[1] = <<n, 0>>
  BY DEF Texts
<1>7. a[1] # b[1]
  <2>1. <<k, 0>>[1] = k /\ <<n, 0>>[1] = n /\ k # n
    BY <1>4
  <2> QED BY <1>6, <2>1
<1> HIDE DEF a, b
<1>8. ~IsPrefix(a, b) /\ ~IsPrefix(b, a)
  BY <1>6, <1>7, PrefixIs DEF Texts
<1> QED BY <1>5, <1>8 DEF SameOrPrefix

\* _dedup drops a question that is the last message already,
LEMMA SameQuestionDropped ==
    ASSUME NEW n \in Nat, NEW s \in Seq(Messages), LastIs(s, Question(n))
    PROVE  Deduped(s, Question(n)) = s
<1> DEFINE t == Question(n).text
<1>1. t \in Texts /\ t # <<>>
  BY MessageIs DEF Texts, Messages
<1>2. IsPrefix(t, t)
  BY <1>1, PrefixIs DEF Texts
<1>3. SameOrPrefix(t, t) /\ ~(Len(t) > Len(t))
  BY <1>1, <1>2 DEF SameOrPrefix, Texts
<1> QED BY <1>3 DEF Deduped, LastIs

\* adds a reply to the question at the end,
LEMMA FirstReplyKept ==
    ASSUME NEW n \in Nat, NEW s \in Seq(Messages), LastIs(s, Question(n)), NEW t \in Texts
    PROVE  Deduped(s, Reply(t)) = Append(s, Reply(t))
  BY MessageIs DEF Deduped, LastIs

\* and drops a reply that the last message begins with.
LEMMA ShorterReplyDropped ==
    ASSUME NEW s \in Seq(Messages), NEW t \in Texts, NEW u \in Texts, LastIs(s, Reply(u)),
           t # <<>>, IsPrefix(t, u)
    PROVE  Deduped(s, Reply(t)) = s
<1>1. Last(s).role = Reply(t).role /\ Last(s).text = u /\ Reply(t).text = t
  BY MessageIs DEF LastIs
<1>2. Len(t) <= Len(u) /\ Len(t) \in Nat /\ Len(u) \in Nat /\ u # <<>>
  BY PrefixIs DEF Texts
<1>3. SameOrPrefix(u, t) /\ ~(Len(t) > Len(u))
  BY <1>2 DEF SameOrPrefix
<1> QED BY <1>1, <1>3 DEF Deduped, LastIs

-----------------------------------------------------------------------------
(* Replies *)

\* The blank reply is a reply to any question.
LEMMA NoReply ==
    ASSUME NEW n
    PROVE  ReplyTo(n, <<>>) /\ <<>> \in Texts
  BY DEF ReplyTo, IsInjective, Texts

\* A line of the page about a lost or refused question is a reply to it.
LEMMA LostReply ==
    ASSUME NEW n \in Nat, NEW t \in Lost(n)
    PROVE  ReplyTo(n, t) /\ t \in Texts /\ t # <<>>
<1>1. PICK x \in {Gone, Refused} : t = << <<n, x>> >>
  BY DEF Lost
<1>2. x \in Nat /\ <<n, x>> \in Nat \X Nat /\ <<n, x>>[1] = n
  BY DEF Gone, Refused
<1>3. t \in Texts /\ Len(t) = 1 /\ t[1] = <<n, x>> /\ t # <<>> /\ DOMAIN t = {1}
  BY <1>1, <1>2 DEF Texts
<1> QED BY <1>2, <1>3 DEF ReplyTo, IsInjective

\* What a run says in the end, and any part it begins with, is a reply.
LEMMA AnswerReplies ==
    ASSUME NEW n \in Nat, NEW a \in Answers, Uttered(a), NEW t \in Texts,
           IsPrefix(t, AnswerText(n, a.events))
    PROVE  ReplyTo(n, t)
<1> DEFINE ev == a.events
           w == AnswerText(n, ev)
<1>1. ev \in Seq(Nat) /\ Len(ev) \in Nat
  BY DEF Answers
<1>2. /\ w \in Texts /\ Len(w) = Len(ev)
      /\ \A i \in 1 .. Len(ev) : /\ w[i][1] = n
                                 /\ i > 1 \/ ev[i] # Error => w[i] = <<n, ev[i]>>
                                 /\ w[i][2] \in {ev[i], BareError}
  BY <1>1, AnswerIs
<1>3. \A i \in 1 .. Len(ev) : \/ ev[i] = i /\ i <= Deltas
                              \/ ev[i] = Error /\ i = Len(ev)
  BY DEF Uttered
<1> HIDE DEF w, ev
<1>4. /\ Len(t) <= Len(ev) /\ Len(t) \in Nat /\ DOMAIN t = 1 .. Len(t)
      /\ \A i \in 1 .. Len(t) : t[i] = w[i] /\ i \in 1 .. Len(ev)
  <2>1. Len(t) <= Len(w) /\ \A i \in 1 .. Len(t) : t[i] = w[i]
    BY <1>2, PrefixIs DEF Texts, w, ev
  <2>2. Len(t) \in Nat /\ DOMAIN t = 1 .. Len(t)
    BY DEF Texts
  <2>3. Len(t) <= Len(ev)
    BY <1>2, <2>1
  <2>4. \A i \in 1 .. Len(t) : i \in 1 .. Len(ev)
    BY <1>1, <2>2, <2>3
  <2> QED BY <2>1, <2>2, <2>3, <2>4
<1>5. ASSUME NEW i \in 1 .. Len(t), NEW j \in 1 .. Len(t), i < j
      PROVE  t[i] # t[j]
  <2>1. t[i] = w[i] /\ t[j] = w[j] /\ i \in 1 .. Len(ev) /\ j \in 1 .. Len(ev)
    BY <1>4
  <2>2. ev[i] = i /\ i <= Deltas
    BY <1>3, <1>4, <1>5, <2>1
  <2>3. w[j] = <<n, ev[j]>>
    BY <1>2, <1>5, <2>1
  <2>4. w[i][2] = i
    <3>1. ev[i] # Error
      BY <2>2, BoundAssumption DEF Error
    <3>2. w[i] = <<n, ev[i]>>
      BY <1>2, <2>1, <3>1
    <3> QED BY <2>2, <3>2
  <2>5. w[j][2] # i
    <3>1. ev[j] \in {j, Error} /\ w[j][2] = ev[j]
      BY <1>3, <2>1, <2>3
    <3>2. i # j /\ i # Error
      BY <1>5, <2>2, BoundAssumption DEF Error
    <3> QED BY <3>1, <3>2
  <2> QED BY <2>1, <2>4, <2>5
<1>6. IsInjective(t)
  <2> SUFFICES ASSUME NEW i \in 1 .. Len(t), NEW j \in 1 .. Len(t), t[i] = t[j]
               PROVE  i = j
    BY <1>4 DEF IsInjective
  <2>1. i < j \/ j < i \/ i = j
    BY <1>4
  <2> QED BY <1>5, <2>1
<1> QED BY <1>2, <1>4, <1>6 DEF ReplyTo

-----------------------------------------------------------------------------
(* What a transcript holds and covers *)

\* One message more takes nothing away.
LEMMA OneMore ==
    ASSUME NEW s \in Seq(Messages), NEW m \in Messages
    PROVE  /\ \A e : Contains(s, e) => Contains(Append(s, m), e)
           /\ Contains(Append(s, m), m) /\ LastIs(Append(s, m), m)
           /\ \A e : Covers(s, e) => Covers(Append(s, m), e)
           /\ \A n, a : Whole(n, a, s) => Whole(n, a, Append(s, m))
           /\ \A n : Below(n, s) /\ (\A k \in Nat : m = Question(k) => k < n)
                        => Below(n, Append(s, m))
<1> DEFINE u == Append(s, m)
<1>1. /\ Len(s) \in Nat /\ Len(u) = Len(s) + 1 /\ u[Len(s) + 1] = m /\ u # <<>> /\ Last(u) = m
      /\ \A i \in 1 .. Len(s) : u[i] = s[i]
  BY Appended1
<1> HIDE DEF u
<1>2. \A i \in 1 .. Len(s) : i \in 1 .. Len(u)
  BY <1>1
<1>3. Len(s) + 1 \in 1 .. Len(u)
  BY <1>1
<1>4. \A e : Contains(s, e) => Contains(u, e)
  BY <1>1, <1>2 DEF Contains
<1>5. Contains(u, m) /\ LastIs(u, m)
  BY <1>1, <1>3 DEF Contains, LastIs
<1>6. \A e : Covers(s, e) => Covers(u, e)
  BY <1>1, <1>2 DEF Covers
<1>7. \A n, a : Whole(n, a, s) => Whole(n, a, u)
  BY <1>4 DEF Whole
<1>8. ASSUME NEW n, Below(n, s), \A k \in Nat : m = Question(k) => k < n
      PROVE  Below(n, u)
  <2>1. \A i \in 1 .. Len(u) : i \in 1 .. Len(s) \/ i = Len(s) + 1
    BY <1>1
  <2> QED BY <1>1, <1>8, <2>1 DEF Below
<1> QED BY <1>4, <1>5, <1>6, <1>7, <1>8 DEF u

\* The text of a message.
LEMMA TextIs ==
    \A m \in Messages : m.text \in Texts /\ m.text \in Seq(Nat \X Nat)
  BY DEF Messages, Texts

\* A transcript covers its messages,
LEMMA CoversItself ==
    ASSUME NEW s \in Seq(Messages), NEW i \in 1 .. Len(s)
    PROVE  Covers(s, s[i])
<1> DEFINE a == s[i].text
<1>1. a \in Seq(Nat \X Nat)
  BY TextIs
<1> HIDE DEF a
<1>2. IsPrefix(a, a)
  BY <1>1, PrefixIs
<1> QED BY <1>2 DEF Covers, a

\* and what these cover.
LEMMA CoversMore ==
    ASSUME NEW s \in Seq(Messages), NEW x \in Messages, NEW m \in Messages,
           Covers(<<x>>, m), Covers(s, x)
    PROVE  Covers(s, m)
<1>1. m.role = x.role /\ IsPrefix(m.text, x.text)
  <2>1. <<x>>[1] = x /\ Len(<<x>>) = 1
    OBVIOUS
  <2>2. PICK i \in 1 .. Len(<<x>>) : <<x>>[i].role = m.role /\ IsPrefix(m.text, <<x>>[i].text)
    BY DEF Covers
  <2>3. i = 1
    BY <2>1, <2>2
  <2> QED BY <2>1, <2>2, <2>3
<1>2. PICK j \in 1 .. Len(s) : s[j].role = x.role /\ IsPrefix(x.text, s[j].text)
  BY DEF Covers
<1> DEFINE a == m.text
           b == x.text
           d == s[j].text
<1>3. a \in Seq(Nat \X Nat) /\ b \in Seq(Nat \X Nat) /\ d \in Seq(Nat \X Nat)
  BY TextIs
<1>0. IsPrefix(a, b) /\ IsPrefix(b, d)
  BY <1>1, <1>2
<1> HIDE DEF a, b, d
<1>4. /\ Len(a) <= Len(b) /\ \A i \in 1 .. Len(a) : a[i] = b[i]
      /\ Len(b) <= Len(d) /\ \A i \in 1 .. Len(b) : b[i] = d[i]
      /\ Len(a) \in Nat /\ Len(b) \in Nat /\ Len(d) \in Nat
  BY <1>0, <1>3, PrefixIs
<1>5. IsPrefix(a, d) <=> Len(a) <= Len(d) /\ \A i \in 1 .. Len(a) : a[i] = d[i]
  BY <1>3, PrefixIs
<1>6. Len(a) <= Len(d) /\ \A i \in 1 .. Len(a) : i \in 1 .. Len(b) /\ a[i] = d[i]
  BY <1>4
<1>7. IsPrefix(a, d)
  BY <1>5, <1>6
<1> QED BY <1>1, <1>2, <1>7 DEF Covers, a, d

\* What w holds after its first d requests is u.
Shift(w, u, d) == /\ d \in 0 .. 1 /\ Len(u) = Len(w) - d
                  /\ \A j \in 1 .. Len(u) : u[j] = w[j + d] /\ j + d \in 1 .. Len(w)

\* Taking the first request is a shift by one.
LEMMA HeadShift ==
    ASSUME NEW w \in Seq(Requests), w # <<>>
    PROVE  /\ Shift(w, RemoveAt(w, 1), 1) /\ RemoveAt(w, 1) \in Seq(Requests)
           /\ w[1] \in Requests /\ Len(w) \in Nat \ {0}
<1>1. /\ RemoveAt(w, 1) \in Seq(Requests) /\ Len(RemoveAt(w, 1)) = Len(w) - 1
      /\ Len(w) \in Nat \ {0} /\ w[1] \in Requests
      /\ \A i \in 1 .. Len(w) - 1 : RemoveAt(w, 1)[i] = w[i + 1] /\ i + 1 \in 2 .. Len(w)
  BY FirstRemoved
<1>2. \A i \in 1 .. Len(w) - 1 : i + 1 \in 1 .. Len(w)
  BY <1>1
<1> QED BY <1>1, <1>2 DEF Shift

\* The requests that remain keep their order and their end.
LEMMA ShiftIs ==
    ASSUME NEW w \in Seq(Requests), NEW u \in Seq(Requests), NEW d, Shift(w, u, d)
    PROVE  /\ d = 0 => u = w
           /\ d = 1 => w # <<>>
           /\ u # <<>> => w # <<>> /\ Last(u) = Last(w)
           /\ Len(w) \in Nat /\ Len(u) \in Nat /\ d \in Nat
<1>1. /\ Len(w) \in Nat /\ Len(u) \in Nat /\ d \in {0, 1} /\ Len(u) = Len(w) - d
      /\ \A j \in 1 .. Len(u) : u[j] = w[j + d] /\ j + d \in 1 .. Len(w)
  BY DEF Shift
<1>2. ASSUME d = 0 PROVE u = w
  <2>1. Len(u) = Len(w) /\ \A j \in 1 .. Len(u) : u[j] = w[j]
    BY <1>1, <1>2
  <2> QED BY <2>1, SeqEqual
<1>3. d = 1 => w # <<>>
  BY <1>1
<1>4. ASSUME u # <<>> PROVE w # <<>> /\ Last(u) = Last(w)
  <2>0. Last(u) = u[Len(u)] /\ Len(u) \in Nat \ {0}
    BY <1>4, Fronts
  <2>1. Last(u) = u[Len(u)] /\ Len(u) \in 1 .. Len(u)
    BY <2>0
  <2>2. w # <<>>
    BY <1>1, <1>4
  <2>3. Last(w) = w[Len(w)]
    BY <2>2, Fronts
  <2>4. Len(u) + d = Len(w)
    BY <1>1
  <2> QED BY <1>1, <2>1, <2>2, <2>3, <2>4
<1> QED BY <1>1, <1>2, <1>3, <1>4

\* The first request arrives: what it brought or spared is covered then.
LEMMA LandsHead ==
    ASSUME NEW w \in Seq(Requests), NEW u \in Seq(Requests), w # <<>>, Shift(w, u, 1),
           NEW s, NEW z, NEW c, NEW m, Lands(s, w, c, m),
           Covers(s, m) /\ Spares(w[1], c, m) => Covers(z, m),
           Brings(w[1], c, m) => Covers(z, m)
    PROVE  Lands(z, u, c, m)
<1>1. /\ Len(w) \in Nat \ {0} /\ Len(u) = Len(w) - 1
      /\ \A j \in 1 .. Len(u) : u[j] = w[j + 1] /\ j + 1 \in 1 .. Len(w)
  BY DEF Shift
<1>2. PICK i \in 0 .. Len(w) : /\ IF i = 0 THEN Covers(s, m) ELSE Brings(w[i], c, m)
                               /\ \A j \in i + 1 .. Len(w) : Spares(w[j], c, m)
  BY DEF Lands
<1>3. CASE i \in {0, 1}
  <2>1. Covers(z, m)
    <3>1. i = 0 => 1 \in i + 1 .. Len(w)
      BY <1>1
    <3> QED BY <1>2, <1>3, <3>1
  <2>2. \A j \in 1 .. Len(u) : j + 1 \in i + 1 .. Len(w)
    BY <1>1, <1>3
  <2>3. \A j \in 0 + 1 .. Len(u) : Spares(u[j], c, m)
    BY <1>1, <1>2, <2>2
  <2>4. 0 \in 0 .. Len(u)
    BY <1>1
  <2> QED BY <2>1, <2>3, <2>4 DEF Lands
<1>4. CASE i > 1
  <2>1. i - 1 \in 0 .. Len(u) /\ i - 1 # 0 /\ i - 1 \in 1 .. Len(u) /\ (i - 1) + 1 = i
    BY <1>1, <1>4
  <2>2. u[i - 1] = w[i]
    BY <1>1, <2>1
  <2>3. \A j \in (i - 1) + 1 .. Len(u) : j + 1 \in i + 1 .. Len(w) /\ j \in 1 .. Len(u)
    BY <1>1, <1>4
  <2>4. \A j \in (i - 1) + 1 .. Len(u) : Spares(u[j], c, m)
    BY <1>1, <1>2, <2>3
  <2> QED BY <1>2, <1>4, <2>1, <2>2, <2>4 DEF Lands
<1>5. i \in {0, 1} \/ i > 1
  BY <1>1
<1> QED BY <1>3, <1>4, <1>5

\* A request that spares a message may be sent after it,
LEMMA LandsMore ==
    ASSUME NEW w \in Seq(Requests), NEW q \in Requests, NEW s, NEW c, NEW m,
           Lands(s, w, c, m), Spares(q, c, m)
    PROVE  Lands(s, Append(w, q), c, m)
<1> DEFINE u == Append(w, q)
<1>1. /\ Len(w) \in Nat /\ Len(u) = Len(w) + 1 /\ u[Len(w) + 1] = q
      /\ \A i \in 1 .. Len(w) : u[i] = w[i]
  BY Appended1
<1> HIDE DEF u
<1>2. PICK i \in 0 .. Len(w) : /\ IF i = 0 THEN Covers(s, m) ELSE Brings(w[i], c, m)
                               /\ \A j \in i + 1 .. Len(w) : Spares(w[j], c, m)
  BY DEF Lands
<1>3. i \in 0 .. Len(u) /\ (i # 0 => u[i] = w[i])
  BY <1>1
<1>4. \A j \in i + 1 .. Len(u) : j = Len(w) + 1 \/ (j \in i + 1 .. Len(w) /\ j \in 1 .. Len(w))
  BY <1>1
<1>5. \A j \in i + 1 .. Len(u) : Spares(u[j], c, m)
  BY <1>1, <1>2, <1>4
<1> QED BY <1>2, <1>3, <1>5 DEF Lands, u

\* and one that brings it lets it land.
LEMMA LandsNew ==
    ASSUME NEW w \in Seq(Requests), NEW q \in Requests, NEW s, NEW c, NEW m, Brings(q, c, m)
    PROVE  Lands(s, Append(w, q), c, m)
<1> DEFINE u == Append(w, q)
<1>1. Len(w) \in Nat /\ Len(u) = Len(w) + 1 /\ u[Len(w) + 1] = q
  BY Appended1
<1> HIDE DEF u
<1>2. Len(u) \in 0 .. Len(u) /\ Len(u) # 0 /\ u[Len(u)] = q
  BY <1>1
<1>3. \A j \in Len(u) + 1 .. Len(u) : FALSE
  BY <1>1
<1> QED BY <1>2, <1>3 DEF Lands, u

\* No message needs the question on its way to land.
LEMMA LandsFront ==
    ASSUME NEW w \in Seq(Requests), w # <<>>, Last(w).op = "chat", NEW s, NEW c, NEW m,
           Lands(s, w, c, m)
    PROVE  Lands(s, Front(w), c, m)
<1> DEFINE u == Front(w)
<1>1. /\ Len(u) = Len(w) - 1 /\ Len(w) \in Nat \ {0} /\ w[Len(w)].op = "chat"
      /\ \A i \in 1 .. Len(w) - 1 : u[i] = w[i]
  BY Fronts
<1> HIDE DEF u
<1>2. PICK i \in 0 .. Len(w) : /\ IF i = 0 THEN Covers(s, m) ELSE Brings(w[i], c, m)
                               /\ \A j \in i + 1 .. Len(w) : Spares(w[j], c, m)
  BY DEF Lands
<1>3. i # Len(w)
  BY <1>1, <1>2 DEF Brings
<1>4. i \in 0 .. Len(u) /\ (i # 0 => u[i] = w[i])
  BY <1>1, <1>3
<1>5. \A j \in i + 1 .. Len(u) : j \in i + 1 .. Len(w) /\ j \in 1 .. Len(w) - 1
  BY <1>1
<1>6. \A j \in i + 1 .. Len(u) : Spares(u[j], c, m)
  BY <1>1, <1>2, <1>5
<1> QED BY <1>2, <1>4, <1>6 DEF Lands, u

\* With nothing but questions and stops on the way, what lands is there already.
LEMMA LandsNow ==
    ASSUME NEW w \in Seq(Requests), NEW s, NEW c, NEW m, Lands(s, w, c, m),
           \A i \in 1 .. Len(w) : w[i].op \in {"chat", "stop"}
    PROVE  Covers(s, m)
<1>1. PICK i \in 0 .. Len(w) : IF i = 0 THEN Covers(s, m) ELSE Brings(w[i], c, m)
  BY DEF Lands
<1>2. i # 0 => i \in 1 .. Len(w)
  OBVIOUS
<1> QED BY <1>1, <1>2 DEF Brings

\* What is covered and spared by all requests lands.
LEMMA LandsHere ==
    ASSUME NEW w \in Seq(Requests), NEW s, NEW c, NEW m, Covers(s, m),
           \A i \in 1 .. Len(w) : Spares(w[i], c, m)
    PROVE  Lands(s, w, c, m)
<1>1. 0 \in 0 .. Len(w) /\ \A j \in 0 + 1 .. Len(w) : j \in 1 .. Len(w)
  OBVIOUS
<1> QED BY <1>1 DEF Lands

\* A transcript that covers as much as before lets as much land.
LEMMA LandsInGrown ==
    ASSUME NEW s, NEW z, NEW w, NEW c, NEW m, Covers(s, m) => Covers(z, m), Lands(s, w, c, m)
    PROVE  Lands(z, w, c, m)
  BY DEF Lands

-----------------------------------------------------------------------------
(* A transcript that is well made has everything once *)

\* What a question and a reply are about.
LEMMA AboutIs ==
    ASSUME NEW n \in Nat
    PROVE  /\ About(Question(n)) = {n} /\ IsInjective(Question(n).text)
           /\ \A m \in Messages : ReplyTo(n, m.text) =>
                 About(m) \subseteq {n} /\ (m.text # <<>> => About(m) = {n})
<1>1. About(Question(n)) = {n}
  <2>1. Len(<< <<n, 0>> >>) = 1 /\ << <<n, 0>> >>[1] = <<n, 0>> /\ <<n, 0>>[1] = n
    OBVIOUS
  <2>2. Question(n).text = << <<n, 0>> >>
    BY MessageIs
  <2> DEFINE t == << <<n, 0>> >>
  <2>3. Len(t) = 1 /\ t[1][1] = n /\ Question(n).text = t
    BY <2>1, <2>2
  <2> HIDE DEF t
  <2>4. \A j \in 1 .. Len(t) : t[j][1] = n
    BY <2>3
  <2>5. 1 \in 1 .. Len(t)
    BY <2>3
  <2>6. {t[j][1] : j \in 1 .. Len(t)} = {n}
    BY <2>3, <2>4, <2>5
  <2> QED BY <2>3, <2>6 DEF About
<1>2. IsInjective(Question(n).text)
  <2>1. DOMAIN << <<n, 0>> >> = {1}
    OBVIOUS
  <2> QED BY <2>1, MessageIs DEF IsInjective
<1>3. ASSUME NEW m \in Messages, ReplyTo(n, m.text)
      PROVE  About(m) \subseteq {n} /\ (m.text # <<>> => About(m) = {n})
  <2> DEFINE t == m.text
  <2>1. t \in Seq(Nat \X Nat) /\ \A i \in 1 .. Len(t) : t[i][1] = n
    BY <1>3, TextIs DEF ReplyTo
  <2>2. About(m) = {t[j][1] : j \in 1 .. Len(t)}
    BY DEF About
  <2> HIDE DEF t
  <2>3. t # <<>> => 1 \in 1 .. Len(t)
    BY <2>1
  <2>4. About(m) \subseteq {n}
    BY <2>1, <2>2
  <2>5. t # <<>> => n \in About(m)
    BY <2>1, <2>2, <2>3
  <2> QED BY <2>4, <2>5 DEF t
<1> QED BY <1>1, <1>2, <1>3

\* EachOnce, of one transcript.
LEMMA WellMadeOnce ==
    ASSUME NEW own \in SUBSET Nat, NEW s \in Seq(Messages), WellMade(own, s),
           NEW i \in 1 .. Len(s)
    PROVE  /\ s[i].text # <<>> => Cardinality(About(s[i])) = 1
           /\ IsInjective(s[i].text)
           /\ s[i].role = "assistant" /\ s[i].text # <<>> =>
                 /\ i > 1 /\ s[i - 1].role = "user"
                 /\ About(s[i - 1]) = About(s[i])
           /\ \A j \in 1 .. Len(s) :
                 j # i /\ s[j].role = s[i].role => About(s[j]) \cap About(s[i]) = {}
<1> DEFINE Puts(k, n) == n \in own /\ s[k] = Question(n)
           Says(k, n) == /\ k > 1 /\ s[k].role = "assistant" /\ n \in own
                         /\ s[k - 1] = Question(n) /\ ReplyTo(n, s[k].text)
<1>1. \A k \in 1 .. Len(s) : \E n \in own : Puts(k, n) \/ Says(k, n)
  BY DEF WellMade
<1>2. \A k \in 1 .. Len(s) : s[k] \in Messages
  OBVIOUS
<1>3. \A k \in 1 .. Len(s) : \A n : Puts(k, n) =>
         n \in Nat /\ s[k].role = "user" /\ About(s[k]) = {n} /\ IsInjective(s[k].text)
  BY AboutIs, MessageIs
<1>4. ASSUME NEW k \in 1 .. Len(s), NEW n, Says(k, n)
      PROVE  /\ n \in Nat /\ k - 1 \in 1 .. Len(s) /\ Puts(k - 1, n) /\ k > 1
             /\ s[k].role = "assistant" /\ About(s[k]) \subseteq {n}
             /\ s[k].text # <<>> => About(s[k]) = {n}
             /\ IsInjective(s[k].text)
  <2>1. n \in Nat /\ s[k] \in Messages /\ ReplyTo(n, s[k].text)
    BY <1>2, <1>4
  <2>2. About(s[k]) \subseteq {n} /\ (s[k].text # <<>> => About(s[k]) = {n})
    BY <2>1, AboutIs
  <2>3. IsInjective(s[k].text)
    BY <2>1 DEF ReplyTo
  <2>4. k - 1 \in 1 .. Len(s) /\ Puts(k - 1, n) /\ k > 1 /\ s[k].role = "assistant"
    BY <1>4
  <2> QED BY <2>1, <2>2, <2>3, <2>4
<1>5. ASSUME NEW k \in 1 .. Len(s), NEW j \in 1 .. Len(s), NEW n, NEW m, k # j,
             Puts(k, n), Puts(j, m)
      PROVE  n # m
  <2>1. n \in Nat /\ m \in Nat
    BY <1>3, <1>5
  <2>2. CASE k < j
    <3>1. n < m
      BY <1>5, <2>2 DEF WellMade
    <3> QED BY <2>1, <3>1
  <2>3. CASE j < k
    <3>1. m < n
      BY <1>5, <2>3 DEF WellMade
    <3> QED BY <2>1, <3>1
  <2> QED BY <1>5, <2>2, <2>3
<1> HIDE DEF Puts, Says
<1>6. PICK n \in own : Puts(i, n) \/ Says(i, n)
  BY <1>1
<1>7. s[i].text # <<>> => Cardinality(About(s[i])) = 1
  <2>1. Cardinality({n}) = 1
    BY FS_Singleton
  <2> QED BY <1>3, <1>4, <1>6, <2>1
<1>8. s[i].role = "assistant" /\ s[i].text # <<>> =>
         i > 1 /\ s[i - 1].role = "user" /\ About(s[i - 1]) = About(s[i])
  <2>1. CASE Puts(i, n)
    BY <1>3, <2>1
  <2>2. CASE Says(i, n)
    <3>1. i > 1 /\ i - 1 \in 1 .. Len(s) /\ Puts(i - 1, n)
      BY <1>4, <2>2
    <3>2. s[i - 1].role = "user" /\ About(s[i - 1]) = {n}
      BY <1>3, <3>1
    <3> QED BY <1>4, <2>2, <3>1, <3>2
  <2> QED BY <1>6, <2>1, <2>2
<1>9. ASSUME NEW j \in 1 .. Len(s), j # i, s[j].role = s[i].role
      PROVE  About(s[j]) \cap About(s[i]) = {}
  <2>1. PICK m \in own : Puts(j, m) \/ Says(j, m)
    BY <1>1
  <2>2. CASE Puts(j, m) /\ Puts(i, n)
    <3>1. m # n
      BY <1>5, <1>9, <2>2
    <3>2. About(s[j]) = {m} /\ About(s[i]) = {n}
      BY <1>3, <2>2
    <3> QED BY <3>1, <3>2
  <2>3. CASE Says(j, m) /\ Says(i, n)
    <3>1. /\ j - 1 \in 1 .. Len(s) /\ i - 1 \in 1 .. Len(s)
          /\ Puts(j - 1, m) /\ Puts(i - 1, n)
      BY <1>4, <2>3
    <3>2. j - 1 # i - 1
      BY <1>9
    <3>3. m # n
      BY <1>5, <3>1, <3>2
    <3>4. About(s[j]) \subseteq {m} /\ About(s[i]) \subseteq {n}
      BY <1>4, <2>3
    <3> QED BY <3>3, <3>4
  <2>4. CASE Puts(j, m) /\ Says(i, n)
    <3>1. s[j].role = "user" /\ s[i].role = "assistant"
      BY <1>3, <1>4, <2>4
    <3> QED BY <1>9, <3>1
  <2>5. CASE Says(j, m) /\ Puts(i, n)
    <3>1. s[i].role = "user" /\ s[j].role = "assistant"
      BY <1>3, <1>4, <2>5
    <3> QED BY <1>9, <3>1
  <2> QED BY <1>6, <2>1, <2>2, <2>3, <2>4, <2>5
<1>10. IsInjective(s[i].text)
  BY <1>3, <1>4, <1>6
<1> QED BY <1>7, <1>8, <1>9, <1>10

-----------------------------------------------------------------------------
(* What the invariant says of requests and readers *)

\* The page, the server and the requests between them agree.
ChatGood == /\ ChatTyped /\ Runs /\ OneRun /\ Lists /\ Appends /\ Replaces /\ Chats
            /\ Handles /\ OnScreen /\ AtServer /\ Booting /\ Saved /\ Landing

\* The questions of a conversation have the numbers they were asked with.
LEMMA OfIs ==
    ASSUME ChatTyped
    PROVE  /\ \A c : Of(c) \in SUBSET Nat
           /\ Len(asked) \in Nat
           /\ \A c, n : n \in Of(c) => n \in Questions /\ n \in 1 .. Len(asked) /\ asked[n] = c
           /\ \A n \in 1 .. Len(asked) : n \in Of(asked[n]) /\ asked[n] \in Convs
                                         /\ asked[n] \in used /\ n \in Questions
  BY BoundAssumption DEF ChatTyped, Of, Questions

\* The requests under way, and what is in them.
LEMMA WireIs ==
    ASSUME ChatTyped
    PROVE  /\ wire \in Seq(Requests) /\ Len(wire) \in Nat
           /\ \A j \in 1 .. Len(wire) :
                 /\ wire[j] \in Requests /\ wire[j].conv \in used /\ wire[j].conv \in Convs
                 /\ wire[j].msgs \in Seq(Messages) /\ wire[j].run \in 0 .. MaxAsked
  <1>1. wire \in Seq(Requests) /\ Len(wire) \in Nat /\ used \subseteq Convs
        /\ \A i \in 1 .. Len(wire) : wire[i].conv \in used
    BY DEF ChatTyped
  <1>2. \A q \in Requests : q.msgs \in Seq(Messages) /\ q.run \in 0 .. MaxAsked
    BY DEF Requests
  <1> QED BY <1>1, <1>2

\* Unless a stop is next to arrive, no run goes on while requests are under way.
LEMMA NobodyGoes ==
    ASSUME OneRun, wire # <<>>, wire[1].op # "stop"
    PROVE  \A n \in Questions : answer[n].state # "going"
  BY DEF OneRun

\* No question is put twice.
LEMMA OneChat ==
    ASSUME ChatTyped, Appends, Chats,
           NEW i \in 1 .. Len(wire), NEW j \in 1 .. Len(wire),
           wire[i].op = "chat", wire[j].op = "chat", wire[i].run = wire[j].run
    PROVE  ~ (i < j)
<1> SUFFICES ASSUME i < j
             PROVE  FALSE
  OBVIOUS
<1> DEFINE n == wire[i].run
           c == wire[i].conv
<1>1. n \in Of(c) /\ n \in Of(wire[j].conv) /\ n \in Nat
  BY OfIs DEF Chats
<1>2. wire[j].conv = c
  BY <1>1, OfIs
<1>3. /\ j > 1 /\ j - 1 \in 1 .. Len(wire) /\ wire[j - 1].op = "append"
      /\ wire[j - 1].conv = c /\ wire[j - 1].msgs = <<Question(n)>>
  BY <1>2, WireIs DEF Chats
<1>4. PICK m \in Of(c) : Asks(j - 1, m) \/ Tells(j - 1, m)
  BY <1>3 DEF Appends
<1>5. Asks(j - 1, n)
  <2>1. \A k, q : <<k>> = <<q>> => k = q
    OBVIOUS
  <2>2. m \in Nat
    BY OfIs
  <2>3. CASE Tells(j - 1, m)
    BY <1>1, <1>3, <2>1, <2>3, MessageIs DEF Tells
  <2>4. CASE Asks(j - 1, m)
    <3>1. m = n
      BY <1>1, <1>3, <2>1, <2>2, <2>4, MessageIs DEF Asks
    <3> QED BY <2>4, <3>1
  <2> QED BY <1>4, <2>3, <2>4
<1>6. /\ Below(n, store[c])
      /\ \A k \in 1 .. (j - 1) - 1 : wire[k].conv = c => Below(n, wire[k].msgs)
  BY <1>3, <1>5 DEF Asks
<1>7. CASE i = 1
  <2>1. LastIs(store[c], Question(n))
    BY <1>7 DEF Chats
  <2>2. store[c] \in Seq(Messages)
    BY <1>1, WireIs DEF ChatTyped
  <2> DEFINE s == store[c]
  <2>3. s \in Seq(Messages) /\ s # <<>> /\ Last(s) = Question(n) /\ Below(n, s)
    BY <1>6, <2>1, <2>2 DEF LastIs
  <2> HIDE DEF s
  <2>4. Len(s) \in Nat \ {0} /\ s[Len(s)] = Question(n)
    BY <2>3, Fronts
  <2>5. Len(s) \in 1 .. Len(s)
    BY <2>4
  <2> QED BY <1>1, <2>3, <2>4, <2>5 DEF Below
<1>8. CASE i > 1
  <2>1. /\ i - 1 \in 1 .. (j - 1) - 1 /\ wire[i - 1].conv = c
        /\ wire[i - 1].msgs = <<Question(n)>>
    BY <1>8 DEF Chats
  <2>2. Len(<<Question(n)>>) = 1 /\ <<Question(n)>>[1] = Question(n)
    OBVIOUS
  <2>3. Below(n, <<Question(n)>>)
    BY <1>6, <2>1
  <2> QED BY <1>1, <2>2, <2>3 DEF Below
<1> QED BY <1>7, <1>8

\* A reader under way reads the answer to a question of the open conversation.
LEMMA ReaderIs ==
    ASSUME ChatGood, NEW r \in Readers, ~Off(r)
    PROVE  /\ reader[r].run \in Questions /\ reader[r].run \in Nat
           /\ reader[r].run \in Of(active) /\ asked[reader[r].run] = active
           /\ reader[r] \in Calls /\ reader[r].conv = active /\ active \in Convs
           /\ active \in used
           /\ answer[reader[r].run] \in Answers
           /\ answer[reader[r].run].events \in Seq(Nat)
           /\ answer[reader[r].run].state \in {"none", "going", "done"}
           /\ msgs[active] \in Seq(Messages) /\ msgs[active] # <<>>
           /\ Len(msgs[active]) \in Nat
           /\ Last(msgs[active]) \in Messages /\ Last(msgs[active]).text \in Texts
           /\ msgs[active][Len(msgs[active])] = Last(msgs[active])
           /\ \A q \in Readers : ~Off(q) => q = r
<1>1. reader[r].conv = active /\ reader[r].run \in Of(active) /\ Len(msgs[active]) > 1
  BY DEF ChatGood, OnScreen, Shown
<1>2. /\ reader[r].run \in Questions /\ asked[reader[r].run] = active /\ reader[r].run \in Nat
  BY <1>1, OfIs DEF ChatGood, Questions
<1>3. /\ reader[r] \in Calls /\ active \in Convs /\ active \in used
      /\ answer[reader[r].run] \in Answers /\ msgs[active] \in Seq(Messages)
  BY <1>2 DEF ChatGood, ChatTyped
<1>4. /\ answer[reader[r].run].events \in Seq(Nat)
      /\ answer[reader[r].run].state \in {"none", "going", "done"}
  BY <1>3 DEF Answers
<1>5. msgs[active] # <<>> /\ Len(msgs[active]) \in Nat
  BY <1>1, <1>3
<1>6. Last(msgs[active]) \in Messages /\ msgs[active][Len(msgs[active])] = Last(msgs[active])
  BY <1>3, <1>5, Fronts
<1>7. Last(msgs[active]).text \in Texts
  BY <1>6, TextIs
<1>8. \A q \in Readers : ~Off(q) => q = r
  BY DEF ChatGood, Handles
<1> QED BY <1>1, <1>2, <1>3, <1>4, <1>5, <1>6, <1>7, <1>8

\* The request of a reader that waits for its first answer is the last one.
LEMMA SentLast ==
    ASSUME ChatGood, NEW r \in Readers, reader[r].pc = "sent"
    PROVE  /\ wire # <<>> /\ Len(wire) \in Nat \ {0}
           /\ wire[Len(wire)].op = "chat" /\ wire[Len(wire)].run = reader[r].run
           /\ wire[Len(wire)].conv = active
           /\ \A i \in 1 .. Len(wire) :
                 wire[i].op = "chat" /\ wire[i].run = reader[r].run => i = Len(wire)
<1>0. answer[reader[r].run].state \in {"none", "going", "done"} /\ ~Off(r)
  BY ReaderIs DEF Off
<1>1. wire # <<>> /\ Last(wire).op = "chat" /\ Last(wire).run = reader[r].run
  BY <1>0 DEF ChatGood, AtServer, Off, Begun, Pending
<1>2. wire \in Seq(Requests)
  BY WireIs DEF ChatGood
<1>3. Len(wire) \in Nat \ {0} /\ Last(wire) = wire[Len(wire)] /\ Len(wire) \in 1 .. Len(wire)
  <2>1. Len(wire) \in Nat \ {0} /\ Last(wire) = wire[Len(wire)]
    BY <1>1, <1>2, Fronts
  <2> QED BY <2>1
<1>4. wire[Len(wire)].conv = active
  <2>1. reader[r].run \in Of(wire[Len(wire)].conv)
    BY <1>1, <1>3 DEF ChatGood, Chats
  <2>2. reader[r].run \in Of(active)
    BY DEF ChatGood, OnScreen, Shown, Off
  <2> QED BY <2>1, <2>2, OfIs DEF ChatGood
<1>5. ASSUME NEW i \in 1 .. Len(wire), wire[i].op = "chat", wire[i].run = reader[r].run
      PROVE  i = Len(wire)
  <2>1. ~ (i < Len(wire))
    BY <1>1, <1>3, <1>5, OneChat DEF ChatGood
  <2> QED BY <1>3, <2>1
<1> QED BY <1>1, <1>3, <1>4, <1>5

-----------------------------------------------------------------------------
(* The server *)

\* What a run says next comes after all it has said.
LEMMA TextGrows ==
    ASSUME NEW n \in Nat, NEW ev \in Seq(Nat), NEW x \in Nat, NEW t \in Texts,
           IsPrefix(t, AnswerText(n, ev))
    PROVE  IsPrefix(t, AnswerText(n, Append(ev, x)))
<1> DEFINE w == AnswerText(n, ev)
           e == Append(ev, x)
           z == AnswerText(n, e)
<1>1. /\ e \in Seq(Nat) /\ Len(e) = Len(ev) + 1 /\ Len(ev) \in Nat
      /\ \A i \in 1 .. Len(ev) : e[i] = ev[i] /\ i \in 1 .. Len(e)
  BY Appended1
<1>2. /\ w \in Texts /\ Len(w) = Len(ev)
      /\ \A i \in 1 .. Len(ev) : w[i] = <<n, IF i = 1 /\ ev[i] = Error THEN BareError ELSE ev[i]>>
  BY AnswerIs DEF AnswerText
<1> HIDE DEF e
<1>3. /\ z \in Texts /\ Len(z) = Len(e)
      /\ \A i \in 1 .. Len(e) : z[i] = <<n, IF i = 1 /\ e[i] = Error THEN BareError ELSE e[i]>>
  BY <1>1, AnswerIs DEF AnswerText
<1>4. Len(t) <= Len(w) /\ Len(t) \in Nat /\ \A i \in 1 .. Len(t) : t[i] = w[i]
  BY <1>2, PrefixIs DEF Texts
<1> HIDE DEF w, z
<1>5. Len(t) <= Len(z) /\ \A i \in 1 .. Len(t) : i \in 1 .. Len(ev)
  BY <1>1, <1>2, <1>3, <1>4
<1>6. \A i \in 1 .. Len(ev) : w[i] = z[i]
  BY <1>1, <1>2, <1>3
<1>7. \A i \in 1 .. Len(t) : t[i] = z[i]
  BY <1>4, <1>5, <1>6
<1> QED BY <1>3, <1>5, <1>7, PrefixIs DEF Texts, z, e

\* An open conversation that nothing is added to is as whole as before.
LEMMA StillWhole ==
    ASSUME NEW n, NEW a, NEW b, NEW s, Whole(n, a, s), a.state = "going", b.state = "going"
    PROVE  Whole(n, b, s)
  BY DEF Whole

\* The agent says one thing more: what was a part of the answer still is.
LEMMA AgentSaysKept ==
    ASSUME ChatGood, NEW n \in Questions, AgentSays(n)
    PROVE  ChatGood'
<1> DEFINE ev == answer[n].events
<1>1. /\ answer[n].state = "going" /\ Len(ev) < Deltas
      /\ answer' = [answer EXCEPT ![n].events = Append(ev, Len(ev) + 1)]
      /\ UNCHANGED <<store, filed, current, listed, used, active, msgs, busy, ac, reader, checks,
                     syncing, wire, asked, waived, missed>>
  BY DEF AgentSays, page, link, boot, past
<1>2. answer \in [Questions -> Answers] /\ ev \in Seq(Nat) /\ Len(ev) \in Nat
      /\ answer[n] \in Answers
  BY DEF ChatGood, ChatTyped, Answers
<1>3. /\ answer' \in [Questions -> Answers]
      /\ answer'[n].state = "going" /\ answer'[n].events = Append(ev, Len(ev) + 1)
      /\ \A k \in Questions : k # n => answer'[k] = answer[k]
      /\ \A k \in Questions : answer'[k].state = answer[k].state
  <2>1. Append(ev, Len(ev) + 1) \in Seq(Nat)
    BY <1>2
  <2> QED BY <1>1, <1>2, <2>1 DEF Answers
<1>4. /\ current[asked[n]] = n /\ LastIs(store[asked[n]], Question(n)) /\ n \in Nat
      /\ n \in 1 .. Len(asked)
  <2>1. current[asked[n]] = n /\ LastIs(store[asked[n]], Question(n))
    BY <1>1 DEF ChatGood, OneRun
  <2> QED BY <1>1, <2>1 DEF ChatGood, Runs, Questions
<1>5. \A k \in Questions, t \in Texts :
         IsPrefix(t, AnswerText(k, answer[k].events)) =>
            IsPrefix(t, AnswerText(k, answer'[k].events))
  <2>1. \A t \in Texts : IsPrefix(t, AnswerText(n, ev)) =>
                          IsPrefix(t, AnswerText(n, Append(ev, Len(ev) + 1)))
    <3> DEFINE x == Len(ev) + 1
    <3>1. x \in Nat
      BY <1>2
    <3> HIDE DEF x, ev
    <3>2. \A t \in Texts : IsPrefix(t, AnswerText(n, ev)) =>
                            IsPrefix(t, AnswerText(n, Append(ev, x)))
      BY <1>2, <1>4, <3>1, TextGrows
    <3> QED BY <3>2 DEF x
  <2> QED BY <1>3, <2>1
<1>6. \A k \in Questions : \A s : Whole(k, answer[k], s) => Whole(k, answer'[k], s)
  BY <1>1, <1>3, StillWhole
<1>7. ChatTyped'
  BY <1>1, <1>3 DEF ChatGood, ChatTyped
<1>8. Runs'
  <2>1. Uttered(answer'[n])
    <3>1. \A i \in 1 .. Len(ev) : ev[i] = i /\ i <= Deltas
      BY <1>1 DEF ChatGood, Runs, Uttered
    <3> DEFINE e == Append(ev, Len(ev) + 1)
    <3>2. \A i \in 1 .. Len(e) : e[i] = i /\ i <= Deltas
      <4>1. /\ Len(e) = Len(ev) + 1 /\ e[Len(ev) + 1] = Len(ev) + 1
            /\ \A i \in 1 .. Len(ev) : e[i] = ev[i]
        BY <1>2
      <4>2. Len(ev) + 1 <= Deltas
        BY <1>1, <1>2, BoundAssumption
      <4> HIDE DEF e
      <4>3. \A i \in 1 .. Len(e) : i \in 1 .. Len(ev) \/ i = Len(ev) + 1
        BY <1>2, <4>1
      <4> QED BY <3>1, <4>1, <4>2, <4>3
    <3> HIDE DEF e
    <3>3. answer'[n].events = e
      BY <1>3 DEF e
    <3> QED BY <1>3, <3>2, <3>3 DEF Uttered
  <2>2. \A k \in Questions : Uttered(answer'[k])
    BY <1>3, <2>1 DEF ChatGood, Runs
  <2> QED BY <1>1, <1>3, <2>2 DEF ChatGood, Runs, Of, NoQuestion
<1>9. OneRun'
  BY <1>1, <1>3 DEF ChatGood, OneRun
<1>10. Lists'
  BY <1>1 DEF ChatGood, Lists, Of
<1>11. Appends'
  <2> SUFFICES ASSUME NEW j \in 1 .. Len(wire), wire[j].op = "append"
               PROVE  \E k \in Of(wire[j].conv) : Asks(j, k)' \/ Tells(j, k)'
    BY <1>1 DEF Appends, Of
  <2>1. PICK k \in Of(wire[j].conv) : Asks(j, k) \/ Tells(j, k)
    BY DEF ChatGood, Appends
  <2>2. CASE Asks(j, k)
    BY <1>1, <2>2 DEF Asks
  <2>3. CASE Tells(j, k)
    <3>1. PICK t \in Texts : /\ wire[j].msgs = <<Reply(t)>> /\ t # <<>> /\ ReplyTo(k, t)
                             /\ Takes(k, answer[k], store[wire[j].conv], t)
      BY <2>3 DEF Tells
    <3>2. k \in Questions /\ asked[k] = wire[j].conv
      BY OfIs DEF ChatGood
    <3>3. Takes(k, answer'[k], store[wire[j].conv], t)
      <4>1. CASE k # n
        BY <1>3, <3>1, <3>2, <4>1
      <4>2. CASE k = n
        BY <1>1, <1>4, <1>5, <3>1, <3>2, <4>2 DEF Takes
      <4> QED BY <4>1, <4>2
    <3> QED BY <1>1, <2>3, <3>1, <3>3 DEF Tells
  <2> QED BY <2>1, <2>2, <2>3
<1>12. Replaces'
  BY <1>1, <1>6, OfIs DEF ChatGood, Replaces, Of
<1>13. Chats'
  BY <1>1, <1>3, OfIs DEF ChatGood, Chats, Of
<1>14. Handles'
  BY <1>1 DEF ChatGood, Handles, Off, Free
<1>15. OnScreen'
  <2> SUFFICES ASSUME NEW r \in Readers, ~Off(r)
               PROVE  Shown(r)'
    BY <1>1 DEF OnScreen, Off
  <2>1. Shown(r) /\ reader[r].run \in Questions /\ Last(msgs[active]).text \in Texts
    BY ReaderIs DEF ChatGood, OnScreen
  <2>2. \A k \in Of(active) : k \in Questions
    BY OfIs DEF ChatGood
  <2>3. Of(active)' = Of(active)
    BY <1>1 DEF Of
  <2> QED BY <1>1, <1>3, <1>5, <1>6, <2>1, <2>2, <2>3 DEF Shown
<1>16. AtServer'
  <2> SUFFICES ASSUME NEW r \in Readers, ~Off(r)
               PROVE  Begun(r)' /\ Pending(r)'
    BY <1>1 DEF AtServer, Off
  <2>1. Begun(r) /\ Pending(r) /\ reader[r].run \in Questions
    BY ReaderIs DEF ChatGood, AtServer
  <2>2. Pending(r)'
    BY <1>1, <1>3, <2>1 DEF Pending
  <2>3. Append(ev, Len(ev) + 1)[1] = IF ev = <<>> THEN 1 ELSE ev[1]
    BY <1>2
  <2>4. Begun(r)'
    BY <1>1, <1>3, <2>1, <2>3 DEF Begun, Error
  <2> QED BY <2>2, <2>4
<1>17. Booting'
  BY <1>1, <1>3 DEF ChatGood, Booting, Off, Free
<1>18. Saved'
  BY <1>1, <1>6, OfIs DEF ChatGood, Saved
<1>19. Landing'
  BY <1>1 DEF ChatGood, Landing, Off, Free
<1> QED BY <1>7, <1>8, <1>9, <1>10, <1>11, <1>12, <1>13, <1>14, <1>15, <1>16, <1>17, <1>18,
           <1>19 DEF ChatGood

\* A run ends, by itself or by the "stop" that is the next request, and its answer
\* is stored: Takes lets the copy that the page sends later be recognised.
LEMMA RunEndsKept ==
    ASSUME ChatGood, NEW n \in Questions, answer[n].state = "going",
           NEW ev \in {answer[n].events, Append(answer[n].events, Error)}, EndRun(n, ev),
           answer[n].events = <<>> /\ ev # <<>> => wire # <<>>,
           NEW d \in {0, 1}, Shift(wire, wire', d), wire' \in Seq(Requests),
           UNCHANGED <<page, link, boot, past>>
    PROVE  ChatGood'
<1> DEFINE said == answer[n].events
           c == asked[n]
           text == AnswerText(n, ev)
           s == store[c]
           z == IF ev = <<>> THEN s ELSE Append(s, Reply(text))
<1>1. /\ answer' = [answer EXCEPT ![n] = [state |-> "done", events |-> ev]]
      /\ UNCHANGED <<current, listed, used, active, msgs, busy, ac, reader, checks,
                     syncing, asked, waived, missed>>
  BY DEF EndRun, page, link, boot, past
<1>2. answer \in [Questions -> Answers] /\ said \in Seq(Nat) /\ Len(said) \in Nat
      /\ answer[n] \in Answers
  BY DEF ChatGood, ChatTyped, Answers
<1>3. /\ ev \in Seq(Nat) /\ (said # <<>> => ev # <<>> /\ ev[1] = said[1])
      /\ \A i \in 1 .. Len(ev) : \/ i \in 1 .. Len(said) /\ ev[i] = said[i]
                                 \/ i = Len(ev) /\ ev[i] = Error
  <2>1. CASE ev = said
    BY <1>2, <2>1
  <2>2. CASE ev = Append(said, Error)
    <3>0. Error \in Nat
      BY DEF Error
    <3> DEFINE x == Error
    <3> HIDE DEF said, x
    <3>1. /\ ev \in Seq(Nat) /\ Len(ev) = Len(said) + 1 /\ ev[Len(said) + 1] = x /\ ev # <<>>
          /\ \A i \in 1 .. Len(said) : ev[i] = said[i]
      BY <1>2, <2>2, <3>0, Appended1 DEF x
    <3>2. \A i \in 1 .. Len(ev) : i \in 1 .. Len(said) \/ i = Len(ev)
      BY <1>2, <3>1
    <3>3. said # <<>> => 1 \in 1 .. Len(said)
      BY <1>2
    <3> QED BY <3>1, <3>2, <3>3 DEF x
  <2> QED BY <2>1, <2>2
<1>4. /\ answer' \in [Questions -> Answers]
      /\ answer'[n].state = "done" /\ answer'[n].events = ev
      /\ answer'[n] = [state |-> "done", events |-> ev]
      /\ \A k \in Questions : k # n => answer'[k] = answer[k]
      /\ \A k \in Questions : answer'[k].state = "none" <=> answer[k].state = "none"
  <2>1. [state |-> "done", events |-> ev] \in Answers
    BY <1>3 DEF Answers
  <2> QED BY <1>1, <1>2, <2>1
<1>5. /\ current[c] = n /\ LastIs(s, Question(n)) /\ n \in Nat /\ n \in Of(c)
      /\ n \in 1 .. Len(asked) /\ c \in Convs /\ c \in used
      /\ s \in Seq(Messages)
      /\ \A k \in Questions : answer[k].state = "going" => k = n
      /\ wire # <<>> => wire[1].op = "stop" /\ wire[1].conv = c /\ n \in waived
  <2>1. /\ current[c] = n /\ LastIs(s, Question(n))
        /\ \A k \in Questions : answer[k].state = "going" => k = n
        /\ wire # <<>> => wire[1].op = "stop" /\ wire[1].conv = c /\ n \in waived
    BY DEF ChatGood, OneRun
  <2>2. n \in Nat /\ n \in 1 .. Len(asked)
    BY DEF ChatGood, Runs, Questions
  <2>3. c \in Convs /\ c \in used /\ n \in Of(c)
    BY <2>2, OfIs DEF ChatGood
  <2>4. s \in Seq(Messages)
    BY <2>3 DEF ChatGood, ChatTyped
  <2> QED BY <2>1, <2>2, <2>3, <2>4
<1>6. Uttered(answer'[n])
  <2>1. \A i \in 1 .. Len(said) : said[i] = i /\ i <= Deltas
    BY DEF ChatGood, Runs, Uttered
  <2> HIDE DEF said
  <2>2. \A i \in 1 .. Len(ev) : \/ ev[i] = i /\ i <= Deltas
                                \/ ev[i] = Error /\ i = Len(ev)
    BY <1>3, <2>1
  <2> QED BY <1>4, <2>2 DEF Uttered
<1>7. text \in Texts /\ ReplyTo(n, text) /\ Reply(text) \in Messages
  <2>1. text \in Texts
    BY <1>3, <1>5, AnswerIs
  <2>2. IsPrefix(text, text)
    BY <2>1, PrefixIs DEF Texts
  <2>3. answer'[n] \in Answers /\ text = AnswerText(n, answer'[n].events)
    BY <1>4
  <2>4. ReplyTo(n, text)
    BY <1>5, <1>6, <2>1, <2>2, <2>3, AnswerReplies
  <2> QED BY <2>1, <2>4, MessageIs
<1>8. /\ store' = [store EXCEPT ![c] = z] /\ (filed' = filed \/ filed' = filed \cup {c})
      /\ ev # <<>> => c \in filed'
  <2>1. CASE ev = <<>>
    BY <1>1, <1>5, <2>1 DEF EndRun, ChatGood, ChatTyped
  <2>2. CASE ev # <<>>
    <3>1. Deduped(s, Reply(text)) = Append(s, Reply(text))
      BY <1>5, <1>7, FirstReplyKept
    <3>2. store' = [store EXCEPT ![c] = Deduped(s, Reply(text))] /\ filed' = filed \cup {c}
      BY <2>2 DEF EndRun, Stored
    <3> QED BY <2>2, <3>1, <3>2
  <2> QED BY <2>1, <2>2
<1>9. /\ Len(wire) \in Nat /\ Len(wire') \in Nat /\ Len(wire') = Len(wire) - d
      /\ \A j \in 1 .. Len(wire') : wire'[j] = wire[j + d] /\ j + d \in 1 .. Len(wire)
      /\ d = 0 => wire' = wire
      /\ d = 1 => wire # <<>>
      /\ wire' # <<>> => wire # <<>> /\ Last(wire') = Last(wire)
  BY WireIs, ShiftIs DEF ChatGood, Shift
<1>10. /\ z \in Seq(Messages) /\ z # <<>> /\ WellMade(Of(c), z)
       /\ \A e : Covers(s, e) => Covers(z, e)
       /\ \A k, a : Whole(k, a, s) => Whole(k, a, z)
       /\ \A k : Below(k, s) => Below(k, z)
       /\ Whole(n, answer'[n], z)
       /\ IF ev = <<>> THEN LastIs(z, Question(n)) ELSE Answered(n, answer'[n], z)
  <2>1. /\ WellMade(Of(c), s) /\ Of(c) \in SUBSET Nat /\ Contains(s, Question(n))
        /\ s # <<>> /\ Len(s) \in Nat \ {0} /\ s[Len(s)] = Question(n)
    <3> HIDE DEF s
    <3>1. s # <<>> /\ Last(s) = Question(n)
      BY <1>5 DEF LastIs
    <3>2. Len(s) \in Nat \ {0} /\ s[Len(s)] = Question(n)
      BY <1>5, <3>1, Fronts
    <3>3. Contains(s, Question(n))
      BY <3>2 DEF Contains
    <3>4. WellMade(Of(c), s) /\ Of(c) \in SUBSET Nat
      BY <1>5, OfIs DEF ChatGood, Lists, s
    <3> QED BY <3>1, <3>2, <3>3, <3>4
  <2>2. CASE ev = <<>>
    BY <1>4, <1>5, <2>1, <2>2 DEF Whole
  <2>3. CASE ev # <<>>
    <3> DEFINE m == Reply(text)
    <3>1. WellMade(Of(c), Append(s, m))
      BY <1>5, <1>7, <2>1, ReplyAdded
    <3>2. m \in Messages /\ \A k \in Nat : m # Question(k)
      BY <1>7, MessageIs
    <3> HIDE DEF m, s, text
    <3>3. /\ \A e : Covers(s, e) => Covers(Append(s, m), e)
          /\ \A k, a : Whole(k, a, s) => Whole(k, a, Append(s, m))
          /\ \A k : Below(k, s) => Below(k, Append(s, m))
          /\ Contains(Append(s, m), m) /\ Contains(Append(s, m), Question(n))
      BY <1>5, <2>1, <3>2, OneMore
    <3>4. /\ Append(s, m) \in Seq(Messages) /\ Append(s, m) # <<>>
          /\ Len(Append(s, m)) = Len(s) + 1 /\ Last(Append(s, m)) = m
          /\ Append(s, m)[Len(s)] = Question(n)
      BY <1>5, <2>1, <3>2, Appended1
    <3>5. Len(Append(s, m)) > 1 /\ Len(Append(s, m)) - 1 = Len(s)
      BY <2>1, <3>4
    <3>6. Answered(n, answer'[n], Append(s, m))
      BY <1>4, <2>3, <3>4, <3>5 DEF Answered, m, text
    <3>7. Whole(n, answer'[n], Append(s, m))
      BY <1>4, <2>3, <3>3 DEF Whole, m, text
    <3> QED BY <2>3, <3>1, <3>3, <3>4, <3>6, <3>7 DEF m
  <2> QED BY <2>2, <2>3
<1> HIDE DEF z, text
<1>11. /\ store' \in [Convs -> Seq(Messages)] /\ store'[c] = z
       /\ \A b \in Convs : b # c => store'[b] = store[b]
       /\ \A b \in Convs : \A e : Covers(store[b], e) => Covers(store'[b], e)
       /\ \A b \in Convs : \A k, a : Whole(k, a, store[b]) => Whole(k, a, store'[b])
       /\ \A b \in Convs : \A k : Below(k, store[b]) => Below(k, store'[b])
  <2>1. store \in [Convs -> Seq(Messages)]
    BY DEF ChatGood, ChatTyped
  <2>2. /\ store' \in [Convs -> Seq(Messages)] /\ store'[c] = z
        /\ \A b \in Convs : b # c => store'[b] = store[b]
    BY <1>5, <1>8, <1>10, <2>1
  <2> QED BY <1>10, <2>2
<1>12. ChatTyped'
  <2>1. filed' \subseteq used /\ IsFiniteSet(filed')
    <3>1. filed \subseteq used /\ IsFiniteSet(filed)
      BY DEF ChatGood, ChatTyped
    <3>2. IsFiniteSet(filed \cup {c})
      BY <3>1, FS_AddElement
    <3> QED BY <1>5, <1>8, <3>1, <3>2
  <2>2. \A j \in 1 .. Len(wire') : wire'[j].conv \in used
    BY <1>9, WireIs DEF ChatGood
  <2> QED BY <1>1, <1>4, <1>11, <2>1, <2>2 DEF ChatGood, ChatTyped
<1>13. Runs'
  <2>1. \A k \in Questions : Uttered(answer'[k])
    BY <1>4, <1>6 DEF ChatGood, Runs
  <2>2. \A k \in Questions : answer'[k].state # "none" => k <= Len(asked)
    BY <1>4 DEF ChatGood, Runs
  <2>3. \A b \in Convs : store'[b] # <<>> => b \in filed'
    <3>1. \A b \in Convs : store[b] # <<>> => b \in filed
      BY DEF ChatGood, Runs
    <3>2. s # <<>>
      BY <1>5 DEF LastIs
    <3> QED BY <1>5, <1>8, <1>11, <3>1, <3>2
  <2> QED BY <1>1, <2>1, <2>2, <2>3 DEF ChatGood, Runs, Of
<1>14. \A k \in Questions : answer'[k].state # "going"
  BY <1>4, <1>5
<1>15. OneRun'
  BY <1>14 DEF OneRun
<1>16. Lists'
  <2>1. \A b \in Convs : WellMade(Of(b), store'[b]) /\ WellMade(Of(b), msgs[b])
    BY <1>5, <1>10, <1>11 DEF ChatGood, Lists
  <2> QED BY <1>1, <2>1 DEF Lists, Of
<1>17. Appends'
  <2> SUFFICES ASSUME NEW j \in 1 .. Len(wire'), wire'[j].op = "append"
               PROVE  \E k \in Of(wire'[j].conv) : Asks(j, k)' \/ Tells(j, k)'
    BY <1>1 DEF Appends, Of
  <2>1. /\ j + d \in 1 .. Len(wire) /\ wire'[j] = wire[j + d] /\ wire # <<>>
        /\ j \in Nat /\ j >= 1
    BY <1>9
  <2>2. PICK k \in Of(wire[j + d].conv) : Asks(j + d, k) \/ Tells(j + d, k)
    BY <2>1 DEF ChatGood, Appends
  <2>3. wire[j + d].conv \in Convs /\ k \in Questions /\ asked[k] = wire[j + d].conv /\ k \in Nat
    BY <2>1, <2>2, OfIs, WireIs DEF ChatGood
  <2>4. CASE Asks(j + d, k)
    <3>1. \A i \in 1 .. j - 1 : i \in 1 .. Len(wire') /\ i + d \in 1 .. (j + d) - 1
      BY <1>9, <2>1
    <3>2. Asks(j, k)'
      BY <1>9, <1>11, <2>1, <2>3, <2>4, <3>1 DEF Asks
    <3> QED BY <2>1, <2>2, <3>2
  <2>5. CASE Tells(j + d, k)
    <3>1. PICK t \in Texts : /\ wire[j + d].msgs = <<Reply(t)>> /\ t # <<>> /\ ReplyTo(k, t)
                             /\ Takes(k, answer[k], store[wire[j + d].conv], t)
      BY <2>5 DEF Tells
    <3>2. j + d = 2 /\ wire[1].op = "stop" /\ wire[1].conv = wire[j + d].conv
      <4>1. wire[1].op = "stop"
        BY <1>5, <2>1
      <4>2. j + d # 1
        BY <2>1, <4>1
      <4> QED BY <2>5, <4>1, <4>2 DEF Tells
    <3>3. wire[j + d].conv = c
      BY <1>5, <2>1, <3>2
    <3>4. k = n /\ IsPrefix(t, AnswerText(n, said))
      <4>1. LastIs(s, Question(k)) => k = n
        BY <1>5, <2>3, MessageIs DEF LastIs
      <4>2. ~Answered(k, answer[k], s)
        <5>1. AnswerText(k, answer[k].events) \in Texts
          <6>1. answer[k] \in Answers
            BY <1>2, <2>3
          <6>2. answer[k].events \in Seq(Nat)
            BY <6>1 DEF Answers
          <6> QED BY <2>3, <6>2, AnswerIs
        <5> QED BY <1>5, <5>1, MessageIs DEF LastIs, Answered
      <4> QED BY <3>1, <3>3, <4>1, <4>2 DEF Takes
    <3>5. said # <<>> /\ ev # <<>>
      <4>1. said # <<>>
        <5>1. AnswerText(n, said) = <<>> <=> said = <<>>
          BY <1>2, <1>5, AnswerIs
        <5>2. Len(t) # 0 /\ Len(t) \in Nat
          BY <3>1 DEF Texts
        <5>3. AnswerText(n, said) \in Texts
          BY <1>2, <1>5, AnswerIs
        <5>4. Len(t) <= Len(AnswerText(n, said))
          BY <3>4, <5>3, PrefixIs DEF Texts
        <5> QED BY <5>1, <5>2, <5>4
      <4> QED BY <1>3, <4>1
    <3>6. IsPrefix(t, AnswerText(n, ev))
      <4>1. CASE ev = said
        BY <3>4, <4>1
      <4>2. CASE ev = Append(said, Error)
        BY <1>2, <1>5, <3>4, <4>2, TextGrows DEF Error
      <4> QED BY <4>1, <4>2
    <3>7. Takes(n, answer'[n], store'[c], t)
      BY <1>4, <1>10, <1>11, <3>5, <3>6 DEF Takes
    <3>8. j = 1 \/ (j = 2 /\ wire'[1].op = "stop" /\ wire'[1].conv = wire'[j].conv)
      BY <1>9, <2>1, <3>2
    <3>9. Tells(j, k)'
      BY <2>1, <3>1, <3>3, <3>4, <3>7, <3>8 DEF Tells
    <3> QED BY <2>1, <2>2, <3>9
  <2> QED BY <2>2, <2>4, <2>5
<1>18. Replaces'
  <2> SUFFICES ASSUME NEW j \in 1 .. Len(wire')
      PROVE  /\ wire'[j].op = "replace" =>
                  /\ WellMade(Of(wire'[j].conv), wire'[j].msgs)
                  /\ \A k \in Of(wire'[j].conv) \ waived : Whole(k, answer'[k], wire'[j].msgs)
             /\ wire'[j].op = "delete" => /\ Of(wire'[j].conv) \subseteq waived
                                         /\ wire'[j].conv \notin listed
             /\ wire'[j].op \in {"chat", "stop", "delete"} => wire'[j].msgs = <<>>
    BY <1>1 DEF Replaces, Of
  <2>1. j + d \in 1 .. Len(wire) /\ wire'[j] = wire[j + d] /\ wire # <<>>
    BY <1>9
  <2>2. n \in waived
    BY <1>5, <2>1
  <2>3. \A k \in Of(wire'[j].conv) \ waived : k \in Questions /\ answer'[k] = answer[k]
    BY <1>4, <2>2, OfIs DEF ChatGood
  <2> QED BY <2>1, <2>3 DEF ChatGood, Replaces
<1>19. Chats'
  <2> SUFFICES ASSUME NEW j \in 1 .. Len(wire'), wire'[j].op = "chat"
      PROVE  LET m == wire'[j].run IN
             /\ m \in Of(wire'[j].conv) /\ answer'[m].state = "none"
             /\ j < Len(wire') => /\ wire'[j + 1].op = "stop"
                                  /\ wire'[j + 1].conv = wire'[j].conv
                                  /\ m \in waived
             /\ j = Len(wire') => \E r \in Readers : reader[r].pc = "sent" /\ reader[r].run = m
             /\ j # 1
             /\ j > 1 => /\ wire'[j - 1].op = "append" /\ wire'[j - 1].conv = wire'[j].conv
                         /\ wire'[j - 1].msgs = <<Question(m)>>
    BY <1>1 DEF Chats, Of
  <2>1. /\ j + d \in 1 .. Len(wire) /\ wire'[j] = wire[j + d] /\ wire # <<>>
        /\ j + d # 1 /\ wire[1].op = "stop"
    BY <1>5, <1>9
  <2>2. wire[(j + d) - 1].op = "append"
    BY <2>1 DEF ChatGood, Chats
  <2>3. j # 1
    <3>1. ASSUME j = 1 PROVE (j + d) - 1 = 1
      BY <2>1, <3>1
    <3> QED BY <2>1, <2>2, <3>1
  <2>4. /\ j - 1 \in 1 .. Len(wire') /\ (j - 1) + d = (j + d) - 1
        /\ j < Len(wire') => /\ j + 1 \in 1 .. Len(wire') /\ (j + 1) + d = (j + d) + 1
                             /\ j + d < Len(wire)
        /\ j = Len(wire') => j + d = Len(wire)
    BY <1>9, <2>3
  <2>5. wire'[j - 1] = wire[(j + d) - 1] /\ (j < Len(wire') => wire'[j + 1] = wire[(j + d) + 1])
    BY <1>9, <2>4
  <2>6. wire[j + d].run \in Of(wire[j + d].conv) /\ wire[j + d].run \in Questions
    BY <2>1, OfIs DEF ChatGood, Chats
  <2> QED BY <1>4, <2>1, <2>3, <2>4, <2>5, <2>6 DEF ChatGood, Chats
<1>20. Handles'
  BY <1>1 DEF ChatGood, Handles, Off, Free
<1>21. \A k \in Questions, t \in Texts :
          IsPrefix(t, AnswerText(k, answer[k].events)) =>
            IsPrefix(t, AnswerText(k, answer'[k].events))
  <2> SUFFICES \A t \in Texts : IsPrefix(t, AnswerText(n, said)) => IsPrefix(t, AnswerText(n, ev))
    BY <1>4
  <2>1. CASE ev = said
    BY <2>1
  <2>2. CASE ev = Append(said, Error)
    BY <1>2, <1>5, <2>2, TextGrows DEF Error
  <2> QED BY <2>1, <2>2
<1>22. OnScreen'
  <2> SUFFICES ASSUME NEW r \in Readers, ~Off(r)
               PROVE  Shown(r)'
    BY <1>1 DEF OnScreen, Off
  <2>1. /\ Shown(r) /\ Begun(r) /\ reader[r].run \in Questions
        /\ Last(msgs[active]).text \in Texts
    BY ReaderIs DEF ChatGood, OnScreen, AtServer
  <2>2. Of(active)' = Of(active) /\ \A k \in Of(active) : k \in Questions
    BY <1>1, OfIs DEF Of, ChatGood
  <2>3. answer[reader[r].run].state # "none" => n = reader[r].run
    BY <2>1 DEF Begun
  <2> QED BY <1>1, <1>4, <1>21, <2>1, <2>2, <2>3 DEF Shown
<1>23. wire # <<>> /\ Last(wire).op # "stop" => wire' # <<>>
  <2> SUFFICES ASSUME wire # <<>>, wire' = <<>>
               PROVE  Last(wire).op = "stop"
    OBVIOUS
  <2>1. Len(wire) = 1
    BY <1>9
  <2> QED BY <1>5, <2>1 DEF Last
<1>24. AtServer'
  <2> SUFFICES ASSUME NEW r \in Readers, ~Off(r)
               PROVE  Begun(r)' /\ Pending(r)'
    BY <1>1 DEF AtServer, Off
  <2> DEFINE m == reader[r].run
  <2>1. Begun(r) /\ Pending(r) /\ m \in Questions /\ asked[m] = active
    BY ReaderIs DEF ChatGood, AtServer
  <2>2. Pending(r)'
    <3> SUFFICES ASSUME answer'[m].state = "none"
                 PROVE  Pending(r)'
      BY <1>1 DEF Pending
    <3>1. answer[m].state = "none" /\ wire # <<>>
      BY <1>4, <2>1 DEF Pending
    <3>2. reader[r].pc = "sent" \/ (reader[r].pc # "sent" /\ ~reader[r].aborted) => wire' # <<>>
      BY <1>23, <2>1, <3>1 DEF Pending
    <3> QED BY <1>1, <1>9, <1>14, <2>1, <3>1, <3>2 DEF Pending
  <2>3. Begun(r)'
    <3> SUFFICES ASSUME answer'[m].state # "none"
                 PROVE  Begun(r)'
      BY <1>1 DEF Begun
    <3>1. answer[m].state # "none" /\ m = n /\ active = c
      BY <1>4, <2>1 DEF Begun
    <3>2. \/ wire' = <<>>
          \/ reader[r].aborted /\ Len(wire') = 1 /\ wire'[1].op = "stop" /\ wire'[1].conv = active
      <4>1. wire = <<>> => wire' = <<>>
        BY <1>9
      <4>2. Len(wire) = 1 /\ d = 1 => wire' = <<>>
        BY <1>9
      <4> QED BY <1>9, <2>1, <3>1, <4>1, <4>2 DEF Begun
    <3>3. ~reader[r].aborted /\ ev # <<>> => ev[1] # Error
      BY <1>3, <2>1, <3>1 DEF Begun
    <3> QED BY <1>1, <1>4, <1>10, <1>11, <1>14, <2>1, <3>1, <3>2, <3>3 DEF Begun
  <2> QED BY <2>2, <2>3
<1>25. Booting'
  <2>1. wire = <<>> => wire' = <<>>
    BY <1>9
  <2> QED BY <1>1, <1>14, <2>1 DEF ChatGood, Booting, Off, Free
<1>26. Saved'
  <2> SUFFICES ASSUME NEW k \in 1 .. Len(asked), k \notin waived
               PROVE  Whole(k, answer'[k], store'[asked[k]])
    BY <1>1 DEF Saved
  <2>1. k \in Questions /\ asked[k] \in Convs
    BY OfIs DEF ChatGood
  <2>2. Whole(k, answer[k], store[asked[k]])
    BY DEF ChatGood, Saved
  <2> QED BY <1>4, <1>10, <1>11, <2>1, <2>2
<1>27. Landing'
  <2>1. ASSUME NEW b \in Convs, NEW m, Lands(store[b], wire, b, m)
        PROVE  Lands(store'[b], wire', b, m)
    <3>1. CASE d = 0
      BY <1>9, <1>11, <2>1, <3>1, LandsInGrown
    <3>2. CASE d = 1
      <4>1. ~Brings(wire[1], b, m)
        BY <1>5, <1>9, <3>2 DEF Brings
      <4> QED BY <1>9, <1>11, <2>1, <3>2, <4>1, LandsHead, WireIs DEF ChatGood
    <3> QED BY <3>1, <3>2
  <2>2. \A b \in listed : b \in Convs
    BY DEF ChatGood, ChatTyped
  <2> QED BY <1>1, <2>1, <2>2 DEF ChatGood, Landing, Off, Free
<1> QED BY <1>12, <1>13, <1>15, <1>16, <1>17, <1>18, <1>19, <1>20, <1>22, <1>24, <1>25, <1>26,
           <1>27 DEF ChatGood

\* The agent comes to an end.
LEMMA AgentEndsKept ==
    ASSUME Odds = {}, ChatGood, NEW n \in Questions, AgentEnds(n)
    PROVE  ChatGood'
<1>1. PICK ev \in {answer[n].events, Append(answer[n].events, Error)} :
         EndRun(n, ev) /\ (answer[n].events = <<>> => ev = <<>>)
  BY DEF AgentEnds
<1>2. answer[n].state = "going" /\ UNCHANGED <<page, link, boot, past>> /\ wire' = wire
  BY DEF AgentEnds
<1>3. wire' \in Seq(Requests) /\ Shift(wire, wire', 0) /\ 0 \in {0, 1}
  <2>1. wire \in Seq(Requests) /\ Len(wire) \in Nat
    BY WireIs DEF ChatGood
  <2> QED BY <1>2, <2>1 DEF Shift
<1> QED BY <1>1, <1>2, <1>3, RunEndsKept

\* A write that is the first to arrive leaves the transcript z; so does a stop that
\* comes too late.
LEMMA HeadServed ==
    ASSUME ChatGood, wire # <<>>, \A k \in Questions : answer[k].state # "going",
           wire[1].op # "chat", wire' = RemoveAt(wire, 1),
           NEW c, c = wire[1].conv, NEW z \in Seq(Messages), store' = [store EXCEPT ![c] = z],
           UNCHANGED <<answer, current, page, link, boot, past>>,
           filed' \subseteq used, IsFiniteSet(filed'), z # <<>> => c \in filed',
           \A b \in filed : b = c \/ b \in filed',
           wire[1].op = "stop" => z = store[c],
           WellMade(Of(c), z),
           \A k : Below(k, store[c]) /\ Below(k, wire[1].msgs) => Below(k, z),
           \A k \in Of(c) \ waived : Whole(k, answer[k], z),
           \A k \in Questions : wire[1].op = "append" /\ wire[1].msgs = <<Question(k)>>
                        => LastIs(z, Question(k)),
           \A b \in Convs : \A i \in 1 .. Len(msgs[b]) :
              \/ Covers(store[c], msgs[b][i]) /\ Spares(wire[1], c, msgs[b][i])
              \/ Brings(wire[1], c, msgs[b][i])
              => Covers(z, msgs[b][i])
    PROVE  ChatGood'
<1>1. UNCHANGED <<answer, current, listed, used, active, msgs, busy, ac, reader, checks,
                  syncing, asked, waived, missed>>
  BY DEF page, link, boot, past
<1>2. /\ wire \in Seq(Requests) /\ wire' \in Seq(Requests) /\ Shift(wire, wire', 1)
      /\ wire[1] \in Requests /\ Len(wire) \in Nat \ {0} /\ 1 \in 1 .. Len(wire)
  BY WireIs, HeadShift DEF ChatGood
<1>3. /\ Len(wire') \in Nat /\ Len(wire') = Len(wire) - 1
      /\ \A j \in 1 .. Len(wire') : wire'[j] = wire[j + 1] /\ j + 1 \in 1 .. Len(wire)
      /\ wire' # <<>> => Last(wire') = Last(wire)
  BY <1>2, ShiftIs DEF Shift
<1>4. c \in Convs /\ c \in used
  BY <1>2, WireIs DEF ChatGood
<1>5. /\ store' \in [Convs -> Seq(Messages)] /\ store'[c] = z
      /\ \A b \in Convs : b # c => store'[b] = store[b]
      /\ wire[1].op = "stop" => store' = store
  <2>1. store \in [Convs -> Seq(Messages)]
    BY DEF ChatGood, ChatTyped
  <2> QED BY <1>4, <2>1
<1>6. ChatTyped'
  <2>1. \A j \in 1 .. Len(wire') : wire'[j].conv \in used
    BY <1>3, WireIs DEF ChatGood
  <2> QED BY <1>1, <1>2, <1>5, <2>1 DEF ChatGood, ChatTyped
<1>7. Runs'
  <2>1. \A b \in Convs : store'[b] # <<>> => b \in filed'
    BY <1>4, <1>5 DEF ChatGood, Runs
  <2> QED BY <1>1, <2>1 DEF ChatGood, Runs, Of
<1>8. OneRun'
  BY <1>1 DEF OneRun
<1>9. Lists'
  <2>1. \A b \in Convs : WellMade(Of(b), store'[b]) /\ WellMade(Of(b), msgs[b])
    BY <1>4, <1>5 DEF ChatGood, Lists
  <2> QED BY <1>1, <2>1 DEF Lists, Of
<1>10. Appends'
  <2> SUFFICES ASSUME NEW j \in 1 .. Len(wire'), wire'[j].op = "append"
               PROVE  \E k \in Of(wire'[j].conv) : Asks(j, k)' \/ Tells(j, k)'
    BY <1>1 DEF Appends, Of
  <2>1. j + 1 \in 1 .. Len(wire) /\ wire'[j] = wire[j + 1] /\ j \in Nat /\ j >= 1
    BY <1>3
  <2>2. PICK k \in Of(wire[j + 1].conv) : Asks(j + 1, k) \/ Tells(j + 1, k)
    BY <2>1 DEF ChatGood, Appends
  <2>3. wire[j + 1].conv \in Convs
    BY <2>1, WireIs DEF ChatGood
  <2>4. CASE Asks(j + 1, k)
    <3>1. \A i \in 1 .. j - 1 : i \in 1 .. Len(wire') /\ i + 1 \in 1 .. (j + 1) - 1
      BY <1>3, <2>1
    <3>2. 1 \in 1 .. (j + 1) - 1
      BY <2>1
    <3>3. Below(k, store'[wire[j + 1].conv])
      BY <1>5, <2>3, <2>4, <3>2 DEF Asks
    <3>4. Asks(j, k)'
      BY <1>3, <2>1, <2>4, <3>1, <3>3 DEF Asks
    <3> QED BY <2>1, <2>2, <3>4
  <2>5. CASE Tells(j + 1, k)
    <3>1. j + 1 # 1
      BY <2>1
    <3>2. j + 1 = 2 /\ wire[1].op = "stop"
      BY <2>5, <3>1 DEF Tells
    <3>3. store' = store /\ j = 1
      BY <1>5, <2>1, <3>2
    <3>4. Tells(j, k)'
      BY <1>1, <2>1, <2>5, <3>3 DEF Tells
    <3> QED BY <2>1, <2>2, <3>4
  <2> QED BY <2>2, <2>4, <2>5
<1>11. Replaces'
  <2> SUFFICES ASSUME NEW j \in 1 .. Len(wire')
      PROVE  /\ wire'[j].op = "replace" =>
                  /\ WellMade(Of(wire'[j].conv), wire'[j].msgs)
                  /\ \A k \in Of(wire'[j].conv) \ waived : Whole(k, answer[k], wire'[j].msgs)
             /\ wire'[j].op = "delete" => /\ Of(wire'[j].conv) \subseteq waived
                                         /\ wire'[j].conv \notin listed
             /\ wire'[j].op \in {"chat", "stop", "delete"} => wire'[j].msgs = <<>>
    BY <1>1 DEF Replaces, Of
  <2>1. j + 1 \in 1 .. Len(wire) /\ wire'[j] = wire[j + 1]
    BY <1>3
  <2> QED BY <2>1 DEF ChatGood, Replaces
<1>12. Chats'
  <2> SUFFICES ASSUME NEW j \in 1 .. Len(wire'), wire'[j].op = "chat"
      PROVE  LET m == wire'[j].run IN
             /\ m \in Of(wire'[j].conv) /\ answer[m].state = "none"
             /\ j < Len(wire') => /\ wire'[j + 1].op = "stop"
                                  /\ wire'[j + 1].conv = wire'[j].conv
                                  /\ m \in waived
             /\ j = Len(wire') => \E r \in Readers : reader[r].pc = "sent" /\ reader[r].run = m
             /\ j = 1 => LastIs(store'[wire'[j].conv], Question(m))
             /\ j > 1 => /\ wire'[j - 1].op = "append" /\ wire'[j - 1].conv = wire'[j].conv
                         /\ wire'[j - 1].msgs = <<Question(m)>>
    BY <1>1 DEF Chats, Of
  <2>1. /\ j + 1 \in 1 .. Len(wire) /\ wire'[j] = wire[j + 1] /\ (j + 1) - 1 = j /\ j + 1 > 1
        /\ j > 1 => j - 1 \in 1 .. Len(wire') /\ (j - 1) + 1 = j
        /\ j < Len(wire') => j + 1 \in 1 .. Len(wire') /\ j + 1 < Len(wire)
        /\ j = Len(wire') => j + 1 = Len(wire)
    BY <1>3
  <2>2. /\ j > 1 => wire'[j - 1] = wire[j]
        /\ j < Len(wire') => wire'[j + 1] = wire[(j + 1) + 1]
    BY <1>3, <2>1
  <2> DEFINE m == wire[j + 1].run
             b == wire[j + 1].conv
  <2>3. /\ m \in Of(b) /\ answer[m].state = "none"
        /\ j + 1 < Len(wire) => /\ wire[(j + 1) + 1].op = "stop"
                                /\ wire[(j + 1) + 1].conv = b
                                /\ m \in waived
        /\ j + 1 = Len(wire) => \E r \in Readers : reader[r].pc = "sent" /\ reader[r].run = m
        /\ wire[j].op = "append" /\ wire[j].conv = b /\ wire[j].msgs = <<Question(m)>>
    BY <2>1 DEF ChatGood, Chats
  <2>4. m \in Questions
    BY <2>3, OfIs DEF ChatGood
  <2>5. j = 1 => LastIs(store'[b], Question(m))
    BY <1>5, <2>3, <2>4, <1>4
  <2> QED BY <2>1, <2>2, <2>3, <2>5
<1>13. Handles'
  BY <1>1 DEF ChatGood, Handles, Off, Free
<1>14. OnScreen'
  BY <1>1 DEF ChatGood, OnScreen, Shown, Off, Of
<1>15. AtServer'
  <2> SUFFICES ASSUME NEW r \in Readers, ~Off(r)
               PROVE  Begun(r)' /\ Pending(r)'
    BY <1>1 DEF AtServer, Off
  <2> DEFINE m == reader[r].run
  <2>1. Begun(r) /\ Pending(r) /\ m \in Questions /\ active \in Convs
    BY ReaderIs DEF ChatGood, AtServer
  <2>2. wire' = <<>> => Last(wire) = wire[1]
    BY <1>3 DEF Last
  <2>3. Pending(r)'
    BY <1>1, <1>3, <1>5, <2>1, <2>2 DEF Pending
  <2>4. Begun(r)'
    <3> SUFFICES ASSUME answer[m].state # "none"
                 PROVE  Begun(r)'
      BY <1>1 DEF Begun
    <3>1. Len(wire) = 1 /\ wire[1].op = "stop"
      BY <2>1 DEF Begun
    <3>2. wire' = <<>> /\ store' = store
      BY <1>2, <1>3, <1>5, <3>1
    <3> QED BY <1>1, <2>1, <3>2 DEF Begun
  <2> QED BY <2>3, <2>4
<1>16. Booting'
  BY <1>1 DEF ChatGood, Booting, Free, Off
<1>17. Saved'
  <2> SUFFICES ASSUME NEW k \in 1 .. Len(asked), k \notin waived
               PROVE  Whole(k, answer[k], store'[asked[k]])
    BY <1>1 DEF Saved
  <2>1. asked[k] \in Convs /\ k \in Of(asked[k])
    BY OfIs DEF ChatGood
  <2>2. Whole(k, answer[k], store[asked[k]])
    BY DEF ChatGood, Saved
  <2> QED BY <1>5, <2>1, <2>2
<1>18. Landing'
  <2>1. ASSUME NEW b \in Convs, NEW i \in 1 .. Len(msgs[b]), Lands(store[b], wire, b, msgs[b][i])
        PROVE  Lands(store'[b], wire', b, msgs[b][i])
    <3>1. CASE b = c
      BY <1>2, <1>5, <2>1, <3>1, LandsHead
    <3>2. CASE b # c
      <4>1. ~Brings(wire[1], b, msgs[b][i])
        BY <3>2 DEF Brings
      <4> QED BY <1>2, <1>5, <2>1, <3>2, <4>1, LandsHead
    <3> QED BY <3>1, <3>2
  <2>2. \A b \in listed : b \in Convs
    BY DEF ChatGood, ChatTyped
  <2> QED BY <1>1, <2>1, <2>2 DEF ChatGood, Landing, Off, Free
<1> QED BY <1>6, <1>7, <1>8, <1>9, <1>10, <1>11, <1>12, <1>13, <1>14, <1>15, <1>16, <1>17,
           <1>18 DEF ChatGood

\* Without overtaking, the request that arrives is the first.
LEMMA FirstArrives ==
    ASSUME Odds = {}, ChatTyped, NEW op, NEW i \in Arriving(op)
    PROVE  /\ i = 1 /\ wire # <<>> /\ wire[1].op = op /\ 1 \in 1 .. Len(wire)
           /\ wire[1].conv \in Convs /\ wire[1].conv \in used
           /\ wire[1].msgs \in Seq(Messages)
           /\ store[wire[1].conv] \in Seq(Messages)
           /\ filed \subseteq used /\ IsFiniteSet(filed \cup {wire[1].conv})
           /\ IsFiniteSet(filed)
           /\ \A b \in Convs : store[b] # <<>> /\ Runs => b \in filed
<1>1. i = 1 /\ wire # <<>> /\ wire[1].op = op /\ 1 \in 1 .. Len(wire)
  BY WireIs DEF Arriving
<1>2. /\ wire[1].conv \in Convs /\ wire[1].conv \in used /\ wire[1].msgs \in Seq(Messages)
  BY <1>1, WireIs
<1>3. /\ store[wire[1].conv] \in Seq(Messages) /\ filed \subseteq used /\ IsFiniteSet(filed)
  BY <1>2 DEF ChatTyped
<1>4. IsFiniteSet(filed \cup {wire[1].conv})
  BY <1>3, FS_AddElement
<1> QED BY <1>1, <1>2, <1>3, <1>4 DEF Runs

\* A question or a reply of the page arrives: it is new, or known already.
LEMMA AppendArrivesKept ==
    ASSUME Odds = {}, ChatGood, AppendArrives
    PROVE  ChatGood'
<1> DEFINE c == wire[1].conv
           s == store[c]
           x == wire[1].msgs[1]
           z == Deduped(s, x)
<1>1. PICK i \in Arriving("append") :
         /\ Taken(i) /\ Stored(wire[i].conv, wire[i].msgs[1])
         /\ UNCHANGED <<answer, current, page, link, boot, past>>
  BY DEF AppendArrives
<1>2. /\ i = 1 /\ wire # <<>> /\ wire[1].op = "append" /\ 1 \in 1 .. Len(wire)
      /\ c \in Convs /\ c \in used /\ s \in Seq(Messages)
      /\ filed \subseteq used /\ IsFiniteSet(filed \cup {c})
  BY FirstArrives DEF ChatGood
<1>3. /\ wire' = RemoveAt(wire, 1) /\ store' = [store EXCEPT ![c] = z]
      /\ filed' = filed \cup {c}
  BY <1>1, <1>2 DEF Taken, Stored
<1>4. \A k \in Questions : answer[k].state # "going"
  BY <1>2, NobodyGoes DEF ChatGood
<1>5. PICK n \in Of(c) : Asks(1, n) \/ Tells(1, n)
  BY <1>2 DEF ChatGood, Appends
<1>6. n \in Nat /\ n \in Of(c) /\ Of(c) \in SUBSET Nat /\ WellMade(Of(c), s)
  BY <1>2, <1>5, OfIs DEF ChatGood, Lists
<1>7. /\ x \in Messages /\ wire[1].msgs = <<x>> /\ WellMade(Of(c), z)
      /\ \/ z = Append(s, x)
         \/ z = s /\ Covers(s, x) /\ \A k \in Nat : x # Question(k)
  <2>1. CASE Asks(1, n)
    <3>1. wire[1].msgs = <<Question(n)>> /\ Below(n, s)
      BY <2>1 DEF Asks
    <3>2. x = Question(n)
      BY <3>1
    <3>3. z = Append(s, Question(n))
      BY <1>2, <1>6, <3>1, <3>2, NewQuestionKept
    <3>4. WellMade(Of(c), Append(s, Question(n)))
      BY <1>2, <1>6, <3>1, QuestionAdded
    <3> QED BY <1>6, <3>1, <3>2, <3>3, <3>4, MessageIs
  <2>2. CASE Tells(1, n)
    <3>1. PICK t \in Texts : /\ wire[1].msgs = <<Reply(t)>> /\ t # <<>> /\ ReplyTo(n, t)
                             /\ Takes(n, answer[n], s, t)
      BY <2>2 DEF Tells
    <3>2. x = Reply(t) /\ x \in Messages /\ \A k \in Nat : x # Question(k)
      BY <3>1, MessageIs
    <3>3. CASE LastIs(s, Question(n))
      <4>1. z = Append(s, Reply(t))
        BY <1>2, <1>6, <3>2, <3>3, FirstReplyKept
      <4>2. WellMade(Of(c), Append(s, Reply(t)))
        BY <1>2, <1>6, <3>1, <3>3, ReplyAdded
      <4> QED BY <3>1, <3>2, <4>1, <4>2
    <3>4. CASE Answered(n, answer[n], s) /\ IsPrefix(t, AnswerText(n, answer[n].events))
      <4> DEFINE u == AnswerText(n, answer[n].events)
      <4>1. answer[n] \in Answers
        BY <1>6, OfIs DEF ChatGood, ChatTyped
      <4>2. answer[n].events \in Seq(Nat)
        BY <4>1 DEF Answers
      <4>3. u \in Texts
        BY <1>6, <4>2, AnswerIs
      <4>4. s # <<>> /\ Last(s) = Reply(u)
        <5>1. Len(s) > 1
          BY <3>4 DEF Answered
        <5> QED BY <1>2, <3>4, <5>1 DEF Answered
      <4>5. LastIs(s, Reply(u)) /\ IsPrefix(t, u)
        BY <3>4, <4>4 DEF LastIs
      <4> HIDE DEF u
      <4>6. z = s
        BY <1>2, <3>1, <3>2, <4>3, <4>5, ShorterReplyDropped
      <4>7. Covers(s, x)
        <5>1. /\ Reply(u).role = x.role /\ IsPrefix(x.text, Reply(u).text)
          BY <3>2, <4>3, <4>5, MessageIs
        <5>2. s[Len(s)] = Reply(u) /\ Len(s) \in Nat \ {0}
          BY <1>2, <4>4, Fronts
        <5>3. Len(s) \in 1 .. Len(s)
          BY <5>2
        <5> QED BY <5>1, <5>2, <5>3 DEF Covers
      <4> QED BY <1>6, <3>1, <3>2, <4>6, <4>7
    <3> QED BY <3>1, <3>3, <3>4 DEF Takes
  <2> QED BY <1>5, <2>1, <2>2
<1> HIDE DEF x, z
<1>8. /\ z \in Seq(Messages) /\ Covers(z, x)
      /\ \A e : Covers(s, e) => Covers(z, e)
      /\ \A k, a : Whole(k, a, s) => Whole(k, a, z)
      /\ \A k : Below(k, s) /\ (\A q \in Nat : x = Question(q) => q < k) => Below(k, z)
      /\ (\E k \in Nat : x = Question(k)) => LastIs(z, x)
  <2>1. CASE z = s
    BY <1>2, <1>7, <2>1
  <2>2. CASE z = Append(s, x)
    <3>1. Append(s, x) \in Seq(Messages) /\ Len(Append(s, x)) = Len(s) + 1 /\ Len(s) \in Nat
          /\ Append(s, x)[Len(s) + 1] = x
      BY <1>2, <1>7, Appended1
    <3>2. Len(s) + 1 \in 1 .. Len(Append(s, x))
      BY <3>1
    <3>3. Covers(Append(s, x), x)
      BY <3>1, <3>2, CoversItself
    <3> QED BY <1>2, <1>7, <2>2, <3>1, <3>3, OneMore
  <2> QED BY <1>7, <2>1, <2>2
<1>9. \A k : Below(k, s) /\ Below(k, wire[1].msgs) => Below(k, z)
  <2>1. Len(<<x>>) = 1 /\ <<x>>[1] = x
    OBVIOUS
  <2>2. \A k : Below(k, <<x>>) => \A q \in Nat : x = Question(q) => q < k
    BY <2>1 DEF Below
  <2> QED BY <1>7, <1>8, <2>2
<1>10. \A k \in Of(c) \ waived : Whole(k, answer[k], z)
  <2>1. \A k \in Of(c) \ waived : Whole(k, answer[k], s)
    BY OfIs DEF ChatGood, Saved
  <2> QED BY <1>8, <2>1
<1>11. \A k \in Questions : wire[1].msgs = <<Question(k)>> => LastIs(z, Question(k))
  <2>1. \A k : <<x>> = <<k>> => x = k
    OBVIOUS
  <2> QED BY <1>7, <1>8, <2>1 DEF Questions
<1>12. ASSUME NEW b \in Convs, NEW j \in 1 .. Len(msgs[b]),
              \/ Covers(s, msgs[b][j]) /\ Spares(wire[1], c, msgs[b][j])
              \/ Brings(wire[1], c, msgs[b][j])
       PROVE  Covers(z, msgs[b][j])
  <2>1. msgs[b] \in Seq(Messages)
    BY DEF ChatGood, ChatTyped
  <2>2. msgs[b][j] \in Messages
    BY <2>1
  <2>3. CASE Brings(wire[1], c, msgs[b][j])
    <3>1. Covers(<<x>>, msgs[b][j])
      BY <1>7, <2>3 DEF Brings
    <3> QED BY <1>7, <1>8, <2>2, <3>1, CoversMore
  <2> QED BY <1>8, <1>12, <2>3
<1> QED BY <1>1, <1>2, <1>3, <1>4, <1>7, <1>8, <1>9, <1>10, <1>11, <1>12, HeadServed

\* A whole transcript of the page arrives: it lacks no finished answer.
LEMMA ReplaceArrivesKept ==
    ASSUME Odds = {}, ChatGood, ReplaceArrives
    PROVE  ChatGood'
<1> DEFINE c == wire[1].conv
           z == wire[1].msgs
<1>1. PICK i \in Arriving("replace") :
         /\ Taken(i) /\ store' = [store EXCEPT ![wire[i].conv] = wire[i].msgs]
         /\ filed' = filed \cup {wire[i].conv}
         /\ UNCHANGED <<answer, current, page, link, boot, past>>
  BY DEF ReplaceArrives
<1>2. /\ i = 1 /\ wire # <<>> /\ wire[1].op = "replace" /\ 1 \in 1 .. Len(wire)
      /\ c \in Convs /\ c \in used /\ z \in Seq(Messages)
      /\ filed \subseteq used /\ IsFiniteSet(filed \cup {c})
  BY FirstArrives DEF ChatGood
<1>3. wire' = RemoveAt(wire, 1) /\ store' = [store EXCEPT ![c] = z] /\ filed' = filed \cup {c}
  BY <1>1, <1>2 DEF Taken
<1>4. \A k \in Questions : answer[k].state # "going"
  BY <1>2, NobodyGoes DEF ChatGood
<1>5. WellMade(Of(c), z) /\ \A k \in Of(c) \ waived : Whole(k, answer[k], z)
  BY <1>2 DEF ChatGood, Replaces
<1>6. \A m : Spares(wire[1], c, m) \/ Brings(wire[1], c, m) => Covers(z, m)
  BY <1>2 DEF Spares, Brings
<1> HIDE DEF z
<1>7. \A k : Below(k, wire[1].msgs) => Below(k, z)
  BY DEF z
<1> QED BY <1>1, <1>2, <1>3, <1>4, <1>5, <1>6, <1>7, HeadServed

\* A conversation is deleted: the page does not list it any more.
LEMMA DeleteArrivesKept ==
    ASSUME Odds = {}, ChatGood, DeleteArrives
    PROVE  ChatGood'
<1> DEFINE c == wire[1].conv
           z == <<>>
<1>1. PICK i \in Arriving("delete") :
         /\ Taken(i) /\ store' = [store EXCEPT ![wire[i].conv] = <<>>]
         /\ filed' = filed \ {wire[i].conv}
         /\ UNCHANGED <<answer, current, page, link, boot, past>>
  BY DEF DeleteArrives
<1>2. /\ i = 1 /\ wire # <<>> /\ wire[1].op = "delete" /\ 1 \in 1 .. Len(wire)
      /\ c \in Convs /\ c \in used /\ z \in Seq(Messages)
      /\ filed \subseteq used /\ IsFiniteSet(filed)
  BY FirstArrives DEF ChatGood
<1>3. wire' = RemoveAt(wire, 1) /\ store' = [store EXCEPT ![c] = z] /\ filed' = filed \ {c}
  BY <1>1, <1>2 DEF Taken
<1>4. \A k \in Questions : answer[k].state # "going"
  BY <1>2, NobodyGoes DEF ChatGood
<1>5. WellMade(Of(c), z) /\ \A k \in Of(c) \ waived : Whole(k, answer[k], z)
  <2>1. Of(c) \subseteq waived
    BY <1>2 DEF ChatGood, Replaces
  <2> QED BY <2>1, NothingMade
<1>6. \A m : ~Spares(wire[1], c, m) /\ ~Brings(wire[1], c, m)
  BY <1>2 DEF Spares, Brings
<1>7. \A k : Below(k, z)
  BY DEF Below
<1>8. IsFiniteSet(filed') /\ filed' \subseteq used
  BY <1>2, <1>3, FS_RemoveElement
<1> QED BY <1>1, <1>2, <1>3, <1>4, <1>5, <1>6, <1>7, <1>8, HeadServed

\* A "stop" arrives: it ends a run that the user gave up.
LEMMA StopArrivesKept ==
    ASSUME Odds = {}, ChatGood, StopArrives
    PROVE  ChatGood'
<1> DEFINE c == wire[1].conv
           n == current[c]
           s == store[c]
<1>1. PICK i \in Arriving("stop") :
         /\ Taken(i)
         /\ IF Active(wire[i].conv)
            THEN EndRun(current[wire[i].conv],
                        Append(answer[current[wire[i].conv]].events, Error))
            ELSE UNCHANGED server
         /\ UNCHANGED <<page, link, boot, past>>
  BY DEF StopArrives
<1>2. /\ i = 1 /\ wire # <<>> /\ wire[1].op = "stop" /\ 1 \in 1 .. Len(wire)
      /\ c \in Convs /\ c \in used /\ s \in Seq(Messages)
      /\ filed \subseteq used /\ IsFiniteSet(filed) /\ wire[1].msgs \in Seq(Messages)
  BY FirstArrives DEF ChatGood
<1>3. wire' = RemoveAt(wire, 1)
  BY <1>1, <1>2 DEF Taken
<1>4. CASE Active(c)
  <2>1. n \in Questions /\ answer[n].state = "going"
    <3>1. n \in Of(c)
      BY <1>2, <1>4 DEF Active, ChatGood, Runs
    <3> QED BY <1>4, <3>1, OfIs DEF Active, ChatGood
  <2>2. Shift(wire, wire', 1) /\ wire' \in Seq(Requests) /\ 1 \in {0, 1}
    BY <1>2, <1>3, HeadShift, WireIs DEF ChatGood
  <2>3. EndRun(n, Append(answer[n].events, Error))
    BY <1>1, <1>2, <1>4
  <2> QED BY <1>1, <1>2, <2>1, <2>2, <2>3, RunEndsKept
<1>5. CASE ~Active(c)
  <2>1. \A k \in Questions : answer[k].state # "going"
    BY <1>2, <1>5 DEF ChatGood, OneRun, Active, NoQuestion, Questions
  <2>2. /\ UNCHANGED <<answer, current, page, link, boot, past>> /\ store' = store /\ filed' = filed
    BY <1>1, <1>2, <1>5 DEF server
  <2>3. store' = [store EXCEPT ![c] = s]
    BY <1>2, <2>2 DEF ChatGood, ChatTyped
  <2>4. WellMade(Of(c), s) /\ (s # <<>> => c \in filed)
    BY <1>2 DEF ChatGood, Lists, Runs
  <2>5. \A k \in Of(c) \ waived : Whole(k, answer[k], s)
    BY OfIs DEF ChatGood, Saved
  <2>6. \A m : ~Brings(wire[1], c, m)
    BY <1>2 DEF Brings
  <2> QED BY <1>2, <1>3, <2>1, <2>2, <2>3, <2>4, <2>5, <2>6, HeadServed
<1> QED BY <1>4, <1>5

\* A question arrives: it is stored already, and its run is the only one.
LEMMA ChatArrivesKept ==
    ASSUME Odds = {}, ChatGood, ChatArrives
    PROVE  ChatGood'
<1> DEFINE c == wire[1].conv
           n == wire[1].run
           s == store[c]
<1>1. PICK i \in Arriving("chat") :
        LET b == wire[i].conv  k == wire[i].run
            run == IF Active(b) THEN current[b] ELSE k IN
        /\ Taken(i)
        /\ Stored(b, Question(k))
        /\ answer' = [answer EXCEPT ![run].state = "going"]
        /\ current' = [current EXCEPT ![b] = run]
        /\ reader' = [r \in Readers |->
                        IF reader[r].pc = "sent" /\ reader[r].run = k
                        THEN [reader[r] EXCEPT !.pc = "reading", !.run = run]
                        ELSE reader[r]]
        /\ UNCHANGED <<page, busy, ac, boot, past>>
  BY DEF ChatArrives
<1>2. /\ i = 1 /\ wire # <<>> /\ wire[1].op = "chat" /\ 1 \in 1 .. Len(wire)
      /\ c \in Convs /\ c \in used /\ s \in Seq(Messages)
      /\ filed \subseteq used /\ IsFiniteSet(filed \cup {c})
  BY FirstArrives DEF ChatGood
<1>3. /\ \A k \in Questions : answer[k].state # "going"
      /\ ~Active(c)
  <2>1. \A k \in Questions : answer[k].state # "going"
    BY <1>2, NobodyGoes DEF ChatGood
  <2>2. current[c] # NoQuestion => current[c] \in Questions
    BY <1>2, OfIs DEF ChatGood, Runs
  <2> QED BY <2>1, <2>2 DEF Active
<1>4. /\ n \in Of(c) /\ n \in Questions /\ n \in Nat /\ asked[n] = c /\ n \in 1 .. Len(asked)
      /\ answer[n].state = "none" /\ LastIs(s, Question(n))
      /\ 1 < Len(wire) => wire[2].op = "stop" /\ wire[2].conv = c /\ n \in waived
      /\ 1 = Len(wire) => \E r \in Readers : reader[r].pc = "sent" /\ reader[r].run = n
  <2>1. /\ n \in Of(c) /\ answer[n].state = "none" /\ LastIs(s, Question(n))
        /\ 1 < Len(wire) => wire[1 + 1].op = "stop" /\ wire[1 + 1].conv = c /\ n \in waived
        /\ 1 = Len(wire) => \E r \in Readers : reader[r].pc = "sent" /\ reader[r].run = n
    BY <1>2 DEF ChatGood, Chats
  <2> QED BY <2>1, OfIs DEF ChatGood
<1>5. store' = store /\ filed' = filed \cup {c}
  <2>1. Deduped(s, Question(n)) = s
    BY <1>2, <1>4, SameQuestionDropped
  <2>2. store' = [store EXCEPT ![c] = Deduped(s, Question(n))] /\ filed' = filed \cup {c}
    BY <1>1, <1>2 DEF Stored
  <2>3. store \in [Convs -> Seq(Messages)]
    BY DEF ChatGood, ChatTyped
  <2> QED BY <1>2, <2>1, <2>2, <2>3
<1>6. /\ wire' = RemoveAt(wire, 1)
      /\ answer' = [answer EXCEPT ![n].state = "going"]
      /\ current' = [current EXCEPT ![c] = n]
      /\ reader' = [r \in Readers |->
                      IF reader[r].pc = "sent" /\ reader[r].run = n
                      THEN [reader[r] EXCEPT !.pc = "reading", !.run = n]
                      ELSE reader[r]]
      /\ UNCHANGED <<listed, used, active, msgs, busy, ac, checks, syncing, asked, waived, missed>>
  BY <1>1, <1>2, <1>3 DEF Taken, page, boot, past
<1>7. /\ wire \in Seq(Requests) /\ wire' \in Seq(Requests) /\ Shift(wire, wire', 1)
      /\ wire[1] \in Requests /\ Len(wire) \in Nat \ {0} /\ 1 \in 1 .. Len(wire)
  BY <1>2, <1>6, WireIs, HeadShift DEF ChatGood
<1>8. /\ Len(wire') \in Nat /\ Len(wire') = Len(wire) - 1
      /\ \A j \in 1 .. Len(wire') : wire'[j] = wire[j + 1] /\ j + 1 \in 1 .. Len(wire)
      /\ wire' # <<>> => Last(wire') = Last(wire)
  BY <1>7, ShiftIs DEF Shift
<1>9. /\ answer \in [Questions -> Answers] /\ answer[n] \in Answers /\ answer[n].events = <<>>
      /\ current \in [Convs -> 0 .. MaxAsked] /\ reader \in [Readers -> Calls]
      /\ n \in 0 .. MaxAsked
  <2>1. Uttered(answer[n])
    BY <1>4 DEF ChatGood, Runs
  <2> QED BY <1>4, <2>1 DEF ChatGood, ChatTyped, Uttered, Questions
<1>10. /\ answer' \in [Questions -> Answers]
       /\ answer'[n].state = "going" /\ answer'[n].events = <<>>
       /\ \A k \in Questions : k # n => answer'[k] = answer[k]
       /\ \A k \in Questions : answer'[k].events = answer[k].events
  BY <1>4, <1>6, <1>9 DEF Answers
<1>11. /\ reader' \in [Readers -> Calls]
       /\ \A r \in Readers :
             /\ reader'[r].conv = reader[r].conv /\ reader'[r].mode = reader[r].mode
             /\ reader'[r].run = reader[r].run /\ reader'[r].pos = reader[r].pos
             /\ reader'[r].aborted = reader[r].aborted /\ reader'[r].fresh = reader[r].fresh
             /\ IF reader[r].pc = "sent" /\ reader[r].run = n THEN reader'[r].pc = "reading"
                                                             ELSE reader'[r].pc = reader[r].pc
  BY <1>6, <1>9 DEF Calls
<1>12. /\ \A r \in Readers : Off(r)' <=> Off(r)
       /\ \A r \in Readers : reader'[r].pc = "off" <=> reader[r].pc = "off"
  BY <1>11 DEF Off
<1>13. \A r \in Readers : reader[r].pc = "sent" /\ reader[r].run = n => Len(wire) = 1
  BY <1>2, SentLast
<1>14. \A k \in Questions : \A t : Whole(k, answer[k], t) /\ k # n => Whole(k, answer'[k], t)
  BY <1>10
<1>15. ChatTyped'
  <2>1. \A j \in 1 .. Len(wire') : wire'[j].conv \in used
    BY <1>8, WireIs DEF ChatGood
  <2>2. current' \in [Convs -> 0 .. MaxAsked]
    BY <1>6, <1>9
  <2> QED BY <1>2, <1>5, <1>6, <1>7, <1>10, <1>11, <2>1, <2>2 DEF ChatGood, ChatTyped
<1>16. Runs'
  <2>1. \A k \in Questions : Uttered(answer'[k])
    <3>1. Uttered(answer'[n])
      BY <1>10 DEF Uttered
    <3> QED BY <1>10, <3>1 DEF ChatGood, Runs
  <2>2. \A k \in Questions : answer'[k].state # "none" => k <= Len(asked)
    BY <1>4, <1>10 DEF ChatGood, Runs
  <2>3. \A b \in Convs : current'[b] # NoQuestion => current'[b] \in Of(b)
    BY <1>2, <1>4, <1>6, <1>9 DEF ChatGood, Runs
  <2> QED BY <1>5, <1>6, <2>1, <2>2, <2>3 DEF ChatGood, Runs, Of
<1>17. OneRun'
  <2>1. \A k \in Questions : answer'[k].state = "going" => k = n
    BY <1>3, <1>10
  <2>2. current'[c] = n
    BY <1>2, <1>6, <1>9
  <2>3. wire' # <<>> => wire'[1].op = "stop" /\ wire'[1].conv = c /\ n \in waived
    BY <1>4, <1>8
  <2> QED BY <1>4, <1>5, <1>6, <2>1, <2>2, <2>3 DEF OneRun
<1>18. Lists'
  BY <1>5, <1>6 DEF ChatGood, Lists, Of
<1>19. Appends'
  <2> SUFFICES ASSUME NEW j \in 1 .. Len(wire'), wire'[j].op = "append"
               PROVE  \E k \in Of(wire'[j].conv) : Asks(j, k)' \/ Tells(j, k)'
    BY <1>6 DEF Appends, Of
  <2>1. j + 1 \in 1 .. Len(wire) /\ wire'[j] = wire[j + 1] /\ j \in Nat /\ j >= 1
    BY <1>8
  <2>2. PICK k \in Of(wire[j + 1].conv) : Asks(j + 1, k) \/ Tells(j + 1, k)
    BY <2>1 DEF ChatGood, Appends
  <2>3. Asks(j + 1, k)
    <3>1. j + 1 # 1
      BY <2>1
    <3> QED BY <1>2, <2>2, <3>1 DEF Tells
  <2>4. \A b \in 1 .. j - 1 : b \in 1 .. Len(wire') /\ b + 1 \in 1 .. (j + 1) - 1
    BY <1>8, <2>1
  <2>5. Asks(j, k)'
    BY <1>5, <1>8, <2>1, <2>3, <2>4 DEF Asks
  <2> QED BY <2>1, <2>2, <2>5
<1>20. Replaces'
  <2> SUFFICES ASSUME NEW j \in 1 .. Len(wire')
      PROVE  /\ wire'[j].op = "replace" =>
                  /\ WellMade(Of(wire'[j].conv), wire'[j].msgs)
                  /\ \A k \in Of(wire'[j].conv) \ waived : Whole(k, answer'[k], wire'[j].msgs)
             /\ wire'[j].op = "delete" => /\ Of(wire'[j].conv) \subseteq waived
                                         /\ wire'[j].conv \notin listed
             /\ wire'[j].op \in {"chat", "stop", "delete"} => wire'[j].msgs = <<>>
    BY <1>6 DEF Replaces, Of
  <2>1. j + 1 \in 1 .. Len(wire) /\ wire'[j] = wire[j + 1] /\ 1 < Len(wire)
    BY <1>8
  <2>2. \A k \in Of(wire'[j].conv) \ waived : k \in Questions /\ answer'[k] = answer[k]
    BY <1>4, <1>10, <2>1, OfIs DEF ChatGood
  <2> QED BY <2>1, <2>2 DEF ChatGood, Replaces
<1>21. Chats'
  <2> SUFFICES ASSUME NEW j \in 1 .. Len(wire'), wire'[j].op = "chat"
      PROVE  LET m == wire'[j].run IN
             /\ m \in Of(wire'[j].conv) /\ answer'[m].state = "none"
             /\ j < Len(wire') => /\ wire'[j + 1].op = "stop"
                                  /\ wire'[j + 1].conv = wire'[j].conv
                                  /\ m \in waived
             /\ j = Len(wire') => \E r \in Readers : reader'[r].pc = "sent" /\ reader'[r].run = m
             /\ j = 1 => LastIs(store'[wire'[j].conv], Question(m))
             /\ j > 1 => /\ wire'[j - 1].op = "append" /\ wire'[j - 1].conv = wire'[j].conv
                         /\ wire'[j - 1].msgs = <<Question(m)>>
    BY <1>6 DEF Chats, Of
  <2>1. /\ j + 1 \in 1 .. Len(wire) /\ wire'[j] = wire[j + 1] /\ (j + 1) - 1 = j /\ j + 1 > 1
        /\ j > 1 => j - 1 \in 1 .. Len(wire') /\ (j - 1) + 1 = j
        /\ j < Len(wire') => j + 1 \in 1 .. Len(wire') /\ j + 1 < Len(wire)
        /\ j = Len(wire') => j + 1 = Len(wire)
        /\ 1 < j + 1
    BY <1>8
  <2>2. /\ j > 1 => wire'[j - 1] = wire[j]
        /\ j < Len(wire') => wire'[j + 1] = wire[(j + 1) + 1]
    BY <1>8, <2>1
  <2> DEFINE m == wire[j + 1].run
             b == wire[j + 1].conv
  <2>3. /\ m \in Of(b) /\ answer[m].state = "none"
        /\ j + 1 < Len(wire) => /\ wire[(j + 1) + 1].op = "stop"
                                /\ wire[(j + 1) + 1].conv = b
                                /\ m \in waived
        /\ j + 1 = Len(wire) => \E r \in Readers : reader[r].pc = "sent" /\ reader[r].run = m
        /\ wire[j].op = "append" /\ wire[j].conv = b /\ wire[j].msgs = <<Question(m)>>
    BY <2>1 DEF ChatGood, Chats
  <2>4. m \in Questions /\ m # n
    <3>1. ~(1 < j + 1) \/ m # n
      BY <1>2, <2>1, OneChat DEF ChatGood
    <3> QED BY <2>1, <2>3, <3>1, OfIs DEF ChatGood
  <2>5. j # 1
    BY <1>2, <2>3
  <2>6. j + 1 = Len(wire) => \E r \in Readers : reader'[r].pc = "sent" /\ reader'[r].run = m
    BY <1>11, <2>3, <2>4
  <2> QED BY <1>10, <2>1, <2>2, <2>3, <2>4, <2>5, <2>6
<1>22. Handles'
  <2>1. ac \in Readers \cup {NoReader}
    BY DEF ChatGood, ChatTyped
  <2>2. Free' <=> Free
    BY <1>12 DEF Free
  <2>3. Handles
    BY DEF ChatGood
  <2>4. \A r, q \in Readers : reader'[r].pc # "off" /\ reader'[q].pc # "off" => r = q
    BY <1>12, <2>3 DEF Handles, Off
  <2>5. ac # NoReader => reader'[ac].pc # "off" /\ ~reader'[ac].aborted /\ busy = active
    BY <1>11, <1>12, <2>1, <2>3 DEF Handles, Off
  <2>6. \A r \in Readers : reader'[r].pc # "off" /\ ~reader'[r].aborted => ac = r
    BY <1>11, <1>12, <2>3 DEF Handles, Off
  <2> QED BY <1>6, <2>2, <2>3, <2>4, <2>5, <2>6 DEF Handles, Off
<1>23. \A r \in Readers : ~Off(r) => answer[reader[r].run].state = "none"
  <2> SUFFICES ASSUME NEW r \in Readers, ~Off(r), answer[reader[r].run].state # "none"
               PROVE  FALSE
    OBVIOUS
  <2>1. Begun(r)
    BY DEF ChatGood, AtServer
  <2> QED BY <1>2, <2>1 DEF Begun
<1>24. OnScreen'
  <2> SUFFICES ASSUME NEW r \in Readers, ~Off(r)
               PROVE  Shown(r)'
    BY <1>12 DEF OnScreen
  <2>1. Shown(r) /\ answer[reader[r].run].state = "none" /\ reader[r].run \in Questions
    BY <1>23, ReaderIs DEF ChatGood, OnScreen
  <2>2. Of(active)' = Of(active)
    BY <1>6 DEF Of
  <2>3. /\ reader'[r].conv = reader[r].conv /\ reader'[r].mode = reader[r].mode
        /\ reader'[r].run = reader[r].run /\ reader'[r].pos = reader[r].pos
        /\ reader'[r].aborted = reader[r].aborted /\ reader'[r].fresh = reader[r].fresh
        /\ \/ reader[r].pc = "sent" /\ reader'[r].pc = "reading"
           \/ reader'[r].pc = reader[r].pc
    BY <1>11
  <2>4. answer'[reader[r].run].events = answer[reader[r].run].events
    BY <1>10, <2>1
  <2>5. reader[r].mode # "replace"
    BY <2>1 DEF Shown
  <2> QED BY <1>6, <2>1, <2>2, <2>3, <2>4, <2>5 DEF Shown
<1>25. AtServer'
  <2> SUFFICES ASSUME NEW r \in Readers, ~Off(r)
               PROVE  Begun(r)' /\ Pending(r)'
    BY <1>12 DEF AtServer
  <2> DEFINE m == reader[r].run
  <2>1. /\ Pending(r) /\ m \in Questions /\ asked[m] = active /\ answer[m].state = "none"
        /\ \A q \in Readers : ~Off(q) => q = r
        /\ reader'[r].run = m /\ reader'[r].aborted = reader[r].aborted
    BY <1>11, <1>23, ReaderIs DEF ChatGood, AtServer
  <2>2. CASE m = n
    <3>1. reader[r].pc = "sent"
      BY <1>2, <2>1, <2>2 DEF Pending
    <3>2. wire' = <<>> /\ reader'[r].pc = "reading"
      BY <1>8, <1>11, <1>13, <2>2, <3>1
    <3>3. Begun(r)'
      <4>1. answer'[m].state = "going" /\ answer'[m].events = <<>>
        BY <1>10, <2>2
      <4>2. \A k \in Questions : answer'[k].state = "going" => k = m
        BY <1>3, <1>10, <2>2
      <4>3. ~reader[r].aborted
        <5>1. Shown(r)
          BY <3>1 DEF ChatGood, OnScreen, Off
        <5> QED BY <3>1, <5>1 DEF Shown
      <4> QED BY <2>1, <3>2, <4>1, <4>2, <4>3 DEF Begun
    <3>4. Pending(r)'
      BY <1>10, <2>1, <2>2 DEF Pending
    <3> QED BY <3>3, <3>4
  <2>3. CASE m # n
    <3>1. wire' # <<>>
      <4> SUFFICES ASSUME Len(wire) = 1
                   PROVE  FALSE
        BY <1>8
      <4>1. PICK q \in Readers : reader[q].pc = "sent" /\ reader[q].run = n
        BY <1>4
      <4> QED BY <2>1, <2>3, <4>1 DEF Off
    <3>2. answer'[m].state = "none" /\ reader'[r].pc = reader[r].pc
      BY <1>10, <1>11, <2>1, <2>3
    <3>3. Begun(r)'
      BY <2>1, <3>2 DEF Begun
    <3>4. Pending(r)'
      <4>1. \A b \in 1 .. Len(wire) :
               reader[r].pc # "sent" /\ wire[b].op = "chat" => wire[b].run # m
        BY <2>1 DEF Pending
      <4>2. \A b \in 1 .. Len(wire') :
               reader[r].pc # "sent" /\ wire'[b].op = "chat" => wire'[b].run # m
        BY <1>8, <4>1
      <4>3. wire # <<>> /\ Last(wire') = Last(wire)
        BY <1>2, <1>8, <3>1
      <4> QED BY <1>6, <2>1, <3>1, <3>2, <4>2, <4>3 DEF Pending
    <3> QED BY <3>3, <3>4
  <2> QED BY <2>2, <2>3
<1>26. Booting'
  <2>1. wire' = <<>> => ~Free
    BY <1>4, <1>8 DEF Free, Off
  <2>2. Free' <=> Free
    BY <1>12 DEF Free
  <2>3. ~syncing
    BY <1>2 DEF ChatGood, Booting
  <2> QED BY <1>6, <2>1, <2>2, <2>3 DEF ChatGood, Booting
<1>27. Saved'
  <2> SUFFICES ASSUME NEW k \in 1 .. Len(asked), k \notin waived
               PROVE  Whole(k, answer'[k], store[asked[k]])
    BY <1>5, <1>6 DEF Saved
  <2>1. k \in Questions /\ Whole(k, answer[k], store[asked[k]])
    BY OfIs DEF ChatGood, Saved
  <2>2. Contains(s, Question(n))
    <3>1. s # <<>> /\ Last(s) = Question(n)
      BY <1>4 DEF LastIs
    <3>2. Len(s) \in Nat \ {0} /\ s[Len(s)] = Question(n)
      BY <1>2, <3>1, Fronts
    <3>3. Len(s) \in 1 .. Len(s)
      BY <3>2
    <3> QED BY <3>2, <3>3 DEF Contains
  <2>3. Whole(n, answer'[n], s)
    BY <1>10, <2>2 DEF Whole
  <2> QED BY <1>4, <1>14, <2>1, <2>3
<1>28. Landing'
  <2>1. ASSUME NEW b, NEW m, Lands(store[b], wire, b, m)
        PROVE  Lands(store[b], wire', b, m)
    <3>1. ~Brings(wire[1], b, m)
      BY <1>2 DEF Brings
    <3> QED BY <1>2, <1>7, <2>1, <3>1, LandsHead
  <2>2. Free' <=> Free
    BY <1>12 DEF Free
  <2> QED BY <1>5, <1>6, <2>1, <2>2 DEF ChatGood, Landing
<1> QED BY <1>15, <1>16, <1>17, <1>18, <1>19, <1>20, <1>21, <1>22, <1>24, <1>25, <1>26, <1>27,
           <1>28 DEF ChatGood

-----------------------------------------------------------------------------
(* The reader *)

\* The screen with t as the reply under way.
LEMMA PatchedIs ==
    ASSUME ChatGood, NEW r \in Readers, ~Off(r), NEW t \in Texts, ReplyTo(reader[r].run, t)
    PROVE  LET s == msgs[active]  u == Patched(t)[active] IN
           /\ EndsInReply(s) /\ LastText = Last(s).text
           /\ Retold(Of(active), reader[r].run, s, t, u)
           /\ Patched(t) \in [Convs -> Seq(Messages)]
           /\ \A b \in Convs : b # active => Patched(t)[b] = msgs[b]
           /\ \A b \in Convs \ used : Patched(t)[b] = <<>>
           /\ \A b \in Convs : WellMade(Of(b), Patched(t)[b])
           /\ t = Last(s).text => Patched(t) = msgs
<1> DEFINE n == reader[r].run
           s == msgs[active]
           own == Of(active)
           u == Append(Front(s), Reply(t))
<1>1. /\ n \in Of(active) /\ active \in Convs /\ active \in used /\ s \in Seq(Messages)
      /\ s # <<>> /\ Last(s) \in Messages /\ Len(s) \in Nat
  BY ReaderIs
<1>2. Len(s) > 1 /\ s[Len(s) - 1] = Question(n) /\ Last(s).role = "assistant"
  BY DEF ChatGood, OnScreen, Shown
<1>3. own \in SUBSET Nat /\ WellMade(own, s) /\ n \in own /\ ReplyTo(n, t)
  BY <1>1, OfIs DEF ChatGood, Lists
<1>4. EndsInReply(s) /\ LastText = Last(s).text
  BY <1>1, <1>2 DEF EndsInReply, LastText
<1>5. Patched(t) = [msgs EXCEPT ![active] = u] /\ msgs \in [Convs -> Seq(Messages)]
  BY <1>4 DEF Patched, ChatGood, ChatTyped
<1>6. Patched(t)[active] = u /\ \A b \in Convs : b # active => Patched(t)[b] = msgs[b]
  BY <1>1, <1>5
<1>7. Retold(own, n, s, t, u)
  <2> HIDE DEF own, n, s
  <2> QED BY <1>1, <1>2, <1>3, ReplyReplaced
<1> HIDE DEF u
<1>8. Patched(t) \in [Convs -> Seq(Messages)]
  BY <1>5, <1>7 DEF Retold
<1>9. \A b \in Convs \ used : Patched(t)[b] = <<>>
  BY <1>1, <1>6 DEF ChatGood, ChatTyped
<1>10. \A b \in Convs : WellMade(Of(b), Patched(t)[b])
  BY <1>6, <1>7 DEF Retold, ChatGood, Lists
<1>11. ASSUME t = Last(s).text PROVE Patched(t) = msgs
  <2>1. Last(s) = Reply(t)
    BY <1>1, <1>2, <1>11, MessageIs
  <2>2. s[Len(s)] = Reply(t)
    BY <2>1 DEF Last
  <2>3. u \in Seq(Messages) /\ Len(u) = Len(s) /\ u[Len(s)] = Reply(t)
        /\ \A i \in 1 .. Len(s) - 1 : u[i] = s[i]
    BY <1>7 DEF Retold
  <2>4. \A i \in 1 .. Len(s) : u[i] = s[i]
    <3>1. \A i \in 1 .. Len(s) : i \in 1 .. Len(s) - 1 \/ i = Len(s)
      BY <1>1
    <3> QED BY <2>2, <2>3, <3>1
  <2>5. u = s
    BY <1>1, <2>3, <2>4, SeqEqual
  <2> QED BY <1>5, <2>5
<1> QED BY <1>4, <1>6, <1>7, <1>8, <1>9, <1>10, <1>11

\* The next piece after a part of a text makes a longer part of it.
LEMMA NextPiece ==
    ASSUME NEW w \in Texts, NEW o \in Texts, IsPrefix(o, w), Len(o) < Len(w)
    PROVE  LET t == Append(o, w[Len(o) + 1]) IN
           t \in Texts /\ Len(t) = Len(o) + 1 /\ IsPrefix(t, w) /\ Len(o) \in Nat
<1> DEFINE p == w[Len(o) + 1]
           t == Append(o, p)
<1>1. /\ Len(o) <= Len(w) /\ Len(o) \in Nat /\ Len(w) \in Nat
      /\ \A i \in 1 .. Len(o) : o[i] = w[i]
  BY PrefixIs DEF Texts
<1>2. Len(o) + 1 \in 1 .. Len(w)
  BY <1>1
<1>3. p \in Nat \X Nat
  BY <1>2 DEF Texts
<1> HIDE DEF p
<1>4. /\ t \in Seq(Nat \X Nat) /\ Len(t) = Len(o) + 1 /\ t[Len(o) + 1] = p
      /\ \A i \in 1 .. Len(o) : t[i] = o[i]
  BY <1>3, Appended1 DEF Texts
<1> HIDE DEF t
<1>5. \A i \in 1 .. Len(t) : i \in 1 .. Len(o) \/ i = Len(o) + 1
  BY <1>1, <1>4
<1>6. Len(t) <= Len(w) /\ \A i \in 1 .. Len(t) : t[i] = w[i]
  BY <1>1, <1>4, <1>5 DEF p
<1> QED BY <1>1, <1>4, <1>6, PrefixIs DEF Texts, t, p

\* The reader puts one event on the screen; the first after a reconnect wipes
\* the reply.
LEMMA ReadEventKept ==
    ASSUME Odds = {}, ChatGood, NEW r \in Readers, ReadEvent(r)
    PROVE  ChatGood'
<1> DEFINE n == reader[r].run
           s == msgs[active]
           ev == answer[n].events
           w == AnswerText(n, ev)
           pos == reader[r].pos
           piece == <<n, ev[pos + 1]>>
           o == IF reader[r].fresh THEN <<>> ELSE Last(s).text
           t == Append(o, piece)
           u == Patched(t)[active]
<1>1. /\ reader[r].pc = "reading" /\ pos < Len(ev)
      /\ msgs' = IF reader[r].fresh THEN Patched(<<piece>>) ELSE Extended(piece)
      /\ reader' = [reader EXCEPT ![r].pos = @ + 1, ![r].fresh = FALSE]
      /\ UNCHANGED <<store, filed, answer, current, listed, used, active, busy, ac, checks,
                     syncing, wire, asked, waived, missed>>
  BY DEF ReadEvent, server, boot, past
<1>2. ~Off(r)
  BY <1>1 DEF Off
<1>3. /\ n \in Questions /\ n \in Nat /\ n \in Of(active) /\ active \in Convs
      /\ reader[r] \in Calls /\ answer[n] \in Answers /\ ev \in Seq(Nat) /\ Len(ev) \in Nat
      /\ s \in Seq(Messages) /\ Last(s).text \in Texts /\ Len(s) \in Nat
      /\ answer[n].state \in {"none", "going", "done"}
  BY <1>2, ReaderIs
<1>4. /\ Shown(r) /\ Begun(r) /\ Pending(r)
  BY <1>2 DEF ChatGood, OnScreen, AtServer
<1>5. /\ ~reader[r].aborted /\ answer[n].state # "none" /\ ev # <<>> /\ ev[1] # Error
      /\ IsPrefix(Last(s).text, w) /\ pos \in Nat
      /\ IF reader[r].fresh THEN pos = 0 ELSE Len(Last(s).text) = pos
  <2>1. /\ ~reader[r].aborted /\ answer[n].state # "none" /\ pos \in Nat
        /\ reader[r].aborted \in BOOLEAN
    BY <1>1, <1>3, <1>4 DEF Shown, Pending, Calls
  <2>2. ev # <<>>
    BY <1>1, <2>1
  <2> QED BY <1>1, <1>4, <2>1, <2>2 DEF Shown, Begun
<1>6. /\ w \in Texts /\ Len(w) = Len(ev)
      /\ \A i \in 1 .. Len(ev) : i > 1 \/ ev[i] # Error => w[i] = <<n, ev[i]>>
  BY <1>3, AnswerIs
<1>7. pos + 1 \in 1 .. Len(ev) /\ ev[pos + 1] \in Nat /\ piece = w[pos + 1]
  <2>1. pos + 1 \in 1 .. Len(ev)
    BY <1>1, <1>3, <1>5
  <2>2. pos + 1 > 1 \/ ev[pos + 1] # Error
    BY <1>5
  <2>3. ev[pos + 1] \in Nat
    <3>1. \A e \in Seq(Nat) : \A k \in 1 .. Len(e) : e[k] \in Nat
      OBVIOUS
    <3> HIDE DEF ev, pos
    <3> QED BY <1>3, <2>1, <3>1
  <2>4. w[pos + 1] = <<n, ev[pos + 1]>>
    BY <1>6, <2>1, <2>2
  <2> QED BY <2>1, <2>3, <2>4
<1>8. /\ t \in Texts /\ Len(t) = pos + 1 /\ IsPrefix(t, w)
  <2>1. o \in Texts /\ Len(o) = pos /\ IsPrefix(o, w)
    <3>1. <<>> \in Texts /\ Len(<<>>) = 0 /\ Len(w) \in Nat
      BY <1>6 DEF Texts
    <3> DEFINE e == <<>>
    <3>2. e \in Texts /\ Len(e) <= Len(w) /\ \A i \in 1 .. Len(e) : FALSE
      BY <3>1
    <3> HIDE DEF e
    <3>3. IsPrefix(e, w)
      BY <1>6, <3>2, PrefixIs DEF Texts
    <3>4. IsPrefix(<<>>, w)
      BY <3>3 DEF e
    <3> QED BY <1>3, <1>5, <3>1, <3>4
  <2> HIDE DEF o, w, s, ev
  <2>2. Len(o) < Len(w)
    BY <1>1, <1>6, <2>1
  <2>3. piece = w[Len(o) + 1]
    BY <1>7, <2>1
  <2> HIDE DEF piece
  <2> QED BY <1>6, <2>1, <2>2, <2>3, NextPiece
<1>9. ReplyTo(n, t)
  <2>1. Uttered(answer[n])
    BY <1>3 DEF ChatGood, Runs
  <2> QED BY <1>3, <1>8, <2>1, AnswerReplies
<1>10. /\ LastText = Last(s).text
       /\ Patched(t) \in [Convs -> Seq(Messages)] /\ Patched(t)[active] = u
       /\ \A b \in Convs : b # active => Patched(t)[b] = msgs[b]
       /\ \A b \in Convs \ used : Patched(t)[b] = <<>>
       /\ \A b \in Convs : WellMade(Of(b), Patched(t)[b])
       /\ u \in Seq(Messages) /\ Len(u) = Len(s) /\ u[Len(s) - 1] = Question(n)
       /\ Last(u) = Reply(t) /\ u[Len(s)] = Reply(t) /\ Front(u) = Front(s)
       /\ \A i \in 1 .. Len(s) - 1 : u[i] = s[i]
  <2>1. t \in Texts /\ ReplyTo(reader[r].run, t)
    BY <1>8, <1>9
  <2> HIDE DEF t
  <2> QED BY <1>2, <2>1, PatchedIs DEF Retold
<1>11. msgs' = Patched(t)
  <2>1. reader[r].fresh => t = <<piece>>
    <3>1. \A x : Append(<<>>, x) = <<x>>
      OBVIOUS
    <3> QED BY <3>1
  <2> QED BY <1>1, <1>10, <2>1 DEF Extended
<1>12. /\ Reply(t).text = t /\ Reply(t).role = "assistant"
  BY <1>8, MessageIs
<1> HIDE DEF t, u, w, o
<1>13. /\ reader' \in [Readers -> Calls]
       /\ \A q \in Readers : q # r => reader'[q] = reader[q]
       /\ \A q \in Readers :
             /\ reader'[q].conv = reader[q].conv /\ reader'[q].mode = reader[q].mode
             /\ reader'[q].run = reader[q].run /\ reader'[q].pc = reader[q].pc
             /\ reader'[q].aborted = reader[q].aborted
       /\ reader'[r].pos = pos + 1 /\ reader'[r].fresh = FALSE
  <2> DEFINE p == pos + 1
  <2>1. reader \in [Readers -> Calls] /\ p \in Nat
    BY <1>5 DEF ChatGood, ChatTyped
  <2>2. reader' = [reader EXCEPT ![r] = [@ EXCEPT !.pos = p, !.fresh = FALSE]]
    BY <1>1, <2>1
  <2> HIDE DEF p
  <2>3. reader' = [q \in Readers |-> IF q = r THEN [reader[r] EXCEPT !.pos = p, !.fresh = FALSE]
                                              ELSE reader[q]]
    BY <2>1, <2>2
  <2>4. [reader[r] EXCEPT !.pos = p, !.fresh = FALSE] \in Calls
    BY <1>3, <2>1 DEF Calls
  <2> QED BY <1>3, <2>1, <2>3, <2>4 DEF Calls, p
<1>14. \A q \in Readers : Off(q)' <=> Off(q)
  BY <1>13 DEF Off
<1>15. ChatTyped'
  BY <1>1, <1>10, <1>11, <1>13 DEF ChatGood, ChatTyped
<1>16. Runs' /\ OneRun' /\ Appends' /\ Replaces' /\ Saved'
  BY <1>1 DEF ChatGood, Runs, OneRun, Appends, Asks, Tells, Replaces, Saved, Of
<1>17. Lists'
  <2>1. \A b \in Convs : WellMade(Of(b), store[b]) /\ WellMade(Of(b), msgs'[b])
    BY <1>10, <1>11 DEF ChatGood, Lists
  <2> QED BY <1>1, <2>1 DEF Lists, Of
<1>18. Chats'
  BY <1>1, <1>13 DEF ChatGood, Chats, Of
<1>19. Handles'
  <2>1. ac \in Readers \cup {NoReader}
    BY DEF ChatGood, ChatTyped
  <2> QED BY <1>1, <1>13, <2>1 DEF ChatGood, Handles, Off, Free
<1>20. OnScreen'
  <2> SUFFICES ASSUME NEW q \in Readers, ~Off(q)
               PROVE  Shown(q)'
    BY <1>14 DEF OnScreen
  <2>1. q = r
    BY <1>2 DEF ChatGood, Handles
  <2>2. Of(active)' = Of(active)
    BY <1>1 DEF Of
  <2>3. msgs'[active] = u /\ Len(u) > 1 /\ u[Len(u) - 1] = Question(n)
    BY <1>4, <1>10, <1>11 DEF Shown
  <2>4. Last(u).text = t /\ Last(u).role = "assistant"
    BY <1>10, <1>12
  <2>5. /\ reader'[r].conv = active /\ n \in Of(active) /\ ~reader'[r].aborted
        /\ reader'[r].mode = "replace" =>
              /\ answer[n].state # "none"
              /\ \A k \in Of(active) \ (waived \cup {n}) : Whole(k, answer[k], Front(s))
    BY <1>3, <1>4, <1>5, <1>13 DEF Shown
  <2> QED BY <1>1, <1>8, <1>10, <1>13, <2>1, <2>2, <2>3, <2>4, <2>5 DEF Shown, w
<1>21. AtServer'
  <2> SUFFICES ASSUME NEW q \in Readers, ~Off(q)
               PROVE  Begun(q)' /\ Pending(q)'
    BY <1>14 DEF AtServer
  <2>1. Begun(q) /\ Pending(q)
    BY DEF ChatGood, AtServer
  <2> QED BY <1>1, <1>13, <2>1 DEF Begun, Pending
<1>22. ~Free /\ ~Free'
  BY <1>2, <1>14 DEF Free
<1>23. Booting'
  BY <1>1, <1>22 DEF ChatGood, Booting
<1>24. Landing'
  <2> SUFFICES ASSUME ~syncing, NEW b \in listed, NEW i \in 1 .. Len(msgs'[b])
               PROVE  \/ msgs'[b][i].text = <<>>
                      \/ i = Len(msgs'[b]) /\ b = active
                      \/ Lands(store[b], wire, b, msgs'[b][i])
    BY <1>1, <1>22 DEF Landing
  <2>1. b \in Convs
    BY DEF ChatGood, ChatTyped
  <2>2. CASE b # active
    BY <1>10, <1>11, <2>1, <2>2 DEF ChatGood, Landing
  <2>3. CASE b = active /\ i # Len(s)
    <3>1. i \in 1 .. Len(s) - 1 /\ i \in 1 .. Len(s) /\ msgs'[b][i] = s[i]
      BY <1>3, <1>10, <1>11, <2>3
    <3> QED BY <2>3, <3>1 DEF ChatGood, Landing
  <2>4. CASE b = active /\ i = Len(s)
    BY <1>10, <1>11, <2>4
  <2> QED BY <2>2, <2>3, <2>4
<1> QED BY <1>15, <1>16, <1>17, <1>18, <1>19, <1>20, <1>21, <1>23, <1>24 DEF ChatGood

\* A page that reads nothing new is as good as before.
LEMMA ReaderStepKept ==
    ASSUME ChatGood, NEW r \in Readers, ~Off(r), NEW rd \in Calls,
           reader' = [reader EXCEPT ![r] = rd], rd.pc # "off",
           rd.conv = reader[r].conv, rd.mode = reader[r].mode, rd.run = reader[r].run,
           rd.aborted = reader[r].aborted,
           rd.aborted => rd.pc = "broken",
           rd.pc \in {"sent", "reading"} => rd.fresh /\ rd.pos = 0,
           UNCHANGED <<store, filed, answer, current, listed, used, active, msgs, busy, ac,
                       checks, syncing, asked, waived, missed>>,
           wire' \in Seq(Requests), Len(wire') <= Len(wire),
           \A j \in 1 .. Len(wire') : wire'[j] = wire[j],
           Chats', Begun(r)', Pending(r)',
           \A b, m : Lands(store[b], wire, b, m) => Lands(store[b], wire', b, m)
    PROVE  ChatGood'
<1>1. /\ reader' \in [Readers -> Calls] /\ reader'[r] = rd
      /\ \A q \in Readers : q # r => reader'[q] = reader[q]
  BY DEF ChatGood, ChatTyped
<1>2. \A q \in Readers : Off(q)' <=> Off(q)
  BY <1>1 DEF Off
<1>3. Free' <=> Free
  BY <1>2 DEF Free
<1>4. Len(wire') \in Nat /\ \A j \in 1 .. Len(wire') : j \in 1 .. Len(wire)
  BY WireIs DEF ChatGood
<1>5. ChatTyped'
  BY <1>1, <1>4 DEF ChatGood, ChatTyped
<1>6. Runs' /\ Lists' /\ Saved'
  BY DEF ChatGood, Runs, Lists, Saved, Of
<1>7. OneRun'
  <2>1. wire' # <<>> => wire # <<>> /\ wire'[1] = wire[1]
    <3> SUFFICES ASSUME wire' # <<>>
                 PROVE  wire # <<>> /\ wire'[1] = wire[1]
      OBVIOUS
    <3>1. 1 \in 1 .. Len(wire')
      BY <1>4
    <3> QED BY <1>4, <3>1
  <2> QED BY <2>1 DEF ChatGood, OneRun
<1>8. Appends'
  <2> SUFFICES ASSUME NEW j \in 1 .. Len(wire'), wire'[j].op = "append"
               PROVE  \E k \in Of(wire'[j].conv) : Asks(j, k)' \/ Tells(j, k)'
    BY DEF Appends, Of
  <2>1. /\ j \in 1 .. Len(wire) /\ wire'[j] = wire[j] /\ j \in Nat
        /\ 1 \in 1 .. Len(wire') /\ wire'[1] = wire[1]
        /\ \A i \in 1 .. j - 1 : i \in 1 .. Len(wire')
    BY <1>4
  <2>2. PICK k \in Of(wire[j].conv) : Asks(j, k) \/ Tells(j, k)
    BY <2>1 DEF ChatGood, Appends
  <2>3. Asks(j, k) => Asks(j, k)'
    BY <2>1 DEF Asks
  <2>4. Tells(j, k) => Tells(j, k)'
    BY <2>1 DEF Tells
  <2> QED BY <2>1, <2>2, <2>3, <2>4
<1>9. Replaces'
  <2> SUFFICES ASSUME NEW j \in 1 .. Len(wire')
      PROVE  /\ wire'[j].op = "replace" =>
                  /\ WellMade(Of(wire'[j].conv), wire'[j].msgs)
                  /\ \A k \in Of(wire'[j].conv) \ waived : Whole(k, answer[k], wire'[j].msgs)
             /\ wire'[j].op = "delete" => /\ Of(wire'[j].conv) \subseteq waived
                                         /\ wire'[j].conv \notin listed
             /\ wire'[j].op \in {"chat", "stop", "delete"} => wire'[j].msgs = <<>>
    BY DEF Replaces, Of
  <2>1. j \in 1 .. Len(wire) /\ wire'[j] = wire[j]
    BY <1>4
  <2> QED BY <2>1 DEF ChatGood, Replaces
<1>10. Handles'
  <2>1. ac \in Readers \cup {NoReader}
    BY DEF ChatGood, ChatTyped
  <2> QED BY <1>1, <1>2, <1>3, <2>1 DEF ChatGood, Handles, Off
<1>11. \A q \in Readers : ~Off(q) => q = r
  BY ReaderIs
<1>12. OnScreen'
  <2>1. Shown(r)
    BY DEF ChatGood, OnScreen
  <2>2. Shown(r)'
    BY <1>1, <2>1 DEF Shown, Of
  <2> QED BY <1>2, <1>11, <2>2 DEF OnScreen
<1>13. AtServer'
  BY <1>2, <1>11 DEF AtServer
<1>14. Booting'
  BY <1>3 DEF ChatGood, Booting, Free
<1>15. Landing'
  BY <1>3 DEF ChatGood, Landing
<1> QED BY <1>5, <1>6, <1>7, <1>8, <1>9, <1>10, <1>12, <1>13, <1>14, <1>15 DEF ChatGood

\* The request that is dropped with a connection is the last one.
LEMMA UnsentIs ==
    ASSUME ChatGood, NEW r \in Readers, reader[r].pc \in {"sent", "reading"}
    PROVE  /\ reader[r].pc = "sent" => Unsent(wire, reader[r].run) = Front(wire)
           /\ reader[r].pc = "reading" => /\ wire = <<>> /\ Unsent(wire, reader[r].run) = <<>>
                                          /\ answer[reader[r].run].state # "none"
<1> DEFINE n == reader[r].run
           at == {i \in 1 .. Len(wire) : wire[i].op = "chat" /\ wire[i].run = n}
<1>1. ~Off(r)
  BY DEF Off
<1>2. CASE reader[r].pc = "sent"
  <2>1. Len(wire) \in 1 .. Len(wire)
    BY <1>2, SentLast
  <2>2. at = {Len(wire)}
    BY <1>2, <2>1, SentLast
  <2>3. at # {} /\ (CHOOSE i \in at : TRUE) = Len(wire)
    BY <2>2
  <2>4. Unsent(wire, n) = RemoveAt(wire, Len(wire))
    BY <2>3 DEF Unsent
  <2> QED BY <1>2, <2>4, SentLast, WireIs, LastRemoved DEF ChatGood
<1>3. CASE reader[r].pc = "reading"
  <2>1. answer[n].state # "none" /\ reader[r].aborted => reader[r].pc = "broken"
    BY <1>1, <1>3 DEF ChatGood, AtServer, Pending, OnScreen, Shown
  <2>2. wire = <<>>
    BY <1>1, <1>3, <2>1 DEF ChatGood, AtServer, Pending, Begun, OnScreen, Shown
  <2>3. at = {}
    BY <2>2
  <2>4. Unsent(wire, n) = wire
    BY <2>3 DEF Unsent
  <2>5. answer[n].state # "none"
    BY <1>1, <1>3 DEF ChatGood, AtServer, Pending
  <2> QED BY <1>3, <2>2, <2>4, <2>5
<1> QED BY <1>2, <1>3

\* The connection breaks, or dies without a sign of it (p).
LEMMA CutOffKept ==
    ASSUME ChatGood, NEW r \in Readers, reader[r].pc \in {"sent", "reading"},
           NEW p \in {"broken", "hung"},
           reader' = [reader EXCEPT ![r].pc = p],
           wire' = Unsent(wire, reader[r].run),
           UNCHANGED <<store, filed, answer, current, listed, used, active, msgs, busy, ac,
                       checks, syncing, asked, waived, missed>>
    PROVE  ChatGood'
<1> DEFINE n == reader[r].run
           rd == [reader[r] EXCEPT !.pc = p]
<1>1. /\ ~Off(r) /\ reader[r] \in Calls /\ reader \in [Readers -> Calls]
      /\ answer[n].state \in {"none", "going", "done"} /\ n \in Questions /\ asked[n] = active
      /\ Shown(r) /\ Begun(r) /\ Pending(r) /\ ~reader[r].aborted
      /\ wire \in Seq(Requests) /\ Len(wire) \in Nat
  <2>1. ~Off(r)
    BY DEF Off
  <2>2. Shown(r) /\ Begun(r) /\ Pending(r)
    BY <2>1 DEF ChatGood, OnScreen, AtServer
  <2>3. ~reader[r].aborted
    BY <2>2 DEF Shown
  <2> QED BY <2>1, <2>2, <2>3, ReaderIs, WireIs DEF ChatGood, ChatTyped
<1>2. /\ reader' = [reader EXCEPT ![r] = rd] /\ rd \in Calls /\ rd.pc = p
      /\ rd.conv = reader[r].conv /\ rd.mode = reader[r].mode /\ rd.run = n
      /\ rd.aborted = reader[r].aborted
  BY <1>1 DEF Calls
<1>3. reader'[r] = rd
  BY <1>1, <1>2
<1> HIDE DEF rd
<1>4. CASE reader[r].pc = "sent"
  <2>1. /\ wire' = Front(wire) /\ wire # <<>> /\ Len(wire) \in Nat \ {0}
        /\ wire[Len(wire)].op = "chat" /\ wire[Len(wire)].run = n
        /\ wire[Len(wire)].conv = active
        /\ \A i \in 1 .. Len(wire) :
                 wire[i].op = "chat" /\ wire[i].run = n => i = Len(wire)
    BY <1>4, SentLast, UnsentIs
  <2>2. /\ wire' \in Seq(Requests) /\ Len(wire') = Len(wire) - 1 /\ Len(wire') \in Nat
        /\ \A j \in 1 .. Len(wire') : wire'[j] = wire[j] /\ j \in 1 .. Len(wire) - 1
                                      /\ j \in 1 .. Len(wire)
    <3>1. wire' \in Seq(Requests) /\ Len(wire') = Len(wire) - 1
      BY <1>1, <2>1, Fronts
    <3>2. \A j \in 1 .. Len(wire) - 1 : Front(wire)[j] = wire[j]
      BY <1>1, <2>1, Fronts
    <3> QED BY <2>1, <3>1, <3>2
  <2>3. answer[n].state = "none"
    BY <1>1, <1>4 DEF Begun
  <2>4. Last(wire).op = "chat"
    BY <2>1 DEF Last
  <2>5. Chats'
    <3> SUFFICES ASSUME NEW j \in 1 .. Len(wire'), wire'[j].op = "chat"
        PROVE  LET m == wire'[j].run IN
             /\ m \in Of(wire'[j].conv) /\ answer[m].state = "none"
             /\ j < Len(wire') => /\ wire'[j + 1].op = "stop"
                                  /\ wire'[j + 1].conv = wire'[j].conv
                                  /\ m \in waived
             /\ j # Len(wire')
             /\ j = 1 => LastIs(store[wire'[j].conv], Question(m))
             /\ j > 1 => /\ wire'[j - 1].op = "append" /\ wire'[j - 1].conv = wire'[j].conv
                         /\ wire'[j - 1].msgs = <<Question(m)>>
      BY DEF Chats, Of
    <3>1. /\ j \in 1 .. Len(wire) /\ wire'[j] = wire[j] /\ j < Len(wire)
          /\ j < Len(wire') => j + 1 \in 1 .. Len(wire')
          /\ j > 1 => j - 1 \in 1 .. Len(wire')
          /\ j = Len(wire') => j + 1 = Len(wire)
      BY <2>2
    <3>2. wire[j + 1].op = "stop"
      BY <3>1 DEF ChatGood, Chats
    <3>3. j # Len(wire')
      BY <2>1, <3>1, <3>2
    <3> QED BY <2>2, <3>1, <3>3 DEF ChatGood, Chats
  <2>6. Begun(r)'
    BY <1>2, <1>3, <2>3 DEF Begun
  <2>7. Pending(r)'
    <3>1. \A i \in 1 .. Len(wire') : wire'[i].op = "chat" => wire'[i].run # n
      BY <2>1, <2>2
    <3>2. CASE wire' = <<>>
      <4>1. Len(wire) = 1 /\ 1 \in 1 .. Len(wire)
        BY <2>1, <2>2, <3>2
      <4>2. LastIs(store[active], Question(n))
        BY <2>1, <4>1 DEF ChatGood, Chats
      <4>3. \A k \in Questions : answer[k].state # "going"
        BY <2>1, <4>1, NobodyGoes DEF ChatGood
      <4> QED BY <1>2, <1>3, <2>3, <3>1, <3>2, <4>2, <4>3 DEF Pending
    <3>3. CASE wire' # <<>>
      <4>1. /\ Len(wire) > 1 /\ Len(wire) \in 1 .. Len(wire)
            /\ Last(wire') = wire[Len(wire) - 1]
        <5>1. Len(wire') \in Nat \ {0} /\ Last(wire') = wire'[Len(wire')]
          BY <2>2, <3>3, Fronts
        <5>2. Len(wire') \in 1 .. Len(wire')
          BY <5>1
        <5> QED BY <2>1, <2>2, <5>1, <5>2
      <4>2. /\ Last(wire').op = "append" /\ Last(wire').conv = active
            /\ Last(wire').msgs = <<Question(n)>>
        BY <2>1, <4>1 DEF ChatGood, Chats
      <4> QED BY <1>2, <1>3, <2>3, <3>1, <3>3, <4>2 DEF Pending
    <3> QED BY <3>2, <3>3
  <2>8. \A b, m : Lands(store[b], wire, b, m) => Lands(store[b], wire', b, m)
    BY <1>1, <2>1, <2>4, LandsFront
  <2>9. Len(wire') <= Len(wire)
    BY <1>1, <2>2
  <2> QED BY <1>1, <1>2, <2>2, <2>5, <2>6, <2>7, <2>8, <2>9, ReaderStepKept
<1>5. CASE reader[r].pc = "reading"
  <2>1. wire = <<>> /\ wire' = <<>> /\ answer[n].state # "none"
    BY <1>5, UnsentIs
  <2>2. Chats'
    BY <2>1 DEF Chats
  <2>3. Begun(r)' /\ Pending(r)'
    BY <1>1, <1>2, <1>3, <2>1 DEF Begun, Pending
  <2>4. /\ wire' \in Seq(Requests) /\ Len(wire') <= Len(wire)
        /\ \A j \in 1 .. Len(wire') : wire'[j] = wire[j]
        /\ \A b, m : Lands(store[b], wire, b, m) => Lands(store[b], wire', b, m)
    <3>1. wire' = wire
      BY <2>1
    <3> QED BY <1>1, <3>1
  <2> QED BY <1>1, <1>2, <2>2, <2>3, <2>4, ReaderStepKept
<1> QED BY <1>4, <1>5

\* An attempt to reconnect fails,
LEMMA TryFailsKept ==
    ASSUME ChatGood, NEW r \in Readers, TryFails(r)
    PROVE  ChatGood'
<1> DEFINE k == reader[r].tries + 1
           rd == [reader[r] EXCEPT !.tries = k]
<1>1. /\ reader[r].pc = "broken" /\ ~reader[r].aborted /\ reader' = [reader EXCEPT ![r].tries = k]
      /\ UNCHANGED <<store, filed, answer, current, listed, used, active, msgs, busy, ac,
                     checks, syncing, wire, asked, waived, missed>>
  BY DEF TryFails, AnotherTry, server, page, boot
<1>2. /\ ~Off(r) /\ reader[r] \in Calls /\ reader \in [Readers -> Calls] /\ k \in Nat
      /\ Begun(r) /\ Pending(r)
  <2>1. ~Off(r)
    BY <1>1 DEF Off
  <2>2. reader[r] \in Calls /\ reader \in [Readers -> Calls]
    BY DEF ChatGood, ChatTyped
  <2> QED BY <2>1, <2>2 DEF ChatGood, AtServer, Calls
<1> HIDE DEF k
<1>3. /\ reader' = [reader EXCEPT ![r] = rd] /\ rd \in Calls /\ rd.pc = "broken"
      /\ rd.conv = reader[r].conv /\ rd.mode = reader[r].mode /\ rd.run = reader[r].run
      /\ rd.aborted = reader[r].aborted
  BY <1>1, <1>2 DEF Calls
<1>4. reader'[r] = rd
  BY <1>2, <1>3
<1> HIDE DEF rd
<1>5. Begun(r)' /\ Pending(r)'
  BY <1>1, <1>2, <1>3, <1>4 DEF Begun, Pending
<1>6. Chats'
  <2>1. \A q \in Readers : reader[q].pc = "sent" => reader'[q] = reader[q]
    BY <1>1, <1>2
  <2> QED BY <1>1, <2>1 DEF ChatGood, Chats, Of
<1>7. wire' \in Seq(Requests) /\ Len(wire') <= Len(wire) /\ wire' = wire
  BY <1>1, WireIs DEF ChatGood
<1> QED BY <1>1, <1>2, <1>3, <1>5, <1>6, <1>7, ReaderStepKept

\* or finds the run going on and reads it from its first event.
LEMMA TryResumesKept ==
    ASSUME Odds = {}, ChatGood, NEW r \in Readers, TryResumes(r)
    PROVE  ChatGood'
<1> DEFINE n == reader[r].run
           k == reader[r].tries + 1
           rd == [reader[r] EXCEPT !.pc = "reading", !.run = n, !.pos = 0, !.fresh = TRUE,
                                   !.tries = k]
<1>1. /\ reader[r].pc = "broken" /\ ~reader[r].aborted /\ wire = <<>> /\ Active(reader[r].conv)
      /\ reader' = [reader EXCEPT ![r].pc = "reading", ![r].run = current[reader[r].conv],
                                  ![r].pos = 0, ![r].fresh = TRUE, ![r].tries = k]
      /\ UNCHANGED <<store, filed, answer, current, listed, used, active, msgs, busy, ac,
                     checks, syncing, wire, asked, waived, missed>>
  BY DEF TryResumes, AnotherTry, InOrder, server, page, boot, past
<1>2. /\ ~Off(r) /\ reader[r] \in Calls /\ reader \in [Readers -> Calls] /\ k \in Nat
      /\ Begun(r) /\ Pending(r) /\ reader[r].conv = active /\ active \in Convs
      /\ n \in Questions /\ n \in 0 .. MaxAsked
  <2>1. ~Off(r)
    BY <1>1 DEF Off
  <2>2. reader[r] \in Calls /\ reader \in [Readers -> Calls]
    BY DEF ChatGood, ChatTyped
  <2>3. k \in Nat /\ n \in 0 .. MaxAsked
    BY <2>2 DEF Calls
  <2> QED BY <2>1, <2>2, <2>3, ReaderIs DEF ChatGood, AtServer
<1>3. current[active] = n /\ answer[n].state = "going"
  <2>1. current[active] \in Questions /\ answer[current[active]].state = "going"
    BY <1>1, <1>2, OfIs DEF Active, ChatGood, Runs
  <2>2. answer[n].state # "none"
    BY <1>1, <2>1, <1>2 DEF Pending
  <2> QED BY <1>2, <2>1, <2>2 DEF Begun
<1> HIDE DEF k
<1>4. /\ reader' = [reader EXCEPT ![r] = rd] /\ rd \in Calls /\ rd.pc = "reading"
      /\ rd.conv = reader[r].conv /\ rd.mode = reader[r].mode /\ rd.run = n
      /\ rd.aborted = reader[r].aborted /\ rd.fresh /\ rd.pos = 0
  BY <1>1, <1>2, <1>3 DEF Calls
<1>5. reader'[r] = rd
  BY <1>2, <1>4
<1> HIDE DEF rd
<1>6. Begun(r)' /\ Pending(r)'
  BY <1>1, <1>2, <1>3, <1>4, <1>5 DEF Begun, Pending
<1>7. Chats'
  BY <1>1 DEF Chats
<1>8. wire' \in Seq(Requests) /\ Len(wire') <= Len(wire) /\ wire' = wire
  BY <1>1, WireIs DEF ChatGood
<1> QED BY <1>1, <1>2, <1>4, <1>6, <1>7, <1>8, ReaderStepKept

-----------------------------------------------------------------------------
(* The end of a reader *)

\* After the end of a reader the page is free.
LEMMA OverIs ==
    ASSUME ChatGood, NEW r \in Readers, ~Off(r), NEW all, NEW sent, ReadOver(r, all, sent)
    PROVE  /\ reader' \in [Readers -> Calls] /\ \A q \in Readers : Off(q)'
           /\ Free' /\ ~Free /\ ac' = NoReader /\ busy' = NoConv
           /\ checks = {} /\ ~syncing
<1>1. /\ reader' = [reader EXCEPT ![r] = NoRead] /\ busy' = NoConv
      /\ ac' = IF ac = r THEN NoReader ELSE ac
  BY DEF ReadOver
<1>2. reader \in [Readers -> Calls] /\ ac \in Readers \cup {NoReader} /\ Handles
  BY DEF ChatGood, ChatTyped
<1>3. NoRead \in Calls /\ NoRead.pc = "off"
  BY BoundAssumption DEF NoRead, Calls, NoQuestion
<1>4. \A q \in Readers : ~Off(q) => q = r
  BY <1>2 DEF Handles
<1>5. \A q \in Readers : Off(q)'
  BY <1>1, <1>2, <1>3, <1>4 DEF Off
<1>6. ac' = NoReader
  BY <1>1, <1>2, <1>4 DEF Handles
<1>7. ~Free /\ checks = {} /\ ~syncing
  BY <1>2 DEF Free, Handles
<1> QED BY <1>1, <1>2, <1>3, <1>5, <1>6, <1>7 DEF Free

\* What has to be shown of a step by which the page stops to read.
LEMMA FreedKept ==
    ASSUME ChatGood, NEW r \in Readers, ~Off(r), NEW all, NEW sent, ReadOver(r, all, sent),
           UNCHANGED <<store, filed, answer, current, listed, used, active, checks, syncing,
                       asked, missed>>,
           waived \subseteq waived',
           all \in [Convs -> Seq(Messages)], \A b \in Convs \ used : all[b] = <<>>,
           \A b \in Convs : WellMade(Of(b), all[b]),
           wire' \in Seq(Requests), \A j \in 1 .. Len(wire') : wire'[j].conv \in used,
           OneRun', Appends', Replaces', Chats',
           wire' = <<>> => \A k \in Questions : answer[k].state # "going",
           \A b \in listed : \A i \in 1 .. Len(all[b]) :
               all[b][i].text = <<>> \/ Lands(store[b], wire', b, all[b][i])
    PROVE  ChatGood'
<1>1. /\ reader' \in [Readers -> Calls] /\ \A q \in Readers : Off(q)'
      /\ Free' /\ ac' = NoReader /\ busy' = NoConv /\ checks = {} /\ ~syncing
  BY OverIs
<1>2. msgs' = all
  BY DEF ReadOver
<1>3. ChatTyped'
  BY <1>1, <1>2 DEF ChatGood, ChatTyped
<1>4. Runs'
  BY DEF ChatGood, Runs, Of
<1>5. Lists'
  BY <1>2 DEF ChatGood, Lists, Of
<1>6. Handles' /\ OnScreen' /\ AtServer'
  BY <1>1 DEF Handles, OnScreen, AtServer
<1>7. Booting'
  BY <1>1 DEF Booting
<1>8. Saved'
  BY DEF ChatGood, Saved
<1>9. Landing'
  BY <1>1, <1>2 DEF Landing
<1> QED BY <1>3, <1>4, <1>5, <1>6, <1>7, <1>8, <1>9 DEF ChatGood

\* Before its run has begun, a question has no answer.
LEMMA NothingSaid ==
    ASSUME ChatGood, NEW r \in Readers, ~Off(r)
    PROVE  /\ answer[reader[r].run].state = "none" => answer[reader[r].run].events = <<>>
                                                      /\ reader[r].mode = "append"
           /\ answer[reader[r].run].events = <<>> => Last(msgs[active]).text = <<>>
<1> DEFINE n == reader[r].run
           a == answer[n]
           s == msgs[active]
           t == Last(s).text
<1>1. /\ n \in Questions /\ n \in Nat /\ reader[r] \in Calls /\ a.events \in Seq(Nat)
      /\ t \in Texts
  BY ReaderIs
<1>2. Uttered(a) /\ Shown(r)
  BY <1>1 DEF ChatGood, Runs, OnScreen
<1>3. ASSUME a.state = "none"
      PROVE  a.events = <<>> /\ reader[r].mode = "append"
  BY <1>1, <1>2, <1>3 DEF Uttered, Shown, Calls
<1>4. ASSUME a.events = <<>>
      PROVE  t = <<>>
  <2> DEFINE w == AnswerText(n, a.events)
  <2>1. w \in Texts /\ w = <<>> /\ IsPrefix(t, w)
    BY <1>1, <1>2, <1>4, AnswerIs DEF Shown
  <2>2. w \in Texts /\ IsPrefix(t, w)
    BY <2>1
  <2>3. w = <<>>
    BY <2>1
  <2> HIDE DEF w, t
  <2>4. Len(t) <= Len(w) /\ Len(t) \in Nat
    BY <1>1, <2>2, PrefixIs DEF Texts
  <2>5. Len(w) = 0
    BY <2>3
  <2>6. Len(t) = 0
    BY <2>4, <2>5
  <2> QED BY <1>1, <2>6 DEF Texts
<1> QED BY <1>3, <1>4

\* What the page has of an answer fits what the server has.
LEMMA PartTaken ==
    ASSUME ChatGood, NEW r \in Readers, ~Off(r), answer[reader[r].run].state # "none"
    PROVE  LET n == reader[r].run  t == Last(msgs[active]).text IN
           /\ Takes(n, answer[n], store[active], t) /\ ReplyTo(n, t)
           /\ \/ wire = <<>>
              \/ reader[r].aborted /\ Len(wire) = 1 /\ wire[1].op = "stop" /\ wire[1].conv = active
<1> DEFINE n == reader[r].run
           a == answer[n]
           t == Last(msgs[active]).text
           w == AnswerText(n, a.events)
<1>1. /\ n \in Questions /\ n \in Nat /\ a \in Answers /\ t \in Texts /\ asked[n] = active
      /\ a.state \in {"none", "going", "done"}
  BY ReaderIs
<1>2. IsPrefix(t, w) /\ Begun(r) /\ Uttered(a)
  BY <1>1 DEF ChatGood, OnScreen, Shown, AtServer, Runs
<1>3. ReplyTo(n, t)
  BY <1>1, <1>2, AnswerReplies
<1>4. CASE a.state = "going"
  <2>1. LastIs(store[active], Question(n))
    BY <1>1, <1>4 DEF ChatGood, OneRun
  <2> QED BY <1>2, <1>3, <2>1 DEF Takes, Begun
<1>5. CASE a.state = "done"
  BY <1>2, <1>3, <1>5 DEF Takes, Begun
<1> QED BY <1>1, <1>4, <1>5

\* A reply in the place of the one under way takes no finished answer away.
LEMMA RetoldWhole ==
    ASSUME NEW own, NEW n \in Nat, NEW s \in Seq(Messages), NEW t \in Texts, NEW u,
           Len(s) > 1, Retold(own, n, s, t, u)
    PROVE  /\ \A k, a : Whole(k, a, Front(s)) => Whole(k, a, u)
           /\ \A a : (a.state = "done" /\ a.events # <<>> => t = AnswerText(n, a.events))
                         => Whole(n, a, u)
<1>1. /\ u \in Seq(Messages) /\ Len(u) = Len(s) /\ Len(s) \in Nat
      /\ u[Len(s) - 1] = Question(n) /\ u[Len(s)] = Reply(t)
      /\ \A i \in 1 .. Len(s) - 1 : u[i] = s[i]
  BY DEF Retold
<1>2. Len(s) \in 1 .. Len(u) /\ Len(s) - 1 \in 1 .. Len(u)
  BY <1>1
<1>3. Contains(u, Question(n)) /\ Contains(u, Reply(t))
  BY <1>1, <1>2 DEF Contains
<1>4. \A e : Contains(Front(s), e) => Contains(u, e)
  <2>1. s # <<>>
    BY <1>1
  <2> DEFINE f == Front(s)
  <2>2. f \in Seq(Messages) /\ Len(f) = Len(s) - 1 /\ \A i \in 1 .. Len(s) - 1 : f[i] = s[i]
    BY <2>1, Fronts
  <2> HIDE DEF f
  <2>3. \A i \in 1 .. Len(f) : f[i] = u[i] /\ i \in 1 .. Len(u)
    BY <1>1, <2>2
  <2>4. \A e : Contains(f, e) => Contains(u, e)
    BY <2>3 DEF Contains
  <2> QED BY <2>4 DEF f
<1> QED BY <1>3, <1>4 DEF Whole

\* The page stops to read, with the reply t, which it writes: after the requests
\* "sent", which hold one "stop" at most.
LEMMA ToldKept ==
    ASSUME ChatGood, NEW r \in Readers, ~Off(r), NEW t \in Texts, ReplyTo(reader[r].run, t),
           NEW sent \in Seq(Requests), ReadOver(r, Patched(t), sent),
           \/ sent = <<>>
           \/ /\ Len(sent) = 1 /\ sent[1].op = "stop" /\ sent[1].conv = active
              /\ sent[1].msgs = <<>>,
           \A i \in 1 .. Len(wire) : wire[i].op \in {"chat", "stop"},
           UNCHANGED <<store, filed, answer, current, listed, used, active, checks, syncing,
                       asked, missed>>,
           waived \subseteq waived',
           \A k \in Questions : answer[k].state = "going" =>
               k = reader[r].run /\ sent # <<>> /\ k \in waived',
           reader[r].mode = "append" =>
               t # <<>> /\ Takes(reader[r].run, answer[reader[r].run], store[active], t),
           reader[r].mode = "replace" /\ reader[r].run \notin waived'
             /\ answer[reader[r].run].state = "done" /\ answer[reader[r].run].events # <<>>
               => t = AnswerText(reader[r].run, answer[reader[r].run].events)
    PROVE  ChatGood'
<1> DEFINE n == reader[r].run
           s == msgs[active]
           all == Patched(t)
           u == all[active]
           q == IF reader[r].mode = "replace" THEN Req("replace", active, u, NoQuestion)
                                              ELSE Req("append", active, <<Reply(t)>>, NoQuestion)
<1>1. /\ n \in Questions /\ n \in Nat /\ n \in Of(active) /\ asked[n] = active /\ active \in Convs
      /\ active \in used /\ active \in listed /\ reader[r].conv = active
      /\ reader[r].mode \in {"append", "replace"} /\ s \in Seq(Messages) /\ Len(s) \in Nat
      /\ listed \subseteq Convs
  <2>1. active \in listed /\ listed \subseteq Convs
    BY DEF ChatGood, ChatTyped
  <2> QED BY <2>1, ReaderIs DEF Calls
<1>2. /\ Shown(r) /\ Len(s) > 1
      /\ reader[r].mode = "replace" =>
            \A k \in Of(active) \ (waived \cup {n}) : Whole(k, answer[k], Front(s))
  BY DEF ChatGood, OnScreen, Shown
<1>3. /\ Retold(Of(active), n, s, t, u) /\ all \in [Convs -> Seq(Messages)]
      /\ \A b \in Convs : b # active => all[b] = msgs[b]
      /\ \A b \in Convs \ used : all[b] = <<>>
      /\ \A b \in Convs : WellMade(Of(b), all[b])
  BY PatchedIs
<1> HIDE DEF all, n, s
<1>4. /\ u \in Seq(Messages) /\ Len(u) = Len(s) /\ Last(u) = Reply(t) /\ u[Len(u)] = Reply(t)
      /\ \A i \in 1 .. Len(s) - 1 : u[i] = s[i]
      /\ Reply(t) \in Messages /\ Reply(t).text = t /\ Reply(t).role = "assistant"
  BY <1>3, MessageIs DEF Retold
<1>5. /\ q \in Requests /\ q.conv = active /\ q.op = reader[r].mode
      /\ reader[r].mode = "replace" => q.msgs = u
      /\ reader[r].mode = "append" => q.msgs = <<Reply(t)>>
  <2>1. <<Reply(t)>> \in Seq(Messages)
    BY <1>4
  <2>2. NoQuestion \in 0 .. MaxAsked
    BY BoundAssumption DEF NoQuestion
  <2> HIDE DEF u
  <2> QED BY <1>1, <1>4, <2>1, <2>2 DEF Req, Requests
<1>6. wire' = sent \o <<q>>
  <2>1. wire' = sent \o Keeps(r, u)
    BY DEF ReadOver, all
  <2>2. EndsInReply(u)
    <3>1. u # <<>>
      BY <1>2, <1>4
    <3> QED BY <1>4, <3>1 DEF EndsInReply
  <2> HIDE DEF u
  <2>3. Keeps(r, u) = <<q>>
    BY <1>1, <1>4, <2>2 DEF Keeps
  <2> QED BY <2>1, <2>3
<1> HIDE DEF u, q
<1>7. /\ wire' \in Seq(Requests) /\ Len(wire') = Len(sent) + 1 /\ Len(sent) \in 0 .. 1
      /\ wire'[Len(sent) + 1] = q /\ wire' # <<>> /\ wire' = Append(sent, q)
      /\ \A i \in 1 .. Len(sent) : wire'[i] = sent[i]
  <2>1. Len(sent) \in 0 .. 1
    BY DEF ChatGood
  <2> QED BY <1>5, <1>6, <2>1, Appended1
<1>8. /\ \A j \in 1 .. Len(wire') :
            \/ j = Len(sent) + 1 /\ wire'[j] = q
            \/ j = 1 /\ Len(wire') = 2 /\ sent # <<>> /\ wire'[j] = sent[1]
      /\ sent # <<>> => /\ Len(wire') = 2 /\ wire'[1] = sent[1] /\ sent[1].op = "stop"
                        /\ sent[1].conv = active /\ sent[1].msgs = <<>>
      /\ sent = <<>> => Len(sent) = 0
  <2>1. sent = <<>> => Len(sent) = 0
    OBVIOUS
  <2>2. sent # <<>> => Len(sent) = 1 /\ Len(wire') = 2 /\ wire'[1] = sent[1]
    BY <1>7
  <2>3. \A j \in 1 .. Len(wire') : j = Len(sent) + 1 \/ (j = 1 /\ Len(sent) = 1)
    BY <1>7
  <2> QED BY <1>7, <2>1, <2>2, <2>3
<1>9. OneRun'
  <2>1. \A k \in Questions : answer[k].state = "going" =>
           k = n /\ wire'[1].op = "stop" /\ wire'[1].conv = active /\ k \in waived'
    BY <1>8 DEF n
  <2> QED BY <1>1, <2>1 DEF ChatGood, OneRun
<1>10. Appends'
  <2> SUFFICES ASSUME NEW j \in 1 .. Len(wire'), wire'[j].op = "append"
               PROVE  \E k \in Of(wire'[j].conv) : Asks(j, k)' \/ Tells(j, k)'
    BY DEF Appends, Of
  <2>1. j = Len(sent) + 1 /\ wire'[j] = q /\ reader[r].mode = "append"
    BY <1>5, <1>8
  <2>2. j = 1 \/ (j = 2 /\ wire'[1].op = "stop" /\ wire'[1].conv = wire'[j].conv)
    BY <1>5, <1>7, <1>8, <2>1
  <2>3. Takes(n, answer[n], store[active], t) /\ t # <<>> /\ ReplyTo(n, t)
    BY <2>1 DEF n
  <2>4. wire'[j].conv = active /\ wire'[j].msgs = <<Reply(t)>>
    BY <1>5, <2>1
  <2>5. PICK k \in Of(active) : k = n
    BY <1>1
  <2>6. \E x \in Texts : /\ wire'[j].msgs = <<Reply(x)>> /\ x # <<>> /\ ReplyTo(k, x)
                        /\ Takes(k, answer[k], store[wire'[j].conv], x)
    BY <2>3, <2>4, <2>5
  <2>7. Tells(j, k)'
    BY <2>2, <2>6 DEF Tells
  <2> QED BY <2>4, <2>5, <2>7
<1>11. Replaces'
  <2> SUFFICES ASSUME NEW j \in 1 .. Len(wire')
      PROVE  /\ wire'[j].op = "replace" =>
                  /\ WellMade(Of(wire'[j].conv), wire'[j].msgs)
                  /\ \A k \in Of(wire'[j].conv) \ waived' : Whole(k, answer[k], wire'[j].msgs)
             /\ wire'[j].op = "delete" => /\ Of(wire'[j].conv) \subseteq waived'
                                         /\ wire'[j].conv \notin listed
             /\ wire'[j].op \in {"chat", "stop", "delete"} => wire'[j].msgs = <<>>
    BY DEF Replaces, Of
  <2>1. CASE wire'[j] = sent[1] /\ sent # <<>>
    BY <1>8, <2>1
  <2>2. CASE wire'[j] = q /\ reader[r].mode = "append"
    BY <1>5, <2>2
  <2>3. CASE wire'[j] = q /\ reader[r].mode = "replace"
    <3>1. WellMade(Of(active), u)
      BY <1>3 DEF Retold
    <3>2. /\ \A k, a : Whole(k, a, Front(s)) => Whole(k, a, u)
          /\ \A a : (a.state = "done" /\ a.events # <<>> => t = AnswerText(n, a.events))
                         => Whole(n, a, u)
      BY <1>1, <1>2, <1>3, RetoldWhole
    <3>3. \A k \in Of(active) \ waived' : Whole(k, answer[k], u)
      <4> SUFFICES ASSUME NEW k \in Of(active) \ waived'
                   PROVE  Whole(k, answer[k], u)
        OBVIOUS
      <4>1. CASE k = n
        BY <2>3, <3>2, <4>1 DEF n
      <4>2. CASE k # n
        BY <1>2, <2>3, <3>2, <4>2
      <4> QED BY <4>1, <4>2
    <3> QED BY <1>5, <2>3, <3>1, <3>3
  <2> QED BY <1>1, <1>8, <2>1, <2>2, <2>3
<1>12. Chats'
  <2>1. \A j \in 1 .. Len(wire') : wire'[j].op # "chat"
    BY <1>1, <1>5, <1>8
  <2> QED BY <2>1 DEF Chats
<1>13. \A j \in 1 .. Len(wire') : wire'[j].conv \in used
  BY <1>1, <1>5, <1>8
<1>14. ASSUME NEW b \in listed, NEW i \in 1 .. Len(all[b])
       PROVE  all[b][i].text = <<>> \/ Lands(store[b], wire', b, all[b][i])
  <2>1. b \in Convs
    BY <1>1
  <2>2. ~syncing
    BY OverIs
  <2>3. CASE b # active
    <3>1. SUFFICES ASSUME msgs[b][i].text # <<>>, i \in 1 .. Len(msgs[b])
                   PROVE  Lands(store[b], wire', b, msgs[b][i])
      BY <1>3, <2>1, <2>3
    <3>2. Lands(store[b], wire, b, msgs[b][i])
      BY <2>2, <2>3, <3>1 DEF ChatGood, Landing
    <3>3. Covers(store[b], msgs[b][i])
      BY <3>2, WireIs, LandsNow DEF ChatGood
    <3>4. \A j \in 1 .. Len(wire') : Spares(wire'[j], b, msgs[b][i])
      BY <1>5, <1>8, <2>3 DEF Spares
    <3> QED BY <1>7, <3>3, <3>4, LandsHere
  <2>4. CASE b = active /\ reader[r].mode = "replace"
    <3>1. i \in 1 .. Len(u) /\ all[b][i] = u[i]
      BY <2>4 DEF u
    <3>2. Covers(u, u[i])
      BY <1>4, <3>1, CoversItself
    <3>3. Brings(q, b, u[i])
      BY <1>5, <2>4, <3>2 DEF Brings
    <3> QED BY <1>5, <1>7, <3>1, <3>3, LandsNew
  <2>5. CASE b = active /\ reader[r].mode = "append"
    <3>1. i \in 1 .. Len(u) /\ all[b][i] = u[i]
      BY <2>5 DEF u
    <3>2. CASE i = Len(u)
      <4> DEFINE m == Reply(t)
                 one == <<m>>
      <4>1. one \in Seq(Messages) /\ 1 \in 1 .. Len(one) /\ one[1] = m
        BY <1>4
      <4> HIDE DEF one
      <4>2. Covers(one, m)
        BY <4>1, CoversItself
      <4>3. Brings(q, b, m)
        BY <1>5, <2>5, <4>2 DEF Brings, one
      <4> QED BY <1>4, <1>5, <1>7, <3>1, <3>2, <4>3, LandsNew
    <3>3. CASE i # Len(u)
      <4>1. /\ i \in 1 .. Len(s) - 1 /\ i \in 1 .. Len(s) /\ i # Len(s)
        BY <1>1, <1>4, <3>1, <3>3
      <4>2. u[i] = s[i]
        BY <1>4, <4>1
      <4>3. \/ s[i].text = <<>>
            \/ Lands(store[b], wire, b, s[i])
        BY <1>1, <2>2, <2>5, <4>1 DEF ChatGood, Landing, s
      <4>4. ASSUME Lands(store[b], wire, b, s[i]) PROVE Lands(store[b], wire', b, s[i])
        <5>1. Covers(store[b], s[i])
          BY <4>4, WireIs, LandsNow DEF ChatGood
        <5>2. \A j \in 1 .. Len(wire') : Spares(wire'[j], b, s[i])
          BY <1>5, <1>8, <2>5 DEF Spares
        <5> QED BY <1>7, <5>1, <5>2, LandsHere
      <4> QED BY <3>1, <4>2, <4>3, <4>4
    <3> QED BY <3>2, <3>3
  <2> QED BY <1>1, <2>3, <2>4, <2>5
<1> HIDE DEF all
<1>15. ReadOver(r, all, sent)
  BY DEF all
<1> QED BY <1>3, <1>7, <1>9, <1>10, <1>11, <1>12, <1>13, <1>14, <1>15, FreedKept

\* The page stops to read before the answer has begun, and writes nothing.
LEMMA BlankIs ==
    ASSUME ChatGood, NEW r \in Readers, ~Off(r), reader[r].mode = "append",
           Last(msgs[active]).text = <<>>, NEW sent \in Seq(Requests),
           ReadOver(r, msgs, sent)
    PROVE  wire' = sent
<1>1. wire' = sent \o Keeps(r, msgs[active])
  BY DEF ReadOver
<1>2. Keeps(r, msgs[active]) = <<>>
  BY DEF Keeps
<1>3. sent \o <<>> = sent
  OBVIOUS
<1> QED BY <1>1, <1>2, <1>3

\* ... and this keeps the invariant, if the requests do.
LEMMA BlankKept ==
    ASSUME ChatGood, NEW r \in Readers, ~Off(r), reader[r].mode = "append",
           Last(msgs[active]).text = <<>>, NEW sent, ReadOver(r, msgs, sent),
           UNCHANGED <<store, filed, answer, current, listed, used, active, checks, syncing,
                       asked, missed>>,
           waived \subseteq waived',
           wire' \in Seq(Requests), \A j \in 1 .. Len(wire') : wire'[j].conv \in used,
           OneRun', Appends', Replaces', Chats',
           wire' = <<>> => \A k \in Questions : answer[k].state # "going",
           \A b, m : Lands(store[b], wire, b, m) => Lands(store[b], wire', b, m)
    PROVE  ChatGood'
<1>1. /\ msgs \in [Convs -> Seq(Messages)] /\ \A b \in Convs \ used : msgs[b] = <<>>
      /\ \A b \in Convs : WellMade(Of(b), msgs[b])
  BY DEF ChatGood, ChatTyped, Lists
<1>2. ASSUME NEW b \in listed, NEW i \in 1 .. Len(msgs[b])
      PROVE  msgs[b][i].text = <<>> \/ Lands(store[b], wire', b, msgs[b][i])
  <2>1. ~syncing /\ msgs[active][Len(msgs[active])] = Last(msgs[active])
    BY OverIs, ReaderIs
  <2>2. \/ msgs[b][i].text = <<>>
        \/ i = Len(msgs[b]) /\ b = active
        \/ Lands(store[b], wire, b, msgs[b][i])
    BY <2>1 DEF ChatGood, Landing
  <2> QED BY <2>1, <2>2
<1> QED BY <1>1, <1>2, FreedKept

\* The reader ends, with its answer or because it was stopped in its sleep.
LEMMA ReaderEndsKept ==
    ASSUME ChatGood, NEW r \in Readers, ReadOver(r, msgs, wire),
           UNCHANGED <<store, filed, answer, current, listed, used, active, checks, syncing,
                       asked, waived, missed>>,
           \/ /\ reader[r].pc = "reading" /\ answer[reader[r].run].state = "done"
              /\ reader[r].pos = Len(answer[reader[r].run].events)
           \/ reader[r].pc = "broken" /\ reader[r].aborted
    PROVE  ChatGood'
<1> DEFINE n == reader[r].run
           s == msgs[active]
           t == Last(s).text
           ev == answer[n].events
<1>1. ~Off(r)
  BY DEF Off
<1>2. /\ n \in Questions /\ n \in Nat /\ n \in Of(active) /\ reader[r] \in Calls /\ t \in Texts
      /\ ev \in Seq(Nat) /\ asked[n] = active /\ answer[n].state \in {"none", "going", "done"}
      /\ Shown(r) /\ Begun(r) /\ Pending(r) /\ reader[r].mode \in {"append", "replace"}
      /\ wire \in Seq(Requests)
      /\ reader[r].aborted => n \in waived
  <2>1. Shown(r) /\ Begun(r) /\ Pending(r)
    BY <1>1 DEF ChatGood, OnScreen, AtServer
  <2>2. reader[r].aborted => n \in waived
    BY <2>1 DEF Shown
  <2> QED BY <1>1, <2>1, <2>2, ReaderIs, WireIs DEF ChatGood, Calls
<1>3. \A k \in Questions : answer[k].state = "going" =>
         /\ wire # <<>> /\ reader[r].aborted
         /\ answer[n].state # "none" => k = n
  BY <1>2 DEF Begun, Pending
<1>4. CASE reader[r].mode = "append" /\ t = <<>>
  <2>1. wire' = wire
    BY <1>1, <1>2, <1>4, BlankIs
  <2>2. Chats'
    <3>1. \A q \in Readers : reader[q].pc # "sent"
      BY <1>1, ReaderIs DEF Off
    <3> QED BY <2>1, <3>1 DEF ChatGood, Chats, Of
  <2>3. OneRun' /\ Appends' /\ Replaces'
    BY <2>1 DEF ChatGood, OneRun, Appends, Asks, Tells, Replaces, Of
  <2>4. wire' \in Seq(Requests) /\ \A j \in 1 .. Len(wire') : wire'[j].conv \in used
    BY <2>1, WireIs DEF ChatGood
  <2> QED BY <1>1, <1>3, <1>4, <2>1, <2>2, <2>3, <2>4, BlankKept
<1>5. CASE reader[r].mode = "replace" \/ t # <<>>
  <2>1. answer[n].state # "none"
    BY <1>1, <1>5, NothingSaid
  <2>2. /\ Takes(n, answer[n], store[active], t) /\ ReplyTo(n, t)
        /\ \/ wire = <<>>
           \/ reader[r].aborted /\ Len(wire) = 1 /\ wire[1].op = "stop" /\ wire[1].conv = active
    BY <1>1, <2>1, PartTaken
  <2>3. Patched(t) = msgs
    BY <1>1, <1>2, <2>2, PatchedIs
  <2>4. /\ \/ wire = <<>>
           \/ /\ Len(wire) = 1 /\ wire[1].op = "stop" /\ wire[1].conv = active
              /\ wire[1].msgs = <<>>
        /\ \A i \in 1 .. Len(wire) : wire[i].op \in {"chat", "stop"}
    <3>1. CASE wire = <<>>
      BY <3>1
    <3>2. CASE Len(wire) = 1 /\ wire[1].op = "stop" /\ wire[1].conv = active
      <4>1. wire[1].msgs = <<>>
        BY <3>2 DEF ChatGood, Replaces
      <4> QED BY <3>2, <4>1
    <3> QED BY <2>2, <3>1, <3>2
  <2>5. \A k \in Questions : answer[k].state = "going" => k = n /\ wire # <<>> /\ k \in waived
    BY <1>2, <1>3, <2>1
  <2>6. ASSUME n \notin waived, answer[n].state = "done", ev # <<>>
        PROVE  t = AnswerText(n, ev)
    <3> DEFINE w == AnswerText(n, ev)
    <3>1. ~reader[r].aborted /\ reader[r].pc = "reading" /\ reader[r].pos = Len(ev)
      BY <1>2, <2>6
    <3>2. w \in Texts /\ Len(w) = Len(ev) /\ IsPrefix(t, w)
      BY <1>2, AnswerIs DEF Shown
    <3>3. Len(ev) # 0
      BY <1>2, <2>6
    <3>4. Len(t) = Len(ev)
      BY <1>2, <3>1, <3>3 DEF Shown
    <3> HIDE DEF t, w
    <3>5. \A i \in 1 .. Len(t) : t[i] = w[i]
      BY <1>2, <3>2, PrefixIs DEF Texts
    <3>6. Len(t) = Len(w) /\ t \in Seq(Nat \X Nat) /\ w \in Seq(Nat \X Nat)
      BY <1>2, <3>2, <3>4 DEF Texts
    <3>7. t = w
      BY <3>5, <3>6, SeqEqual
    <3> QED BY <3>7 DEF w
  <2> HIDE DEF t, s
  <2> QED BY <1>1, <1>2, <1>5, <2>2, <2>3, <2>4, <2>5, <2>6, ToldKept
<1> QED BY <1>2, <1>4, <1>5

\* The answer has been read to its end.
LEMMA ReadEndsKept ==
    ASSUME ChatGood, NEW r \in Readers, ReadEnds(r)
    PROVE  ChatGood'
  BY ReaderEndsKept DEF ReadEnds, server, boot, past

\* The reader wakes up and sees that it was stopped.
LEMMA AwakesKept ==
    ASSUME ChatGood, NEW r \in Readers, Awakes(r)
    PROVE  ChatGood'
  BY ReaderEndsKept DEF Awakes, AnotherTry, server, boot, past

\* The run is over. The page takes what is stored, or says that it is lost.
LEMMA TryPullsKept ==
    ASSUME Odds = {}, ChatGood, NEW r \in Readers, TryPulls(r), ~missed'
    PROVE  ChatGood'
<1> DEFINE n == reader[r].run
           s == msgs[active]
           ev == answer[n].events
           kept == store[active]
           lost == Extended(<<n, Gone>>)
           line == << <<n, Gone>> >>
           all == IF EndsInReply(kept) /\ Last(kept).text # <<>> THEN Patched(Last(kept).text)
                                                                 ELSE lost
<1>0. reader[r].pc = "broken"
  BY DEF TryPulls, AnotherTry
<1>1. ~Off(r)
  BY <1>0 DEF Off
<1>2. /\ n \in Questions /\ n \in Nat /\ n \in Of(active) /\ reader[r] \in Calls
      /\ Last(s).text \in Texts /\ reader[r].conv = active /\ active \in Convs
      /\ ev \in Seq(Nat) /\ asked[n] = active /\ answer[n].state \in {"none", "going", "done"}
      /\ Begun(r) /\ Pending(r) /\ reader[r].mode \in {"append", "replace"}
      /\ kept \in Seq(Messages) /\ Uttered(answer[n]) /\ answer[n] \in Answers
  <2>1. Begun(r) /\ Pending(r)
    BY <1>1 DEF ChatGood, AtServer
  <2>2. n \in Questions /\ active \in Convs
    BY <1>1, ReaderIs
  <2>3. kept \in Seq(Messages) /\ Uttered(answer[n])
    BY <2>2 DEF ChatGood, ChatTyped, Runs
  <2> QED BY <1>1, <2>1, <2>3, ReaderIs DEF Calls
<1>3. /\ ~reader[r].aborted /\ wire = <<>> /\ ~Active(active)
      /\ UNCHANGED <<store, filed, answer, current, listed, used, active, checks, syncing,
                     asked, waived>>
      /\ ReadOver(r, all, wire) /\ missed' = missed
  BY <1>2 DEF TryPulls, AnotherTry, InOrder, Misses, server, boot
<1>4. \A k \in Questions : answer[k].state # "going"
  <2> SUFFICES ASSUME NEW k \in Questions, answer[k].state = "going"
               PROVE  FALSE
    OBVIOUS
  <2>1. answer[n].state # "none"
    BY <1>0, <1>2, <1>3 DEF Pending
  <2>2. k = n
    BY <1>2, <2>1 DEF Begun
  <2>3. current[active] = n
    BY <1>2, <2>2 DEF ChatGood, OneRun
  <2>4. current[active] # NoQuestion
    BY <1>2, <2>3 DEF Questions, NoQuestion
  <2> QED BY <1>3, <2>2, <2>3, <2>4 DEF Active
<1>5. ev = <<>> => LastIs(kept, Question(n))
  BY <1>0, <1>2, <1>3, <1>4 DEF Begun, Pending
<1>6. ev # <<>> => Answered(n, answer[n], kept) /\ answer[n].state = "done"
  BY <1>2, <1>4 DEF Begun, Uttered
<1>7. wire \in Seq(Requests) /\ \A i \in 1 .. Len(wire) : wire[i].op \in {"chat", "stop"}
  BY <1>3, WireIs DEF ChatGood
<1>8. CASE ev # <<>>
  <2> DEFINE t == AnswerText(n, ev)
  <2>1. t \in Texts /\ t # <<>>
    BY <1>2, <1>8, AnswerIs
  <2>2. Last(kept) = Reply(t) /\ kept # <<>>
    BY <1>2, <1>6, <1>8 DEF Answered
  <2> HIDE DEF t
  <2>3. EndsInReply(kept) /\ Last(kept).text = t
    BY <2>1, <2>2, MessageIs DEF EndsInReply
  <2>4. ReadOver(r, Patched(t), wire)
    BY <1>3, <2>1, <2>3
  <2>5. IsPrefix(t, t)
    BY <2>1, PrefixIs DEF Texts
  <2>6. ReplyTo(n, t)
    BY <1>2, <2>1, <2>5, AnswerReplies DEF t
  <2>7. Takes(n, answer[n], kept, t)
    BY <1>6, <1>8, <2>5 DEF Takes, t
  <2>8. t = AnswerText(n, ev)
    BY DEF t
  <2> QED BY <1>1, <1>2, <1>3, <1>4, <1>7, <2>1, <2>4, <2>6, <2>7, <2>8, ToldKept
<1>9. CASE ev = <<>>
  <2>1. ~EndsInReply(kept)
    BY <1>2, <1>5, <1>9, MessageIs DEF EndsInReply, LastIs
  <2>2. line \in Lost(n)
    BY DEF Lost
  <2>3. ReplyTo(n, line) /\ line \in Texts /\ line # <<>>
    BY <1>2, <2>2, LostReply
  <2>4. Last(s).text = <<>>
    BY <1>1, <1>9, NothingSaid
  <2>5. LastText = Last(s).text
    BY <1>1, <2>3, PatchedIs
  <2>6. lost = Patched(line)
    <3>1. \A x : Append(<<>>, x) = <<x>>
      OBVIOUS
    <3> QED BY <2>4, <2>5, <3>1 DEF Extended
  <2>7. ReadOver(r, Patched(line), wire)
    BY <1>3, <2>1, <2>6
  <2>8. Takes(n, answer[n], kept, line)
    BY <1>2, <1>4, <1>5, <1>9, <2>2 DEF Takes
  <2> HIDE DEF line
  <2> QED BY <1>1, <1>2, <1>3, <1>4, <1>7, <1>9, <2>3, <2>7, <2>8, ToldKept
<1> QED BY <1>8, <1>9

\* The question is refused: it stays in the transcript, with a line on it.
LEMMA ChatRefusedKept ==
    ASSUME Odds = {}, ChatGood, ChatRefused
    PROVE  ChatGood'
<1>1. PICK i \in Arriving("chat"), r \in Readers :
        /\ reader[r].pc = "sent" /\ reader[r].run = wire[i].run
        /\ ReadOver(r, Extended(<<wire[i].run, Refused>>), RemoveAt(wire, i))
        /\ UNCHANGED <<server, listed, used, active, boot, past>>
  BY DEF ChatRefused
<1> DEFINE n == reader[r].run
           line == << <<n, Refused>> >>
           kept == store[active]
<1>2. /\ ~Off(r) /\ i = 1 /\ wire # <<>> /\ wire[1].op = "chat" /\ 1 \in 1 .. Len(wire)
      /\ Len(wire) = 1 /\ wire[1].run = n /\ wire[1].conv = active
      /\ UNCHANGED <<store, filed, answer, current, listed, used, active, checks, syncing,
                     asked, waived, missed>>
  <2>1. ~Off(r)
    BY <1>1 DEF Off
  <2>2. i = 1 /\ wire # <<>> /\ wire[1].op = "chat" /\ 1 \in 1 .. Len(wire)
    BY <1>1, FirstArrives DEF ChatGood
  <2>3. 1 = Len(wire) /\ wire[Len(wire)].conv = active
    BY <1>1, <2>2, SentLast
  <2> QED BY <1>1, <2>1, <2>2, <2>3 DEF server, boot, past
<1>3. /\ n \in Questions /\ n \in Nat /\ reader[r] \in Calls /\ answer[n].state = "none"
      /\ answer[n].events = <<>> /\ reader[r].mode = "append"
      /\ Last(msgs[active]).text = <<>>
  <2>1. answer[n].state = "none"
    BY <1>1, <1>2 DEF ChatGood, AtServer, Begun
  <2> QED BY <1>2, <2>1, ReaderIs, NothingSaid
<1>4. RemoveAt(wire, 1) = <<>> /\ <<>> \in Seq(Requests)
  <2> DEFINE u == RemoveAt(wire, 1)
  <2>1. u \in Seq(Requests) /\ Len(u) = Len(wire) - 1
    BY <1>2, WireIs, FirstRemoved DEF ChatGood
  <2> HIDE DEF u
  <2>2. Len(u) = 0
    BY <1>2, <2>1
  <2>3. u = <<>>
    BY <2>1, <2>2
  <2> QED BY <2>3 DEF u
<1>5. line \in Lost(n)
  BY DEF Lost
<1>6. ReplyTo(n, line) /\ line \in Texts /\ line # <<>>
  BY <1>3, <1>5, LostReply
<1>7. Extended(<<n, Refused>>) = Patched(line)
  <2>1. LastText = Last(msgs[active]).text
    BY <1>2, <1>6, PatchedIs
  <2>2. \A x : Append(<<>>, x) = <<x>>
    OBVIOUS
  <2> QED BY <1>3, <2>1, <2>2 DEF Extended
<1>8. ReadOver(r, Patched(line), <<>>)
  BY <1>1, <1>2, <1>4, <1>7
<1>9. LastIs(kept, Question(n))
  BY <1>2 DEF ChatGood, Chats
<1>10. Takes(n, answer[n], kept, line)
  BY <1>3, <1>5, <1>9 DEF Takes
<1>11. \A k \in Questions : answer[k].state # "going"
  BY <1>2, NobodyGoes DEF ChatGood
<1>12. \A j \in 1 .. Len(wire) : wire[j].op \in {"chat", "stop"}
  BY <1>2
<1> HIDE DEF line
<1> QED BY <1>2, <1>3, <1>4, <1>6, <1>8, <1>10, <1>11, <1>12, ToldKept

-----------------------------------------------------------------------------
(* The user stops the answer *)

StopOf(c) == Req("stop", c, <<>>, NoQuestion)

\* The request to stop is on its way, that of the reader r may be dropped (w is
\* what was on its way before).
LEMMA StopAdded ==
    ASSUME ChatGood, NEW r \in Readers, ~Off(r), ~reader[r].aborted, NEW w,
           w = wire \/ (reader[r].pc = "sent" /\ w = Front(wire)),
           wire' = Append(w, StopOf(active)),
           UNCHANGED <<store, answer, current, listed, used, asked>>,
           waived \subseteq waived', reader[r].run \in waived'
    PROVE  /\ wire' \in Seq(Requests) /\ wire' # <<>>
           /\ \A j \in 1 .. Len(wire') : wire'[j].conv \in used
           /\ OneRun' /\ Appends' /\ Replaces' /\ Chats'
           /\ \A b, m : Lands(store[b], wire, b, m) => Lands(store[b], wire', b, m)
<1> DEFINE n == reader[r].run
           x == StopOf(active)
           len == Len(w)
<1>1. /\ n \in Questions /\ n \in Nat /\ n \in Of(active) /\ asked[n] = active /\ active \in Convs
      /\ active \in used /\ answer[n].state \in {"none", "going", "done"}
      /\ Begun(r) /\ Pending(r) /\ wire \in Seq(Requests) /\ Len(wire) \in Nat
      /\ \A q \in Readers : ~Off(q) => q = r
  BY ReaderIs, WireIs DEF ChatGood, AtServer
<1>2. x \in Requests /\ x.op = "stop" /\ x.conv = active /\ x.msgs = <<>>
  <2>1. NoQuestion \in 0 .. MaxAsked /\ <<>> \in Seq(Messages)
    BY BoundAssumption DEF NoQuestion
  <2> QED BY <1>1, <2>1 DEF StopOf, Req, Requests
<1>3. reader[r].pc = "sent" =>
         /\ wire # <<>> /\ wire[Len(wire)].op = "chat" /\ Last(wire).op = "chat"
         /\ Front(wire) \in Seq(Requests) /\ Len(Front(wire)) = Len(wire) - 1
         /\ \A i \in 1 .. Len(wire) - 1 : Front(wire)[i] = wire[i] /\ i \in 1 .. Len(wire)
  BY <1>1, SentLast, Fronts DEF Last
<1>4. /\ w \in Seq(Requests) /\ len \in Nat /\ len <= Len(wire)
      /\ \A j \in 1 .. len : w[j] = wire[j] /\ j \in 1 .. Len(wire)
      /\ \/ w = wire /\ len = Len(wire)
         \/ /\ reader[r].pc = "sent" /\ len = Len(wire) - 1 /\ wire # <<>>
            /\ wire[Len(wire)].op = "chat" /\ Last(wire).op = "chat" /\ w = Front(wire)
  <2>1. CASE w = wire
    BY <1>1, <2>1
  <2>2. CASE reader[r].pc = "sent" /\ w = Front(wire)
    <3>1. w \in Seq(Requests) /\ len = Len(wire) - 1 /\ len \in Nat
      BY <1>3, <2>2
    <3>2. \A j \in 1 .. len : w[j] = wire[j] /\ j \in 1 .. Len(wire)
      BY <1>3, <2>2, <3>1
    <3> QED BY <1>1, <1>3, <2>2, <3>1, <3>2
  <2> QED BY <2>1, <2>2
<1> HIDE DEF x
<1>5. /\ wire' = Append(w, x) /\ wire' \in Seq(Requests) /\ Len(wire') = len + 1 /\ wire' # <<>>
      /\ wire'[len + 1] = x /\ \A j \in 1 .. len : wire'[j] = w[j] /\ j \in 1 .. Len(wire')
  <2>1. wire' = Append(w, x)
    BY DEF x
  <2> QED BY <1>2, <1>4, <2>1, Appended1
<1>6. /\ \A j \in 1 .. Len(wire') :
            \/ j = len + 1 /\ wire'[j] = x
            \/ j \in 1 .. len /\ wire'[j] = wire[j] /\ j \in 1 .. Len(wire) /\ j # len + 1
  <2>1. \A j \in 1 .. Len(wire') : j = len + 1 \/ (j \in 1 .. len /\ j # len + 1)
    BY <1>4, <1>5
  <2> QED BY <1>4, <1>5, <2>1
<1>7. \A j \in 1 .. Len(wire') : wire'[j].conv \in used
  BY <1>1, <1>2, <1>6, WireIs DEF ChatGood
<1>8. OneRun'
  <2> SUFFICES ASSUME NEW k \in Questions, answer[k].state = "going"
               PROVE  wire'[1].op = "stop" /\ wire'[1].conv = asked[k] /\ k \in waived'
    BY DEF ChatGood, OneRun
  <2>1. CASE len = 0
    <3>1. wire'[1] = x
      BY <1>5, <2>1
    <3>2. w = wire
      <4> SUFFICES ASSUME wire # <<>>, len = Len(wire) - 1, wire[Len(wire)].op = "chat"
                   PROVE  FALSE
        BY <1>4
      <4>1. Len(wire) = 1
        BY <1>1, <2>1
      <4>2. wire[1].op = "chat"
        BY <4>1
      <4> QED BY <4>2, NobodyGoes DEF ChatGood
    <3>3. wire = <<>>
      BY <1>4, <2>1, <3>2
    <3>4. k = n
      BY <1>1, <3>3 DEF Begun, Pending
    <3> QED BY <1>1, <1>2, <3>1, <3>4
  <2>2. CASE len # 0
    <3>1. 1 \in 1 .. len /\ wire # <<>>
      BY <1>1, <1>4, <2>2
    <3>2. wire'[1] = wire[1]
      BY <1>4, <1>5, <3>1
    <3> QED BY <3>1, <3>2 DEF ChatGood, OneRun
  <2> QED BY <2>1, <2>2
<1>9. Appends'
  <2> SUFFICES ASSUME NEW j \in 1 .. Len(wire'), wire'[j].op = "append"
               PROVE  \E k \in Of(wire'[j].conv) : Asks(j, k)' \/ Tells(j, k)'
    BY DEF Appends, Of
  <2>1. j \in 1 .. len /\ wire'[j] = wire[j] /\ j \in 1 .. Len(wire)
    BY <1>2, <1>6
  <2>2. /\ \A i \in 1 .. j - 1 : wire'[i] = wire[i]
        /\ 1 \in 1 .. len /\ wire'[1] = wire[1]
    <3>1. 1 \in 1 .. len /\ \A i \in 1 .. j - 1 : i \in 1 .. len
      BY <1>4, <2>1
    <3> QED BY <1>4, <1>5, <3>1
  <2>3. PICK k \in Of(wire[j].conv) : Asks(j, k) \/ Tells(j, k)
    BY <2>1 DEF ChatGood, Appends
  <2>4. Asks(j, k) => Asks(j, k)'
    BY <2>1, <2>2 DEF Asks
  <2>5. Tells(j, k) => Tells(j, k)'
    BY <2>1, <2>2 DEF Tells
  <2> QED BY <2>1, <2>3, <2>4, <2>5
<1>10. Replaces'
  <2> SUFFICES ASSUME NEW j \in 1 .. Len(wire')
      PROVE  /\ wire'[j].op = "replace" =>
                  /\ WellMade(Of(wire'[j].conv), wire'[j].msgs)
                  /\ \A k \in Of(wire'[j].conv) \ waived' : Whole(k, answer[k], wire'[j].msgs)
             /\ wire'[j].op = "delete" => /\ Of(wire'[j].conv) \subseteq waived'
                                         /\ wire'[j].conv \notin listed
             /\ wire'[j].op \in {"chat", "stop", "delete"} => wire'[j].msgs = <<>>
    BY DEF Replaces, Of
  <2>1. CASE wire'[j] = x
    BY <1>2, <2>1
  <2>2. CASE wire'[j] = wire[j] /\ j \in 1 .. Len(wire)
    BY <2>2 DEF ChatGood, Replaces
  <2> QED BY <1>6, <2>1, <2>2
<1>11. Chats'
  <2> SUFFICES ASSUME NEW j \in 1 .. Len(wire'), wire'[j].op = "chat"
      PROVE  LET m == wire'[j].run IN
             /\ m \in Of(wire'[j].conv) /\ answer[m].state = "none"
             /\ wire'[j + 1].op = "stop" /\ wire'[j + 1].conv = wire'[j].conv
             /\ m \in waived' /\ j # Len(wire')
             /\ j = 1 => LastIs(store[wire'[j].conv], Question(m))
             /\ j > 1 => /\ wire'[j - 1].op = "append" /\ wire'[j - 1].conv = wire'[j].conv
                         /\ wire'[j - 1].msgs = <<Question(m)>>
    BY DEF Chats, Of
  <2>1. j \in 1 .. len /\ wire'[j] = wire[j] /\ j \in 1 .. Len(wire) /\ j \in Nat
    BY <1>2, <1>6
  <2> DEFINE m == wire[j].run
             c == wire[j].conv
  <2>2. /\ m \in Of(c) /\ answer[m].state = "none"
        /\ j < Len(wire) => wire[j + 1].op = "stop" /\ wire[j + 1].conv = c /\ m \in waived
        /\ j = Len(wire) => \E q \in Readers : reader[q].pc = "sent" /\ reader[q].run = m
        /\ j = 1 => LastIs(store[c], Question(m))
        /\ j > 1 => /\ wire[j - 1].op = "append" /\ wire[j - 1].conv = c
                    /\ wire[j - 1].msgs = <<Question(m)>>
    BY <2>1 DEF ChatGood, Chats
  <2>3. j > 1 => wire'[j - 1] = wire[j - 1]
    <3>1. j > 1 => j - 1 \in 1 .. len
      BY <1>4, <2>1
    <3> QED BY <1>4, <1>5, <3>1
  <2>4. wire'[j + 1].op = "stop" /\ wire'[j + 1].conv = c /\ m \in waived'
    <3>1. CASE j < len
      <4>1. j + 1 \in 1 .. len /\ j < Len(wire)
        BY <1>1, <1>4, <2>1, <3>1
      <4> QED BY <1>4, <1>5, <2>2, <4>1
    <3>2. CASE j = len /\ w = wire /\ len = Len(wire)
      <4>1. m = n
        BY <1>1, <2>2, <3>2 DEF Off
      <4>2. c = active
        BY <1>1, <2>2, <4>1, OfIs DEF ChatGood
      <4> QED BY <1>2, <1>5, <3>2, <4>1, <4>2
    <3>3. CASE j = len /\ len = Len(wire) - 1 /\ wire[Len(wire)].op = "chat"
      <4>1. j < Len(wire) /\ j + 1 = Len(wire)
        BY <1>1, <1>4, <3>3
      <4> QED BY <2>2, <3>3, <4>1
    <3>4. j < len \/ j = len
      BY <1>4, <2>1
    <3> QED BY <1>4, <3>1, <3>2, <3>3, <3>4
  <2>5. j # Len(wire')
    BY <1>4, <1>5, <2>1
  <2> QED BY <2>1, <2>2, <2>3, <2>4, <2>5
<1>12. ASSUME NEW b, NEW m, Lands(store[b], wire, b, m)
       PROVE  Lands(store[b], wire', b, m)
  <2>1. Lands(store[b], w, b, m)
    BY <1>1, <1>4, <1>12, LandsFront
  <2>2. Spares(x, b, m)
    BY <1>2 DEF Spares
  <2> QED BY <1>2, <1>4, <1>5, <2>1, <2>2, LandsMore
<1> QED BY <1>5, <1>7, <1>8, <1>9, <1>10, <1>11, <1>12

\* The "stop" is not what a dropped connection takes off the wire.
LEMMA UnsentStop ==
    ASSUME ChatGood, NEW r \in Readers, ~Off(r), ~reader[r].aborted
    PROVE  LET all == Append(wire, StopOf(active))
               rest == Unsent(all, reader[r].run)
           IN  \/ rest = all
               \/ reader[r].pc = "sent" /\ rest = Append(Front(wire), StopOf(active))
<1> DEFINE n == reader[r].run
           x == StopOf(active)
           all == Append(wire, x)
           len == Len(wire)
           at == {i \in 1 .. Len(all) : all[i].op = "chat" /\ all[i].run = n}
<1>1. /\ wire \in Seq(Requests) /\ len \in Nat /\ Begun(r) /\ Pending(r) /\ active \in Convs
      /\ answer[n].state \in {"none", "going", "done"}
  BY ReaderIs, WireIs DEF ChatGood, AtServer
<1>2. x \in Requests /\ x.op = "stop"
  <2>1. NoQuestion \in 0 .. MaxAsked /\ <<>> \in Seq(Messages)
    BY BoundAssumption DEF NoQuestion
  <2> QED BY <1>1, <2>1 DEF StopOf, Req, Requests
<1> HIDE DEF x
<1>3. /\ all \in Seq(Requests) /\ Len(all) = len + 1 /\ all[len + 1] = x
      /\ \A i \in 1 .. len : all[i] = wire[i]
  BY <1>1, <1>2, Appended1
<1> HIDE DEF all
<1>4. \A i \in 1 .. Len(all) : i \in 1 .. len \/ i = len + 1
  BY <1>1, <1>3
<1>5. CASE reader[r].pc # "sent"
  <2>1. \A i \in 1 .. len : wire[i].op = "chat" => wire[i].run # n
    <3>1. CASE answer[n].state = "none"
      BY <1>1, <1>5, <3>1 DEF Pending
    <3>2. CASE answer[n].state # "none"
      BY <1>1, <3>2 DEF Begun
    <3> QED BY <3>1, <3>2
  <2>2. at = {}
    BY <1>2, <1>3, <1>4, <2>1
  <2>3. Unsent(all, n) = all
    BY <2>2 DEF Unsent
  <2> QED BY <2>3 DEF all, x
<1>6. CASE reader[r].pc = "sent"
  <2>1. /\ len \in Nat \ {0} /\ wire # <<>> /\ wire[len].op = "chat" /\ wire[len].run = n
        /\ \A i \in 1 .. len : wire[i].op = "chat" /\ wire[i].run = n => i = len
    BY <1>6, SentLast
  <2>2. len \in 1 .. Len(all) /\ len \in 1 .. len
    BY <1>3, <2>1
  <2>3. at = {len}
    BY <1>2, <1>3, <1>4, <2>1, <2>2
  <2>4. at # {} /\ (CHOOSE i \in at : TRUE) = len
    BY <2>3
  <2>5. Unsent(all, n) = RemoveAt(all, len)
    BY <2>4 DEF Unsent
  <2> DEFINE f == Front(wire)
             k == len - 1
             a == SubSeq(all, 1, k)
             b == SubSeq(all, len + 1, len + 1)
  <2>6. /\ f \in Seq(Requests) /\ Len(f) = k /\ \A i \in 1 .. k : f[i] = wire[i]
    BY <1>1, <2>1, Fronts
  <2>7. k \in Nat /\ k \in Int /\ \A i \in 1 .. k : i \in 1 .. len /\ i \in 1 .. Len(all)
    BY <1>3, <2>1
  <2> HIDE DEF f, k
  <2>8. a \in Seq(Requests) /\ Len(a) = k /\ \A i \in 1 .. k : a[i] = all[i]
    <3>1. \A i \in 1 .. k : all[i] \in Requests
      BY <1>3, <2>7
    <3> QED BY <2>7, <3>1, SubSeqProperties
  <2> HIDE DEF a
  <2>9. a = f
    <3>1. \A i \in 1 .. k : a[i] = f[i]
      BY <1>3, <2>6, <2>7, <2>8
    <3> QED BY <2>6, <2>8, <3>1, SeqEqual
  <2>10. b = <<x>>
    <3>1. len + 1 \in 1 .. Len(all) /\ len + 1 \in Nat
      BY <1>1, <1>3
    <3> DEFINE j == len + 1
    <3>2. j \in 1 .. Len(all) /\ all[j] = x
      BY <1>3, <3>1
    <3> HIDE DEF j
    <3>3. j \in Int /\ j \in Nat /\ \A i \in j .. j : all[i] \in Requests
      BY <1>3, <3>2
    <3> DEFINE d == SubSeq(all, j, j)
    <3>4. /\ d \in Seq(Requests) /\ Len(d) = IF j <= j THEN j - j + 1 ELSE 0
          /\ \A i \in 1 .. j - j + 1 : d[i] = all[j + i - 1]
      BY <3>3, SubSeqProperties
    <3> HIDE DEF d
    <3>5. Len(d) = 1 /\ d[1] = all[j]
      <4>1. j <= j /\ j - j + 1 = 1 /\ 1 \in 1 .. j - j + 1 /\ j + 1 - 1 = j
        BY <3>3
      <4> QED BY <3>4, <4>1
    <3>6. d = <<all[j]>>
      BY <3>4, <3>5
    <3> QED BY <3>2, <3>6 DEF d, j
  <2>11. RemoveAt(all, len) = a \o b
    <3>1. RemoveAt(all, len) = SubSeq(all, 1, len - 1) \o SubSeq(all, len + 1, Len(all))
      BY DEF RemoveAt
    <3> QED BY <1>3, <3>1 DEF a, k
  <2>12. f \o <<x>> = Append(f, x)
    BY <1>2, <2>6
  <2> QED BY <1>6, <2>5, <2>9, <2>10, <2>11, <2>12 DEF f, all, x
<1> QED BY <1>5, <1>6

\* The user stops the answer, in each state that its reader can be in.
LEMMA StopAnswerKept ==
    ASSUME ChatGood, StopAnswer
    PROVE  ChatGood'
<1> DEFINE n == reader[ac].run
           s == msgs[active]
           t == Last(s).text
           sent == Append(wire, StopOf(active))
<1>1. /\ busy = active /\ ac \in Readers /\ ~Off(ac) /\ ~reader[ac].aborted
      /\ checks = {} /\ ~syncing
  <2>1. busy # NoConv /\ busy = active
    BY DEF StopAnswer, BusyHere
  <2>2. ac \in Readers \cup {NoReader} /\ Handles
    BY DEF ChatGood, ChatTyped
  <2> QED BY <2>1, <2>2 DEF Handles, Free
<1>2. /\ waived \subseteq waived' /\ n \in waived'
      /\ IF reader[ac].pc = "broken"
         THEN /\ wire' = sent /\ busy' = NoConv /\ ac' = NoReader
              /\ reader' = [reader EXCEPT ![ac].aborted = TRUE]
              /\ UNCHANGED msgs
         ELSE ReadOver(ac, msgs, sent) \/ ReadOver(ac, msgs, Unsent(sent, n))
      /\ UNCHANGED <<store, filed, answer, current, listed, used, active, checks, syncing,
                     asked, missed>>
  <2>1. ac # NoReader
    BY <1>1, ConvAssumption
  <2>2. sent = Append(wire, Req("stop", busy, <<>>, NoQuestion))
    BY <1>1 DEF StopOf
  <2> HIDE DEF sent
  <2> QED BY <2>1, <2>2 DEF StopAnswer, server, boot
<1>3. /\ n \in Questions /\ n \in Nat /\ n \in Of(active) /\ asked[n] = active /\ active \in Convs
      /\ reader[ac] \in Calls /\ t \in Texts /\ wire \in Seq(Requests) /\ Len(wire) \in Nat
      /\ answer[n].state \in {"none", "going", "done"}
      /\ Shown(ac) /\ Begun(ac) /\ Pending(ac) /\ \A q \in Readers : ~Off(q) => q = ac
      /\ reader[ac].mode \in {"append", "replace"} /\ reader \in [Readers -> Calls]
  <2>1. Shown(ac) /\ Begun(ac) /\ Pending(ac) /\ reader \in [Readers -> Calls]
    BY <1>1 DEF ChatGood, OnScreen, AtServer, ChatTyped
  <2> QED BY <1>1, <2>1, ReaderIs, WireIs DEF ChatGood, Calls
<1>4. CASE reader[ac].pc = "broken"
  <2>1. /\ wire' = sent /\ busy' = NoConv /\ ac' = NoReader /\ msgs' = msgs
        /\ reader' = [reader EXCEPT ![ac].aborted = TRUE]
    BY <1>2, <1>4
  <2>2. /\ wire' \in Seq(Requests) /\ wire' # <<>>
        /\ \A j \in 1 .. Len(wire') : wire'[j].conv \in used
        /\ OneRun' /\ Appends' /\ Replaces' /\ Chats'
        /\ \A b, m : Lands(store[b], wire, b, m) => Lands(store[b], wire', b, m)
    BY <1>1, <1>2, <2>1, StopAdded
  <2>3. PICK r \in Readers : r = ac
    BY <1>1
  <2>4. /\ reader' \in [Readers -> Calls] /\ \A q \in Readers : q # r => reader'[q] = reader[q]
        /\ reader'[r] = [reader[r] EXCEPT !.aborted = TRUE]
        /\ reader'[r].aborted /\ reader'[r].pc = "broken" /\ reader'[r].conv = reader[r].conv
        /\ reader'[r].run = reader[r].run /\ reader'[r].mode = reader[r].mode
    BY <1>3, <1>4, <2>1, <2>3 DEF Calls
  <2>5. \A q \in Readers : Off(q)' <=> Off(q)
    BY <1>4, <2>3, <2>4 DEF Off
  <2>6. ~Free /\ ~Free'
    BY <1>1, <2>5 DEF Free
  <2>7. ChatTyped'
    BY <1>2, <2>1, <2>2, <2>4 DEF ChatGood, ChatTyped
  <2>8. Runs' /\ Lists'
    BY <1>2, <2>1 DEF ChatGood, Runs, Lists, Of
  <2>9. Saved'
    BY <1>2 DEF ChatGood, Saved
  <2>10. Handles'
    <3>1. \A q \in Readers : ~Off(q) => q = r
      BY <1>3, <2>3
    <3> QED BY <1>1, <1>2, <2>1, <2>4, <2>5, <3>1 DEF Handles
  <2>11. Shown(r)'
    <3>1. /\ Shown(r) /\ Of(active)' = Of(active) /\ reader[r].run \in waived'
      BY <1>2, <1>3, <2>3 DEF Of
    <3> QED BY <1>2, <2>1, <2>4, <3>1 DEF Shown
  <2>12. Begun(r)'
    <3> SUFFICES ASSUME answer[reader[r].run].state # "none"
                 PROVE  Begun(r)'
      BY <1>2, <2>4 DEF Begun
    <3>1. Begun(r) /\ wire = <<>>
      BY <1>1, <1>3, <2>3 DEF Begun
    <3>2. Len(wire') = 1 /\ wire'[1].op = "stop" /\ wire'[1].conv = active
      BY <2>1, <3>1 DEF StopOf, Req
    <3> QED BY <1>2, <2>1, <2>2, <2>4, <3>1, <3>2 DEF Begun
  <2>13. Pending(r)'
    <3> SUFFICES ASSUME answer[reader[r].run].state = "none"
                 PROVE  Pending(r)'
      BY <1>2, <2>4 DEF Pending
    <3>1. \A i \in 1 .. Len(wire) : wire[i].op = "chat" => wire[i].run # reader[r].run
      BY <1>3, <1>4, <2>3 DEF Pending
    <3>2. \A i \in 1 .. Len(wire') : wire'[i].op = "chat" => wire'[i].run # reader[r].run
      <4> DEFINE x == StopOf(active)
      <4>1. x.op = "stop" /\ wire' = Append(wire, x)
        BY <2>1 DEF StopOf, Req
      <4> HIDE DEF x
      <4>2. \A i \in 1 .. Len(wire') : wire'[i] = x \/ (i \in 1 .. Len(wire) /\ wire'[i] = wire[i])
        BY <1>3, <4>1
      <4> QED BY <3>1, <4>1, <4>2
    <3> QED BY <1>2, <2>2, <2>4, <3>2 DEF Pending
  <2>14. OnScreen' /\ AtServer'
    BY <1>3, <2>3, <2>5, <2>11, <2>12, <2>13 DEF OnScreen, AtServer
  <2>15. Booting'
    BY <1>1, <1>2, <2>6 DEF Booting
  <2>16. Landing'
    BY <1>2, <2>1, <2>2, <2>6 DEF ChatGood, Landing
  <2> QED BY <2>2, <2>7, <2>8, <2>9, <2>10, <2>14, <2>15, <2>16 DEF ChatGood
<1>5. CASE reader[ac].pc # "broken"
  <2>1. PICK w : /\ w = wire \/ (reader[ac].pc = "sent" /\ w = Front(wire))
                 /\ ReadOver(ac, msgs, Append(w, StopOf(active)))
    <3>1. CASE ReadOver(ac, msgs, sent)
      BY <3>1
    <3>2. CASE ReadOver(ac, msgs, Unsent(sent, n))
      BY <1>1, <3>2, UnsentStop
    <3> QED BY <1>2, <1>5, <3>1, <3>2
  <2> DEFINE out == Append(w, StopOf(active))
  <2>2. ReadOver(ac, msgs, out)
    BY <2>1
  <2>3. CASE reader[ac].mode = "append" /\ t = <<>>
    <3>1. out \in Seq(Requests)
      <4>1. StopOf(active) \in Requests
        <5>1. NoQuestion \in 0 .. MaxAsked /\ <<>> \in Seq(Messages)
          BY BoundAssumption DEF NoQuestion
        <5> QED BY <1>3, <5>1 DEF StopOf, Req, Requests
      <4>2. w \in Seq(Requests)
        <5>1. reader[ac].pc = "sent" => wire # <<>>
          BY <1>1, SentLast
        <5>2. wire # <<>> => Front(wire) \in Seq(Requests)
          BY <1>3, Fronts
        <5> QED BY <1>3, <2>1, <5>1, <5>2
      <4> QED BY <4>1, <4>2
    <3> HIDE DEF out
    <3>2. wire' = out
      BY <1>1, <2>2, <2>3, <3>1, BlankIs
    <3>3. wire' = Append(w, StopOf(active))
      BY <3>2 DEF out
    <3>4. /\ wire' \in Seq(Requests) /\ wire' # <<>>
          /\ \A j \in 1 .. Len(wire') : wire'[j].conv \in used
          /\ OneRun' /\ Appends' /\ Replaces' /\ Chats'
          /\ \A b, m : Lands(store[b], wire, b, m) => Lands(store[b], wire', b, m)
      BY <1>1, <1>2, <2>1, <3>3, StopAdded
    <3> QED BY <1>1, <1>2, <2>2, <2>3, <3>4, BlankKept
  <2>4. CASE reader[ac].mode = "replace" \/ t # <<>>
    <3>1. answer[n].state # "none"
      BY <1>1, <2>4, NothingSaid
    <3>2. /\ Takes(n, answer[n], store[active], t) /\ ReplyTo(n, t) /\ wire = <<>>
      BY <1>1, <3>1, PartTaken
    <3>3. Patched(t) = msgs
      BY <1>1, <1>3, <3>2, PatchedIs
    <3>4. w = <<>>
      BY <1>3, <2>1, <3>1, <3>2 DEF Begun
    <3>5. out = <<StopOf(active)>>
      BY <3>4
    <3>6. /\ out \in Seq(Requests) /\ Len(out) = 1 /\ out[1].op = "stop" /\ out[1].conv = active
          /\ out[1].msgs = <<>> /\ out # <<>>
      <4> DEFINE x == StopOf(active)
      <4>1. x \in Requests /\ x.op = "stop" /\ x.conv = active /\ x.msgs = <<>>
        <5>1. NoQuestion \in 0 .. MaxAsked /\ <<>> \in Seq(Messages)
          BY BoundAssumption DEF NoQuestion
        <5> QED BY <1>3, <5>1 DEF StopOf, Req, Requests
      <4>2. out = <<x>>
        BY <3>5
      <4> HIDE DEF x, out
      <4> QED BY <4>1, <4>2
    <3> HIDE DEF out
    <3>7. \A k \in Questions : answer[k].state = "going" => k = n /\ out # <<>> /\ k \in waived'
      BY <1>2, <1>3, <3>1, <3>6 DEF Begun
    <3>8. \A i \in 1 .. Len(wire) : wire[i].op \in {"chat", "stop"}
      BY <3>2
    <3> HIDE DEF t, s
    <3> QED BY <1>1, <1>2, <1>3, <2>2, <2>4, <3>2, <3>3, <3>6, <3>7, <3>8, ToldKept
  <2> QED BY <1>3, <2>3, <2>4
<1> QED BY <1>4, <1>5

-----------------------------------------------------------------------------
(* The user does something else *)

\* A free page is not busy.
LEMMA FreeIs ==
    ASSUME ChatGood, Free
    PROVE  ac = NoReader /\ busy = NoConv /\ \A r \in Readers : reader[r].pc # "sent"
<1>1. ac \in Readers \cup {NoReader} /\ Handles
  BY DEF ChatGood, ChatTyped
<1>2. ac = NoReader
  BY <1>1 DEF Handles, Free
<1> QED BY <1>1, <1>2 DEF Handles, Free, Off

\* When the user acts and nothing is on its way, no run goes on.
LEMMA SettledIs ==
    ASSUME Odds = {}, ChatGood, Settled
    PROVE  /\ Free /\ checks = {} /\ ~syncing /\ ~missed /\ ac = NoReader /\ busy = NoConv
           /\ \A r \in Readers : reader[r].pc # "sent"
           /\ wire = <<>> => \A n \in Questions : answer[n].state # "going"
<1>1. Free /\ checks = {} /\ ~syncing /\ ~missed
  BY DEF Settled
<1>2. wire = <<>> => \A n \in Questions : answer[n].state # "going"
  BY <1>1 DEF ChatGood, Booting
<1> QED BY <1>1, <1>2, FreeIs

\* What stays of the invariant while the page reads nothing.
LEMMA StaysFree ==
    ASSUME Odds = {}, ChatGood, Settled, UNCHANGED <<busy, ac, reader>>
    PROVE  Handles' /\ OnScreen' /\ AtServer' /\ Free'
<1>1. Free /\ checks = {} /\ ~syncing /\ ac = NoReader /\ busy = NoConv
  BY SettledIs
<1>2. Free' /\ \A r \in Readers : Off(r)'
  BY <1>1 DEF Free, Off
<1> QED BY <1>1, <1>2 DEF Handles, OnScreen, AtServer

\* A new conversation has an id that was never used.
LEMMA NewKept ==
    ASSUME Odds = {}, ChatGood, New
    PROVE  ChatGood'
<1>1. PICK d \in Convs \ used :
        listed' = listed \cup {d} /\ used' = used \cup {d} /\ active' = d
  BY DEF New
<1>2. /\ Settled
      /\ UNCHANGED <<store, filed, answer, current, msgs, busy, ac, reader, checks, syncing,
                     wire, asked, waived, missed>>
  BY DEF New, server, link, boot, past
<1>3. /\ Free /\ checks = {} /\ ~syncing
      /\ wire = <<>> => \A n \in Questions : answer[n].state # "going"
  BY <1>2, SettledIs
<1>4. Handles' /\ OnScreen' /\ AtServer' /\ Free'
  BY <1>2, StaysFree
<1>5. ChatTyped'
  <2>1. ChatTyped
    BY DEF ChatGood
  <2>2. IsFiniteSet(listed \cup {d})
    BY <2>1, FS_AddElement DEF ChatTyped
  <2>3. asked \in Seq(used \cup {d})
    BY <2>1 DEF ChatTyped
  <2> QED BY <1>1, <1>2, <1>3, <2>1, <2>2, <2>3 DEF ChatTyped
<1>6. Runs' /\ OneRun' /\ Lists' /\ Appends' /\ Chats' /\ Saved'
  BY <1>2 DEF ChatGood, Runs, OneRun, Lists, Appends, Asks, Tells, Chats, Saved, Of
<1>7. Replaces'
  <2>1. \A j \in 1 .. Len(wire) : wire[j].conv # d
    BY WireIs DEF ChatGood
  <2> QED BY <1>1, <1>2, <2>1 DEF ChatGood, Replaces, Of
<1>8. Booting'
  BY <1>2, <1>3 DEF Booting
<1>9. Landing'
  <2>1. msgs[d] = <<>>
    BY DEF ChatGood, ChatTyped
  <2>2. Len(msgs[d]) = 0
    BY <2>1
  <2>3. \A c \in listed : \A i \in 1 .. Len(msgs[c]) :
           msgs[c][i].text = <<>> \/ Lands(store[c], wire, c, msgs[c][i])
    BY <1>3 DEF ChatGood, Landing
  <2> QED BY <1>1, <1>2, <1>4, <2>2, <2>3 DEF Landing
<1> QED BY <1>4, <1>5, <1>6, <1>7, <1>8, <1>9 DEF ChatGood

\* Another conversation is opened while the page is free.
LEMMA SelectKept ==
    ASSUME Odds = {}, ChatGood, NEW c \in Convs, Select(c)
    PROVE  ChatGood'
<1>1. /\ c \in listed /\ Settled /\ busy = NoConv /\ active' = c
      /\ checks' = IF busy = c THEN checks ELSE checks \cup {c}
      /\ UNCHANGED <<store, filed, answer, current, listed, used, msgs, busy, ac, reader, syncing,
                     wire, asked, waived, missed>>
  BY DEF Select, server, link, past
<1>2. /\ Free /\ checks = {} /\ ~syncing
      /\ wire = <<>> => \A n \in Questions : answer[n].state # "going"
  BY <1>1, SettledIs
<1>3. checks' = {c}
  BY <1>1, <1>2, ConvAssumption
<1>4. Handles' /\ OnScreen' /\ AtServer' /\ Free'
  BY <1>1, StaysFree
<1>5. ChatTyped'
  BY <1>1, <1>3 DEF ChatGood, ChatTyped
<1>6. Runs' /\ OneRun' /\ Lists' /\ Appends' /\ Chats' /\ Saved' /\ Replaces'
  BY <1>1 DEF ChatGood, Runs, OneRun, Lists, Appends, Asks, Tells, Chats, Saved, Replaces, Of
<1>7. Booting'
  BY <1>1, <1>2, <1>3 DEF Booting
<1>8. Landing'
  BY <1>1, <1>2, <1>4 DEF ChatGood, Landing
<1> QED BY <1>4, <1>5, <1>6, <1>7, <1>8 DEF ChatGood

\* A request that removes a conversation, or all that was said in it.
LEMMA RemovalAdded ==
    ASSUME Odds = {}, ChatGood, Settled, NEW q \in Requests, q.conv \in used, q.msgs = <<>>,
           q.op \in {"replace", "delete"}, wire' = Append(wire, q),
           Of(q.conv) \subseteq waived', waived \subseteq waived',
           UNCHANGED <<store, answer, current, asked, reader>>,
           \A b \in used : b \in listed' => b \in listed,
           q.op = "delete" => q.conv \notin listed'
    PROVE  /\ wire' \in Seq(Requests) /\ wire' # <<>>
           /\ \A j \in 1 .. Len(wire') : wire'[j].conv \in used
           /\ OneRun' /\ Appends' /\ Replaces' /\ Chats' /\ Saved'
           /\ \A b, m : b # q.conv /\ Lands(store[b], wire, b, m) => Lands(store[b], wire', b, m)
<1>1. wire \in Seq(Requests) /\ Len(wire) \in Nat
  BY WireIs DEF ChatGood
<1>2. /\ wire' \in Seq(Requests) /\ wire' # <<>> /\ Len(wire') = Len(wire) + 1
      /\ wire'[Len(wire) + 1] = q /\ \A j \in 1 .. Len(wire) : wire'[j] = wire[j]
  BY <1>1, Appended1
<1>3. \A j \in 1 .. Len(wire') :
         \/ j = Len(wire) + 1 /\ wire'[j] = q
         \/ j \in 1 .. Len(wire) /\ wire'[j] = wire[j]
  <2>1. \A j \in 1 .. Len(wire') : j = Len(wire) + 1 \/ j \in 1 .. Len(wire)
    BY <1>1, <1>2
  <2> QED BY <1>2, <2>1
<1>4. \A j \in 1 .. Len(wire') : wire'[j].conv \in used
  BY <1>3, WireIs DEF ChatGood
<1>5. OneRun'
  <2> SUFFICES ASSUME NEW k \in Questions, answer[k].state = "going"
               PROVE  wire'[1].op = "stop" /\ wire'[1].conv = asked[k] /\ k \in waived
    BY DEF ChatGood, OneRun
  <2>1. wire # <<>>
    BY SettledIs
  <2>2. 1 \in 1 .. Len(wire)
    BY <1>1, <2>1
  <2> QED BY <1>2, <2>1, <2>2 DEF ChatGood, OneRun
<1>6. Appends'
  <2> SUFFICES ASSUME NEW j \in 1 .. Len(wire'), wire'[j].op = "append"
               PROVE  \E k \in Of(wire'[j].conv) : Asks(j, k)' \/ Tells(j, k)'
    BY DEF Appends, Of
  <2>1. wire'[j] = wire[j] /\ j \in 1 .. Len(wire)
    BY <1>3
  <2>2. /\ \A i \in 1 .. j - 1 : wire'[i] = wire[i]
        /\ wire'[1] = wire[1]
    <3>1. 1 \in 1 .. Len(wire) /\ \A i \in 1 .. j - 1 : i \in 1 .. Len(wire)
      BY <1>1, <2>1
    <3> QED BY <1>2, <3>1
  <2>3. PICK k \in Of(wire[j].conv) : Asks(j, k) \/ Tells(j, k)
    BY <2>1 DEF ChatGood, Appends
  <2>4. Asks(j, k) => Asks(j, k)'
    BY <2>1, <2>2 DEF Asks
  <2>5. Tells(j, k) => Tells(j, k)'
    BY <2>1, <2>2 DEF Tells
  <2> QED BY <2>1, <2>3, <2>4, <2>5
<1>7. Replaces'
  <2> SUFFICES ASSUME NEW j \in 1 .. Len(wire')
      PROVE  /\ wire'[j].op = "replace" =>
                  /\ WellMade(Of(wire'[j].conv), wire'[j].msgs)
                  /\ \A k \in Of(wire'[j].conv) \ waived' : Whole(k, answer[k], wire'[j].msgs)
             /\ wire'[j].op = "delete" => /\ Of(wire'[j].conv) \subseteq waived'
                                         /\ wire'[j].conv \notin listed'
             /\ wire'[j].op \in {"chat", "stop", "delete"} => wire'[j].msgs = <<>>
    BY DEF Replaces, Of
  <2>1. CASE wire'[j] = q
    BY <2>1, NothingMade
  <2>2. CASE wire'[j] = wire[j] /\ j \in 1 .. Len(wire)
    BY <2>2, WireIs DEF ChatGood, Replaces
  <2> QED BY <1>3, <2>1, <2>2
<1>8. Chats'
  <2> SUFFICES ASSUME NEW j \in 1 .. Len(wire'), wire'[j].op = "chat"
      PROVE  LET m == wire'[j].run IN
             /\ m \in Of(wire'[j].conv) /\ answer[m].state = "none"
             /\ wire'[j + 1].op = "stop" /\ wire'[j + 1].conv = wire'[j].conv
             /\ m \in waived' /\ j # Len(wire')
             /\ j = 1 => LastIs(store[wire'[j].conv], Question(m))
             /\ j > 1 => /\ wire'[j - 1].op = "append" /\ wire'[j - 1].conv = wire'[j].conv
                         /\ wire'[j - 1].msgs = <<Question(m)>>
    BY DEF Chats, Of
  <2>1. wire'[j] = wire[j] /\ j \in 1 .. Len(wire)
    BY <1>3
  <2>2. j # Len(wire)
    BY <2>1, SettledIs DEF ChatGood, Chats
  <2>3. /\ j < Len(wire) /\ j + 1 \in 1 .. Len(wire) /\ j # Len(wire')
        /\ j > 1 => j - 1 \in 1 .. Len(wire)
    BY <1>1, <1>2, <2>1, <2>2
  <2> QED BY <1>2, <2>1, <2>3 DEF ChatGood, Chats
<1>9. Saved'
  BY DEF ChatGood, Saved
<1>10. ASSUME NEW b, NEW m, b # q.conv, Lands(store[b], wire, b, m)
       PROVE  Lands(store[b], wire', b, m)
  BY <1>1, <1>10, LandsMore DEF Spares
<1> QED BY <1>2, <1>4, <1>5, <1>6, <1>7, <1>8, <1>9, <1>10

\* The transcript is cleared, and its questions are given up.
LEMMA ClearKept ==
    ASSUME Odds = {}, ChatGood, Clear
    PROVE  ChatGood'
<1> DEFINE q == Req("replace", active, <<>>, NoQuestion)
<1>1. /\ Settled /\ msgs' = [msgs EXCEPT ![active] = <<>>] /\ wire' = Append(wire, q)
      /\ waived' = waived \cup Of(active)
      /\ UNCHANGED <<store, filed, answer, current, listed, used, active, busy, ac, reader, checks,
                     syncing, asked, missed>>
  BY DEF Clear, server, link, boot
<1>2. /\ active \in Convs /\ active \in used /\ msgs \in [Convs -> Seq(Messages)]
      /\ NoQuestion \in 0 .. MaxAsked /\ <<>> \in Seq(Messages)
  BY BoundAssumption DEF ChatGood, ChatTyped, NoQuestion
<1>3. q \in Requests /\ q.conv = active /\ q.op = "replace" /\ q.msgs = <<>>
  BY <1>2 DEF Req, Requests
<1> HIDE DEF q
<1>4. /\ wire' \in Seq(Requests) /\ wire' # <<>>
      /\ \A j \in 1 .. Len(wire') : wire'[j].conv \in used
      /\ OneRun' /\ Appends' /\ Replaces' /\ Chats' /\ Saved'
      /\ \A b, m : b # active /\ Lands(store[b], wire, b, m) => Lands(store[b], wire', b, m)
  BY <1>1, <1>2, <1>3, RemovalAdded
<1>5. Free /\ checks = {} /\ ~syncing
  BY <1>1, SettledIs
<1>6. Handles' /\ OnScreen' /\ AtServer' /\ Free'
  BY <1>1, StaysFree
<1>7. /\ msgs' \in [Convs -> Seq(Messages)] /\ msgs'[active] = <<>> /\ Len(msgs'[active]) = 0
      /\ \A b \in Convs : b # active => msgs'[b] = msgs[b]
  BY <1>1, <1>2
<1>8. ChatTyped'
  BY <1>1, <1>4, <1>7 DEF ChatGood, ChatTyped
<1>9. Runs'
  BY <1>1 DEF ChatGood, Runs, Of
<1>10. Lists'
  <2>1. \A b \in Convs : WellMade(Of(b), store[b]) /\ WellMade(Of(b), msgs'[b])
    BY <1>7, NothingMade DEF ChatGood, Lists
  <2> QED BY <1>1, <2>1 DEF Lists, Of
<1>11. Booting'
  BY <1>1, <1>4, <1>5 DEF Booting
<1>12. Landing'
  <2>1. \A b \in listed : b \in Convs
    BY DEF ChatGood, ChatTyped
  <2>2. \A b \in listed : \A i \in 1 .. Len(msgs[b]) :
           msgs[b][i].text = <<>> \/ Lands(store[b], wire, b, msgs[b][i])
    BY <1>5 DEF ChatGood, Landing
  <2>3. \A b \in listed : \A i \in 1 .. Len(msgs'[b]) :
           msgs'[b][i].text = <<>> \/ Lands(store[b], wire', b, msgs'[b][i])
    <3> SUFFICES ASSUME NEW b \in listed, NEW i \in 1 .. Len(msgs'[b])
                 PROVE  msgs'[b][i].text = <<>> \/ Lands(store[b], wire', b, msgs'[b][i])
      OBVIOUS
    <3>1. b # active
      BY <1>7
    <3>2. msgs'[b] = msgs[b]
      BY <1>7, <2>1, <3>1
    <3> QED BY <1>4, <2>2, <3>1, <3>2
  <2> QED BY <1>1, <2>3 DEF Landing
<1> QED BY <1>4, <1>6, <1>8, <1>9, <1>10, <1>11, <1>12 DEF ChatGood

\* A conversation is removed, and its questions are given up.
LEMMA DeleteKept ==
    ASSUME Odds = {}, ChatGood, NEW c \in Convs, Delete(c)
    PROVE  ChatGood'
<1> DEFINE q == Req("delete", c, <<>>, NoQuestion)
<1>1. /\ Settled /\ msgs' = [msgs EXCEPT ![c] = <<>>] /\ wire' = Append(wire, q)
      /\ waived' = waived \cup Of(c) /\ c \in listed
      /\ UNCHANGED <<store, filed, answer, current, busy, ac, reader, checks, syncing, asked,
                     missed>>
  BY DEF Delete, server, link, boot
<1>2. PICK rest \in IF listed = {c} THEN {{d} : d \in Convs \ used} ELSE {listed \ {c}} :
          /\ listed' = rest /\ used' = used \cup rest
          /\ IF active \in rest THEN active' = active ELSE active' \in rest
  BY DEF Delete
<1>3. /\ c \in used /\ msgs \in [Convs -> Seq(Messages)] /\ listed \subseteq used
      /\ NoQuestion \in 0 .. MaxAsked /\ <<>> \in Seq(Messages) /\ used \subseteq Convs
      /\ IsFiniteSet(listed) /\ \A b \in Convs \ used : msgs[b] = <<>>
  BY <1>1, BoundAssumption DEF ChatGood, ChatTyped, NoQuestion
<1>4. q \in Requests /\ q.conv = c /\ q.op = "delete" /\ q.msgs = <<>>
  BY <1>3 DEF Req, Requests
<1> HIDE DEF q
<1>5. /\ rest \subseteq Convs /\ IsFiniteSet(rest) /\ active' \in rest /\ c \notin rest
      /\ \A b \in rest : b \in listed \/ b \notin used
      /\ \A b \in used : b \in rest => b \in listed
  <2>1. CASE listed = {c}
    <3>1. PICK d \in Convs \ used : rest = {d}
      BY <1>2, <2>1
    <3> QED BY <1>2, <1>3, <3>1, FS_Singleton
  <2>2. CASE listed # {c}
    <3>1. rest = listed \ {c}
      BY <1>2, <2>2
    <3> QED BY <1>2, <1>3, <3>1, FS_Subset
  <2> QED BY <2>1, <2>2
<1>6. /\ wire' \in Seq(Requests) /\ wire' # <<>>
      /\ \A j \in 1 .. Len(wire') : wire'[j].conv \in used
      /\ OneRun' /\ Appends' /\ Replaces' /\ Chats' /\ Saved'
      /\ \A b, m : b # c /\ Lands(store[b], wire, b, m) => Lands(store[b], wire', b, m)
  BY <1>1, <1>2, <1>3, <1>4, <1>5, RemovalAdded
<1>7. Free /\ checks = {} /\ ~syncing
  BY <1>1, SettledIs
<1>8. Handles' /\ OnScreen' /\ AtServer' /\ Free'
  BY <1>1, StaysFree
<1>9. /\ msgs' \in [Convs -> Seq(Messages)] /\ msgs'[c] = <<>>
      /\ \A b \in Convs : b # c => msgs'[b] = msgs[b]
  BY <1>1, <1>3
<1>10. ChatTyped'
  <2>1. asked \in Seq(used \cup rest)
    BY DEF ChatGood, ChatTyped
  <2>2. \A b \in Convs \ used' : msgs'[b] = <<>>
    BY <1>2, <1>3, <1>9
  <2> QED BY <1>1, <1>2, <1>3, <1>5, <1>6, <1>7, <1>9, <2>1, <2>2 DEF ChatGood, ChatTyped
<1>11. Runs'
  BY <1>1 DEF ChatGood, Runs, Of
<1>12. Lists'
  <2>1. \A b \in Convs : WellMade(Of(b), store[b]) /\ WellMade(Of(b), msgs'[b])
    BY <1>9, NothingMade DEF ChatGood, Lists
  <2> QED BY <1>1, <2>1 DEF Lists, Of
<1>13. Booting'
  BY <1>1, <1>6, <1>7 DEF Booting
<1>14. Landing'
  <2>1. ASSUME NEW b \in rest, NEW i \in 1 .. Len(msgs'[b])
        PROVE  msgs'[b][i].text = <<>> \/ Lands(store[b], wire', b, msgs'[b][i])
    <3>1. b \in Convs /\ b # c /\ msgs'[b] = msgs[b]
      BY <1>5, <1>9
    <3>2. b \in listed
      <4>1. \A x : x = <<>> => Len(x) = 0
        OBVIOUS
      <4>2. b \notin used => msgs'[b] = <<>>
        BY <1>3, <3>1
      <4>3. b \notin used => Len(msgs'[b]) = 0
        BY <4>1, <4>2
      <4> QED BY <1>5, <4>3
    <3>3. msgs[b][i].text = <<>> \/ Lands(store[b], wire, b, msgs[b][i])
      BY <1>7, <3>1, <3>2 DEF ChatGood, Landing
    <3> QED BY <1>6, <3>1, <3>3
  <2> QED BY <1>1, <1>2, <2>1 DEF Landing
<1> QED BY <1>6, <1>8, <1>10, <1>11, <1>12, <1>13, <1>14 DEF ChatGood

\* The page is loaded again, with no request to stop on its way.
LEMMA ReloadKept ==
    ASSUME ChatGood, Reload, ~missed'
    PROVE  ChatGood'
<1>1. /\ reader' = [r \in Readers |-> NoRead] /\ busy' = NoConv /\ ac' = NoReader
      /\ wire' = <<>> /\ checks' = {active} /\ syncing' = TRUE
      /\ \A i \in 1 .. Len(wire) : wire[i].op # "stop"
      /\ UNCHANGED <<store, filed, answer, current, listed, used, active, msgs, asked, waived>>
  <2>1. \A i \in 1 .. Len(wire) : wire[i].op # "stop"
    BY DEF Reload
  <2> QED BY <2>1 DEF Reload, server, page
<1>2. NoRead \in Calls /\ NoRead.pc = "off"
  BY BoundAssumption DEF NoRead, Calls, NoQuestion
<1>3. reader' \in [Readers -> Calls] /\ Free' /\ \A r \in Readers : Off(r)'
  BY <1>1, <1>2 DEF Free, Off
<1>4. ChatTyped'
  <2>1. <<>> \in Seq(Requests) /\ Len(<<>>) = 0
    OBVIOUS
  <2> QED BY <1>1, <1>3, <2>1 DEF ChatGood, ChatTyped
<1>5. Runs' /\ Lists' /\ Saved'
  BY <1>1 DEF ChatGood, Runs, Lists, Saved, Of
<1>6. OneRun' /\ Appends' /\ Replaces' /\ Chats'
  BY <1>1 DEF ChatGood, OneRun, Appends, Replaces, Chats
<1>7. Handles' /\ OnScreen' /\ AtServer' /\ Landing'
  BY <1>1, <1>3 DEF Handles, OnScreen, AtServer, Landing
<1>8. Booting'
  <2> SUFFICES ASSUME NEW n \in Questions, answer[n].state = "going"
               PROVE  active = asked[n]
    <3>1. active \in Convs
      BY DEF ChatGood, ChatTyped
    <3> QED BY <1>1, <1>3, <3>1 DEF Booting
  <2>1. wire = <<>>
    <3> SUFFICES ASSUME wire # <<>>
                 PROVE  FALSE
      OBVIOUS
    <3>1. 1 \in 1 .. Len(wire)
      BY WireIs DEF ChatGood
    <3> QED BY <1>1, <3>1 DEF ChatGood, OneRun
  <2>2. CASE Free
    BY <2>1, <2>2 DEF ChatGood, Booting
  <2>3. CASE ~Free
    <3>1. PICK r \in Readers : ~Off(r)
      BY <2>3 DEF Free
    <3>2. Begun(r) /\ Pending(r) /\ asked[reader[r].run] = active
      BY <3>1, ReaderIs DEF ChatGood, AtServer
    <3> QED BY <2>1, <3>2 DEF Begun, Pending
  <2> QED BY <2>2, <2>3
<1> QED BY <1>4, <1>5, <1>6, <1>7, <1>8 DEF ChatGood

\* The page learns that no run goes on in the open conversation.
LEMMA CheckIdleKept ==
    ASSUME Odds = {}, ChatGood, NEW c \in Convs, CheckIdle(c), ~missed'
    PROVE  ChatGood'
<1>1. /\ c \in checks /\ wire = <<>> /\ ~syncing /\ checks' = checks \ {c} /\ ~Active(c)
      /\ UNCHANGED <<store, filed, answer, current, listed, used, active, msgs, busy, ac, reader,
                     syncing, wire, asked, waived, missed>>
  BY DEF CheckIdle, InOrder, Misses, server, page, link
<1>2. checks' = {}
  BY <1>1 DEF ChatGood, Booting
<1>3. \A n \in Questions : answer[n].state = "going" => ~Free
  <2> SUFFICES ASSUME NEW n \in Questions, answer[n].state = "going", Free
               PROVE  FALSE
    OBVIOUS
  <2>1. c = asked[n] /\ current[c] = n
    BY <1>1 DEF ChatGood, Booting, OneRun
  <2>2. n # NoQuestion
    BY DEF Questions, NoQuestion
  <2> QED BY <1>1, <2>1, <2>2 DEF Active
<1>4. ChatTyped'
  BY <1>1, <1>2 DEF ChatGood, ChatTyped
<1>5. Runs' /\ OneRun' /\ Lists' /\ Saved'
  BY <1>1 DEF ChatGood, Runs, OneRun, Lists, Saved, Of
<1>6. Appends' /\ Replaces' /\ Chats'
  BY <1>1 DEF Appends, Replaces, Chats
<1>7. (Free' <=> Free) /\ \A r \in Readers : Off(r)' <=> Off(r)
  BY <1>1 DEF Free, Off
<1>8. Handles'
  BY <1>1, <1>2, <1>7 DEF ChatGood, Handles, Off
<1>9. OnScreen' /\ AtServer'
  BY <1>1 DEF ChatGood, OnScreen, AtServer, Shown, Begun, Pending, Of, Off
<1>10. Booting'
  BY <1>1, <1>2, <1>3, <1>7 DEF ChatGood, Booting
<1>11. Landing'
  BY <1>1, <1>7 DEF ChatGood, Landing
<1> QED BY <1>4, <1>5, <1>6, <1>8, <1>9, <1>10, <1>11 DEF ChatGood

-----------------------------------------------------------------------------
(* What the page asks for when it is mounted *)

\* The answer under way is read again, into a blank reply.
LEMMA CheckReturnsKept ==
    ASSUME Odds = {}, ChatGood, NEW c \in Convs, NEW r \in Readers, CheckReturns(c, r)
    PROVE  ChatGood'
<1> DEFINE n == current[c]
           s == msgs[c]
           b0 == Reply(<<>>)
           u == Append(s, b0)
           rd == [NoRead EXCEPT !.pc = "reading", !.conv = c, !.mode = "replace", !.run = n]
<1>1. /\ c \in checks /\ Active(c) /\ wire = <<>> /\ ~syncing /\ checks' = checks \ {c}
      /\ msgs' = [msgs EXCEPT ![active] = Append(IF EndsInReply(msgs[active])
                                                 THEN Front(msgs[active]) ELSE msgs[active], b0)]
      /\ reader' = [reader EXCEPT ![r] = rd] /\ busy' = c /\ ac' = r
      /\ UNCHANGED <<store, filed, answer, current, listed, used, active, syncing, wire, asked,
                     waived, missed>>
  BY DEF CheckReturns, InOrder, server, past
<1>2. Free /\ checks = {c}
  <2>1. checks = {c}
    BY <1>1 DEF ChatGood, Booting
  <2> QED BY <2>1 DEF ChatGood, Handles
<1>3. /\ n \in Questions /\ n \in Nat /\ n \in Of(c) /\ asked[n] = c /\ answer[n].state = "going"
      /\ n \in 1 .. Len(asked)
  <2>1. n \in Of(c) /\ answer[n].state = "going"
    BY <1>1 DEF ChatGood, Runs, Active
  <2> QED BY <2>1, OfIs DEF ChatGood, Questions
<1>4. active = c /\ s = store[c]
  BY <1>1, <1>2, <1>3 DEF ChatGood, Booting
<1>5. /\ s \in Seq(Messages) /\ s # <<>> /\ Last(s) = Question(n) /\ c \in used
      /\ msgs \in [Convs -> Seq(Messages)] /\ reader \in [Readers -> Calls] /\ checks \subseteq used
      /\ answer[n] \in Answers
  <2>1. LastIs(store[c], Question(n))
    BY <1>3 DEF ChatGood, OneRun
  <2> QED BY <1>1, <1>3, <1>4, <2>1 DEF LastIs, ChatGood, ChatTyped
<1>6. msgs' = [msgs EXCEPT ![c] = u]
  <2>1. ~EndsInReply(s)
    BY <1>3, <1>5, MessageIs DEF EndsInReply
  <2> QED BY <1>1, <1>4, <2>1
<1>7. /\ b0 \in Messages /\ b0.text = <<>> /\ b0.role = "assistant" /\ ReplyTo(n, <<>>)
  BY NoReply, MessageIs
<1>8. WellMade(Of(c), u)
  <2> DEFINE own == Of(c)
  <2>1. own \in SUBSET Nat /\ WellMade(own, s) /\ n \in own
    BY <1>3, OfIs DEF ChatGood, Lists
  <2>2. <<>> \in Texts /\ LastIs(s, Question(n))
    BY <1>5, NoReply DEF LastIs
  <2> HIDE DEF own, s, n
  <2> QED BY <1>5, <1>7, <2>1, <2>2, ReplyAdded DEF own
<1> HIDE DEF b0
<1>9. /\ u \in Seq(Messages) /\ Len(u) = Len(s) + 1 /\ u # <<>> /\ Last(u) = b0
      /\ u[Len(u)] = b0 /\ \A i \in 1 .. Len(s) : u[i] = s[i]
      /\ Len(s) \in Nat \ {0} /\ s[Len(s)] = Question(n) /\ Len(s) \in 1 .. Len(s)
  <2>1. Len(s) \in Nat \ {0} /\ s[Len(s)] = Question(n)
    BY <1>5, Fronts
  <2>2. Len(s) \in 1 .. Len(s)
    BY <2>1
  <2>3. u \in Seq(Messages) /\ Len(u) = Len(s) + 1 /\ u # <<>> /\ Last(u) = b0
        /\ u[Len(s) + 1] = b0 /\ \A i \in 1 .. Len(s) : u[i] = s[i]
    BY <1>5, <1>7, Appended1
  <2> QED BY <2>1, <2>2, <2>3
<1> HIDE DEF u
<1>10. Front(u) = s
  <2> DEFINE f == Front(u)
  <2>1. f \in Seq(Messages) /\ Len(f) = Len(u) - 1 /\ \A i \in 1 .. Len(u) - 1 : f[i] = u[i]
    BY <1>9, Fronts
  <2>2. Len(u) - 1 = Len(s)
    BY <1>9
  <2> HIDE DEF f
  <2>3. f = s
    BY <1>5, <1>9, <2>1, <2>2, SeqEqual
  <2> QED BY <2>3 DEF f
<1>11. /\ rd \in Calls /\ rd.pc = "reading" /\ rd.conv = c /\ rd.mode = "replace" /\ rd.run = n
       /\ rd.pos = 0 /\ ~rd.aborted /\ ~rd.fresh
  <2>1. n \in 0 .. MaxAsked
    BY <1>3 DEF Questions
  <2> HIDE DEF n
  <2>2. NoRead \in Calls /\ NoRead.pos = 0 /\ ~NoRead.aborted /\ ~NoRead.fresh
    BY BoundAssumption DEF NoRead, Calls, NoQuestion
  <2> QED BY <2>1, <2>2 DEF Calls
<1> HIDE DEF rd
<1>12. /\ reader' \in [Readers -> Calls] /\ reader'[r] = rd
       /\ \A q \in Readers : q # r => reader'[q] = reader[q]
  BY <1>1, <1>5, <1>11
<1>13. ~Off(r)' /\ \A q \in Readers : ~Off(q)' => q = r
  BY <1>2, <1>11, <1>12 DEF Free, Off
<1>14. ~Free'
  BY <1>13 DEF Free
<1>15. /\ msgs' \in [Convs -> Seq(Messages)] /\ msgs'[c] = u
       /\ \A b \in Convs : b # c => msgs'[b] = msgs[b]
  BY <1>5, <1>6, <1>9
<1>16. ChatTyped'
  <2>1. checks' \subseteq used /\ busy' \in Convs \cup {NoConv} /\ ac' \in Readers \cup {NoReader}
    BY <1>1, <1>5
  <2>2. \A b \in Convs \ used : msgs'[b] = <<>>
    BY <1>5, <1>15 DEF ChatGood, ChatTyped
  <2> QED BY <1>1, <1>12, <1>15, <2>1, <2>2 DEF ChatGood, ChatTyped
<1>17. Runs' /\ OneRun' /\ Saved'
  BY <1>1 DEF ChatGood, Runs, OneRun, Saved, Of
<1>18. Appends' /\ Replaces' /\ Chats'
  BY <1>1 DEF Appends, Replaces, Chats
<1>19. Lists'
  <2>1. \A b \in Convs : WellMade(Of(b), store[b]) /\ WellMade(Of(b), msgs'[b])
    BY <1>8, <1>15 DEF ChatGood, Lists
  <2> QED BY <1>1, <2>1 DEF Lists, Of
<1>20. Handles'
  <2>1. r # NoReader /\ c # NoConv /\ checks' = {}
    BY <1>1, <1>2, ConvAssumption
  <2> QED BY <1>1, <1>4, <1>11, <1>12, <1>13, <2>1 DEF Handles
<1>21. OnScreen'
  <2>1. \A k \in Of(c) \ (waived \cup {n}) : Whole(k, answer[k], s)
    BY <1>4, OfIs DEF ChatGood, Saved
  <2>2. Len(u) > 1 /\ u[Len(u) - 1] = Question(n)
    <3>1. Len(u) > 1 /\ Len(u) - 1 = Len(s)
      BY <1>9
    <3> QED BY <1>9, <3>1
  <2>3. IsPrefix(<<>>, AnswerText(n, answer[n].events))
    <3> DEFINE e == <<>>
               w == AnswerText(n, answer[n].events)
    <3>1. w \in Texts /\ e \in Texts /\ Len(e) = 0
      BY <1>3, <1>5, AnswerIs, NoReply DEF Answers
    <3> HIDE DEF e, w
    <3>2. Len(e) <= Len(w) /\ \A i \in 1 .. Len(e) : e[i] = w[i]
      BY <3>1 DEF Texts
    <3>3. IsPrefix(e, w)
      BY <3>1, <3>2, PrefixIs DEF Texts
    <3> QED BY <3>3 DEF e, w
  <2>4. Len(<<>>) = 0
    OBVIOUS
  <2>5. Shown(r)'
    <3>1. Of(active)' = Of(c)
      BY <1>1, <1>4 DEF Of
    <3>2. /\ reader'[r].conv = c /\ ~reader'[r].aborted /\ reader'[r].run = n
          /\ reader'[r].pc = "reading" /\ reader'[r].pos = 0 /\ ~reader'[r].fresh
          /\ reader'[r].mode = "replace"
      BY <1>11, <1>12
    <3>3. active' = c /\ msgs'[c] = u /\ answer' = answer /\ waived' = waived
      BY <1>1, <1>4, <1>15
    <3>4. Last(u).role = "assistant" /\ Last(u).text = <<>>
      BY <1>7, <1>9
    <3> HIDE DEF n, s
    <3> QED BY <1>3, <1>10, <2>1, <2>2, <2>3, <2>4, <3>1, <3>2, <3>3, <3>4 DEF Shown
  <2> QED BY <1>13, <2>5 DEF OnScreen
<1>22. AtServer'
  <2>1. \A k \in Questions : answer[k].state = "going" => k = n
    BY <1>3 DEF ChatGood, OneRun
  <2>2. answer[n].events # <<>> => answer[n].events[1] # Error
    <3>1. Uttered(answer[n]) /\ answer[n].events \in Seq(Nat)
      BY <1>3, <1>5 DEF ChatGood, Runs, Answers
    <3>2. answer[n].events # <<>> => 1 \in 1 .. Len(answer[n].events)
      BY <3>1
    <3> QED BY <1>3, <3>1, <3>2 DEF Uttered, Error
  <2>3. Begun(r)' /\ Pending(r)'
    BY <1>1, <1>3, <1>11, <1>12, <2>1, <2>2 DEF Begun, Pending
  <2> QED BY <1>13, <2>3 DEF AtServer
<1>23. Booting'
  BY <1>1, <1>2, <1>14 DEF Booting
<1>24. Landing'
  <2> SUFFICES ASSUME NEW b \in listed, NEW i \in 1 .. Len(msgs'[b])
               PROVE  \/ msgs'[b][i].text = <<>>
                      \/ Lands(store[b], wire, b, msgs'[b][i])
    BY <1>1 DEF Landing
  <2>1. b \in Convs
    BY DEF ChatGood, ChatTyped
  <2>2. i \in 1 .. Len(msgs[b]) => \/ msgs[b][i].text = <<>>
                                   \/ Lands(store[b], wire, b, msgs[b][i])
    BY <1>1, <1>2 DEF ChatGood, Landing
  <2>3. CASE b # c
    BY <1>15, <2>1, <2>2, <2>3
  <2>4. CASE b = c /\ i = Len(u)
    BY <1>7, <1>9, <1>15, <2>4
  <2>5. CASE b = c /\ i # Len(u)
    <3>1. i \in 1 .. Len(s)
      BY <1>9, <1>15, <2>5
    <3> QED BY <1>9, <1>15, <2>2, <2>5, <3>1
  <2> QED BY <2>3, <2>4, <2>5
<1> QED BY <1>16, <1>17, <1>18, <1>19, <1>20, <1>21, <1>22, <1>23, <1>24 DEF ChatGood

\* Every member of a finite set has a place in the sequence.
LEMMA InSomeOrder ==
    ASSUME NEW S, IsFiniteSet(S)
    PROVE  /\ Cardinality(S) \in Nat
           /\ \A i \in 1 .. Cardinality(S) : SetToSeq(S)[i] \in S
           /\ \A x \in S : \E i \in 1 .. Cardinality(S) : SetToSeq(S)[i] = x
<1>1. Cardinality(S) \in Nat /\ ExistsBijection(1 .. Cardinality(S), S)
  BY FS_CardinalityType
<1>2. PICK f \in [1 .. Cardinality(S) -> S] : IsInjective(f)
  BY <1>1 DEF ExistsBijection, Bijection, Injection
<1>3. SetToSeq(S) \in [1 .. Cardinality(S) -> S] /\ IsInjective(SetToSeq(S))
  BY <1>2 DEF SetToSeq
<1> HIDE DEF SetToSeq
<1>4. SetToSeq(S) \in Surjection(1 .. Cardinality(S), S)
  <2>1. Cardinality(1 .. Cardinality(S)) = Cardinality(S)
    BY <1>1, FS_Interval
  <2>2. SetToSeq(S) \in Injection(1 .. Cardinality(S), S)
    BY <1>3 DEF Injection
  <2> QED BY <2>1, <2>2, FS_Injection
<1>5. \A x \in S : \E i \in 1 .. Cardinality(S) : SetToSeq(S)[i] = x
  BY <1>4 DEF Surjection
<1> QED BY <1>1, <1>3, <1>5

\* The transcripts arrive; or, if the server has none, they are sent to it.
LEMMA SyncReturnsKept ==
    ASSUME Odds = {}, ChatGood, SyncReturns
    PROVE  ChatGood'
<1> DEFINE S == {c \in listed : msgs[c] # <<>>}
           order == SetToSeq(S)
           size == Cardinality(S)
           out == [i \in 1 .. size |-> Req("replace", order[i], msgs[order[i]], NoQuestion)]
<1>1. /\ syncing /\ wire = <<>> /\ syncing' = FALSE
      /\ IF filed = {} THEN wire' = wire \o out /\ UNCHANGED <<listed, active, msgs>>
         ELSE /\ listed' = filed
              /\ msgs' = [c \in Convs |-> IF c \in filed THEN store[c] ELSE <<>>]
              /\ IF active \in filed THEN active' = active ELSE active' \in filed
              /\ UNCHANGED wire
      /\ UNCHANGED <<store, filed, answer, current, used, busy, ac, reader, checks, asked, waived,
                     missed>>
  BY DEF SyncReturns, InOrder, server, link, past
<1>2. /\ Free /\ checks = {active} /\ ac = NoReader /\ busy = NoConv
      /\ \A q \in Readers : reader[q].pc # "sent"
  BY <1>1, FreeIs DEF ChatGood, Booting
<1>3. Handles' /\ OnScreen' /\ AtServer' /\ Free'
  <2>1. Free' /\ \A r \in Readers : Off(r)'
    BY <1>1, <1>2 DEF Free, Off
  <2> QED BY <1>1, <1>2, <2>1 DEF Handles, OnScreen, AtServer
<1>4. Runs' /\ Saved'
  BY <1>1 DEF ChatGood, Runs, Saved, Of
<1>5. /\ store \in [Convs -> Seq(Messages)] /\ msgs \in [Convs -> Seq(Messages)]
      /\ listed \subseteq Convs /\ listed \subseteq used /\ IsFiniteSet(listed)
      /\ filed \subseteq used /\ used \subseteq Convs /\ IsFiniteSet(filed) /\ active \in Convs
  BY DEF ChatGood, ChatTyped
<1>6. CASE filed = {}
  <2>1. \A c \in Convs : store[c] = <<>>
    BY <1>6 DEF ChatGood, Runs
  <2>2. \A n \in Questions : answer[n].state # "going"
    <3> SUFFICES ASSUME NEW n \in Questions, answer[n].state = "going"
                 PROVE  FALSE
      OBVIOUS
    <3>1. n \in 1 .. Len(asked)
      BY DEF ChatGood, Runs, Questions
    <3>2. asked[n] \in Convs /\ LastIs(store[asked[n]], Question(n))
      BY <3>1, OfIs DEF ChatGood, OneRun
    <3> QED BY <2>1, <3>2 DEF LastIs
  <2>3. \A c \in Convs : \A n \in Of(c) \ waived : answer[n].state = "none"
    <3> SUFFICES ASSUME NEW c \in Convs, NEW n \in Of(c) \ waived, answer[n].state # "none"
                 PROVE  FALSE
      OBVIOUS
    <3>1. Whole(n, answer[n], store[c])
      BY OfIs DEF ChatGood, Saved
    <3> DEFINE s == store[c]
    <3>2. Whole(n, answer[n], s) /\ s = <<>>
      BY <2>1, <3>1
    <3> HIDE DEF s
    <3>3. Len(s) = 0
      BY <3>2
    <3> QED BY <3>2, <3>3 DEF Whole, Contains
  <2>4. /\ size \in Nat /\ \A i \in 1 .. size : order[i] \in S
        /\ \A x \in S : \E i \in 1 .. size : order[i] = x
    <3>1. IsFiniteSet(S)
      BY <1>5, FS_Subset
    <3> QED BY <3>1, InSomeOrder
  <2> HIDE DEF order, size
  <2>5. \A i \in 1 .. size : order[i] \in listed /\ order[i] \in Convs /\ order[i] \in used
    BY <1>5, <2>4
  <2>6. /\ out \in Seq(Requests) /\ Len(out) = size
        /\ \A i \in 1 .. size : /\ out[i].op = "replace" /\ out[i].conv = order[i]
                                /\ out[i].msgs = msgs[order[i]]
    <3>1. NoQuestion \in 0 .. MaxAsked
      BY BoundAssumption DEF NoQuestion
    <3>2. \A i \in 1 .. size : Req("replace", order[i], msgs[order[i]], NoQuestion) \in Requests
      BY <1>5, <2>5, <3>1 DEF Req, Requests
    <3> QED BY <2>4, <3>2 DEF Req
  <2> HIDE DEF out
  <2>7. /\ wire' = out /\ UNCHANGED <<listed, active, msgs>>
    <3>1. <<>> \o out = out
      BY <2>6
    <3> QED BY <1>1, <1>6, <3>1
  <2>8. ChatTyped'
    BY <1>1, <2>5, <2>6, <2>7 DEF ChatGood, ChatTyped
  <2>9. OneRun' /\ Booting'
    BY <1>1, <1>2, <1>5, <2>2, <2>7 DEF OneRun, Booting
  <2>10. Lists'
    BY <1>1, <2>7 DEF ChatGood, Lists, Of
  <2>11. Appends' /\ Chats'
    BY <2>6, <2>7 DEF Appends, Chats
  <2>12. Replaces'
    <3> SUFFICES ASSUME NEW j \in 1 .. Len(wire')
        PROVE  /\ wire'[j].op = "replace" /\ WellMade(Of(wire'[j].conv), wire'[j].msgs)
               /\ \A k \in Of(wire'[j].conv) \ waived : Whole(k, answer[k], wire'[j].msgs)
      BY <1>1 DEF Replaces, Of
    <3>1. j \in 1 .. size /\ wire'[j] = out[j]
      BY <2>6, <2>7
    <3> QED BY <2>3, <2>5, <2>6, <3>1 DEF ChatGood, Lists, Whole
  <2>13. Landing'
    <3> SUFFICES ASSUME NEW c \in listed, NEW i \in 1 .. Len(msgs[c])
                 PROVE  Lands(store[c], out, c, msgs[c][i])
      BY <1>1, <2>7 DEF Landing
    <3> DEFINE s == msgs[c]
               m == s[i]
    <3>1. s \in Seq(Messages) /\ s # <<>>
      <4>1. \A x : x = <<>> => Len(x) = 0
        OBVIOUS
      <4>2. s \in Seq(Messages)
        BY <1>5
      <4>3. Len(s) # 0
        BY <4>2
      <4> QED BY <4>1, <4>2, <4>3
    <3>2. PICK k \in 1 .. size : order[k] = c
      BY <2>4, <3>1
    <3> HIDE DEF s
    <3>3. Covers(s, m)
      <4>1. i \in 1 .. Len(s)
        BY DEF s
      <4> QED BY <3>1, <4>1, CoversItself
    <3>4. Brings(out[k], c, m)
      BY <2>6, <3>2, <3>3 DEF Brings, s
    <3>5. \A j \in 1 .. size : Spares(out[j], c, m)
      BY <2>6, <3>3 DEF Spares, s
    <3>6. k \in 0 .. Len(out) /\ k # 0 /\ \A j \in k + 1 .. Len(out) : j \in 1 .. size
      BY <2>4, <2>6
    <3>7. Lands(store[c], out, c, m)
      BY <3>4, <3>5, <3>6 DEF Lands
    <3> QED BY <3>7 DEF s
  <2> QED BY <1>3, <1>4, <2>8, <2>9, <2>10, <2>11, <2>12, <2>13 DEF ChatGood
<1>7. CASE filed # {}
  <2>1. /\ listed' = filed /\ active' \in filed /\ wire' = <<>>
        /\ msgs' = [c \in Convs |-> IF c \in filed THEN store[c] ELSE <<>>]
        /\ active \in filed => active' = active
    BY <1>1, <1>7
  <2>2. /\ msgs' \in [Convs -> Seq(Messages)]
        /\ \A c \in filed : msgs'[c] = store[c] /\ c \in Convs
        /\ \A c \in Convs \ filed : msgs'[c] = <<>>
    <3>1. <<>> \in Seq(Messages)
      OBVIOUS
    <3> QED BY <1>5, <2>1, <3>1
  <2>3. ChatTyped'
    BY <1>1, <1>5, <2>1, <2>2 DEF ChatGood, ChatTyped
  <2>4. OneRun' /\ Appends' /\ Replaces' /\ Chats'
    <3>1. UNCHANGED <<store, answer, current, asked, waived>> /\ wire' = <<>>
      BY <1>1, <2>1
    <3> QED BY <1>1, <3>1 DEF ChatGood, OneRun, Appends, Replaces, Chats
  <2>5. Lists'
    <3>1. \A b \in Convs : WellMade(Of(b), store[b]) /\ WellMade(Of(b), msgs'[b])
      BY <2>2, NothingMade DEF ChatGood, Lists
    <3> QED BY <1>1, <3>1 DEF Lists, Of
  <2>6. Booting'
    <3> SUFFICES ASSUME NEW n \in Questions, answer[n].state = "going"
                 PROVE  active' = active /\ active = asked[n] /\ msgs'[active] = store[active]
      BY <1>1, <1>2, <1>3, <1>5, <2>1 DEF Booting
    <3>1. active = asked[n] /\ LastIs(store[asked[n]], Question(n))
      BY <1>1, <1>2 DEF ChatGood, Booting, OneRun
    <3>2. active \in filed
      BY <1>5, <3>1 DEF LastIs, ChatGood, Runs
    <3> QED BY <2>1, <2>2, <3>1, <3>2
  <2>7. Landing'
    <3> SUFFICES ASSUME NEW c \in filed, NEW i \in 1 .. Len(store[c])
                 PROVE  Lands(store[c], <<>>, c, store[c][i])
      BY <1>1, <2>1, <2>2 DEF Landing
    <3> DEFINE s == store[c]
               e == <<>>
    <3>1. s \in Seq(Messages) /\ e \in Seq(Requests) /\ Len(e) = 0 /\ i \in 1 .. Len(s)
      BY <1>5, <2>2
    <3> HIDE DEF s, e
    <3>2. Covers(s, s[i])
      BY <3>1, CoversItself
    <3>3. \A j \in 1 .. Len(e) : Spares(e[j], c, s[i])
      BY <3>1
    <3>4. Lands(s, e, c, s[i])
      BY <3>1, <3>2, <3>3, LandsHere
    <3> QED BY <3>4 DEF s, e
  <2> QED BY <1>3, <1>4, <2>3, <2>4, <2>5, <2>6, <2>7 DEF ChatGood
<1> QED BY <1>6, <1>7

-----------------------------------------------------------------------------
(* A question *)

\* The questions of the conversation c, if "as" is their history.
OfIn(as, c) == {n \in 1 .. Len(as) : as[n] = c}

\* A question that has just got its number is new to every transcript ...
LEMMA NewIsAbove ==
    ASSUME ChatTyped, NEW c \in Convs, NEW s \in Seq(Messages), WellMade(Of(c), s)
    PROVE  Below(Len(asked) + 1, s)
<1> SUFFICES ASSUME NEW i \in 1 .. Len(s), NEW k \in Nat, s[i] = Question(k)
             PROVE  k < Len(asked) + 1
  BY DEF Below
<1>1. Of(c) \in SUBSET Nat
  BY OfIs
<1>2. k \in Of(c)
  BY <1>1, OwnQuestion
<1> QED BY <1>2, OfIs

\* ... and to every request.
LEMMA NewOnTheWay ==
    ASSUME ChatTyped, Appends, Replaces, NEW i \in 1 .. Len(wire)
    PROVE  Below(Len(asked) + 1, wire[i].msgs)
<1> DEFINE b == wire[i].conv
           s == wire[i].msgs
<1>1. wire[i] \in Requests /\ s \in Seq(Messages) /\ b \in Convs
      /\ wire[i].op \in {"append", "replace", "delete", "chat", "stop"}
  BY WireIs DEF Requests
<1>2. CASE wire[i].op = "replace"
  BY <1>1, <1>2, NewIsAbove DEF Replaces
<1>3. CASE wire[i].op \in {"delete", "chat", "stop"}
  <2>1. s = <<>>
    BY <1>3 DEF Replaces
  <2>2. Len(s) = 0
    BY <2>1
  <2> QED BY <2>2 DEF Below
<1>4. CASE wire[i].op = "append"
  <2>1. PICK n \in Of(b) : Asks(i, n) \/ Tells(i, n)
    BY <1>4 DEF Appends
  <2>2. n \in Nat /\ n < Len(asked) + 1
    BY OfIs
  <2>3. \A m : Len(<<m>>) = 1 /\ <<m>>[1] = m
    OBVIOUS
  <2>4. CASE Asks(i, n)
    <3>1. s = <<Question(n)>>
      BY <2>4 DEF Asks
    <3>2. Len(s) = 1 /\ s[1] = Question(n)
      BY <2>3, <3>1
    <3> QED BY <2>2, <3>2, MessageIs DEF Below
  <2>5. CASE Tells(i, n)
    <3>1. PICK t \in Texts : s = <<Reply(t)>>
      BY <2>5 DEF Tells
    <3>2. Len(s) = 1 /\ s[1] = Reply(t)
      BY <2>3, <3>1
    <3> QED BY <3>2, MessageIs DEF Below
  <2> QED BY <2>1, <2>4, <2>5
<1> QED BY <1>1, <1>2, <1>3, <1>4

\* The user asks: the transcript, the requests, the reader and the history each
\* get the new question.
LEMMA AskKept ==
    ASSUME Odds = {}, ChatGood, NEW r \in Readers, Ask(r)
    PROVE  ChatGood'
<1> DEFINE n == Len(asked) + 1
           s == msgs[active]
           q == Question(n)
           b0 == Reply(<<>>)
           u == Append(s, q)
           v == Append(u, b0)
           a == Req("append", active, <<q>>, NoQuestion)
           h == Req("chat", active, <<>>, n)
           w == Append(wire, a)
           rd == [NoRead EXCEPT !.pc = "sent", !.conv = active, !.run = n]
           own == Of(active)
<1>1. /\ n <= MaxAsked /\ Off(r) /\ Settled
      /\ asked' = Append(asked, active)
      /\ msgs' = [msgs EXCEPT ![active] = @ \o <<q, b0>>]
      /\ wire' = wire \o <<a, h>>
      /\ reader' = [reader EXCEPT ![r] = rd]
      /\ busy' = active /\ ac' = r
      /\ UNCHANGED <<store, filed, answer, current, listed, used, active, checks, syncing, waived,
                     missed>>
  BY DEF Ask, server, boot
<1>2. /\ Free /\ checks = {} /\ ~syncing
      /\ \A p \in Readers : reader[p].pc # "sent"
      /\ wire = <<>> => \A k \in Questions : answer[k].state # "going"
  BY <1>1, SettledIs
<1>3. /\ n \in Nat /\ n \in Questions /\ n \in 0 .. MaxAsked /\ Len(asked) \in Nat
      /\ active \in Convs /\ active \in used /\ active \in listed
      /\ store \in [Convs -> Seq(Messages)] /\ msgs \in [Convs -> Seq(Messages)]
      /\ s \in Seq(Messages) /\ wire \in Seq(Requests) /\ Len(wire) \in Nat
      /\ asked \in Seq(used) /\ reader \in [Readers -> Calls] /\ listed \subseteq Convs
      /\ n \notin 1 .. Len(asked) /\ NoQuestion \in 0 .. MaxAsked
  <2>1. Len(asked) \in Nat
    BY OfIs DEF ChatGood
  <2>2. ChatTyped
    BY DEF ChatGood
  <2>3. n \in Nat /\ n \in Questions /\ n \in 0 .. MaxAsked /\ n \notin 1 .. Len(asked)
        /\ NoQuestion \in 0 .. MaxAsked
    BY <1>1, <2>1, BoundAssumption DEF Questions, NoQuestion
  <2> HIDE DEF n, q, b0, a, h, rd
  <2>4. /\ listed \subseteq used /\ used \subseteq Convs /\ active \in listed
        /\ store \in [Convs -> Seq(Messages)] /\ msgs \in [Convs -> Seq(Messages)]
        /\ wire \in Seq(Requests) /\ asked \in Seq(used) /\ reader \in [Readers -> Calls]
    BY <2>2 DEF ChatTyped
  <2>5. Len(wire) \in Nat
    BY <2>4
  <2> QED BY <2>1, <2>3, <2>4, <2>5
<1>4. answer[n].state = "none"
  BY <1>3 DEF ChatGood, Runs
<1>5. /\ q \in Messages /\ b0 \in Messages /\ b0.text = <<>> /\ b0.role = "assistant"
      /\ <<>> \in Texts /\ ReplyTo(n, <<>>)
  BY <1>3, NoReply, MessageIs
<1> HIDE DEF b0
\* the history grows
<1>6. /\ asked' \in Seq(used) /\ Len(asked') = n /\ asked'[n] = active
      /\ \A k \in 1 .. Len(asked) : asked'[k] = asked[k] /\ k \in 1 .. n
  BY <1>1, <1>3, Appended1
<1>7. /\ \A k \in 1 .. n : k = n \/ k \in 1 .. Len(asked)
      /\ n \in 1 .. n
  BY <1>3
<1> HIDE DEF n
<1>8. /\ \A b : Of(b) \subseteq OfIn(asked', b) /\ OfIn(asked', b) \subseteq Of(b) \cup {n}
      /\ \A b : b # active => OfIn(asked', b) = Of(b)
      /\ n \in OfIn(asked', active)
      /\ \A b : OfIn(asked', b) \in SUBSET Nat
  <2>1. \A b, k : k \in OfIn(asked', b) <=> k \in 1 .. n /\ asked'[k] = b
    BY <1>6 DEF OfIn
  <2>2. \A b, k : k \in Of(b) <=> k \in 1 .. Len(asked) /\ asked[k] = b
    BY DEF Of
  <2>3. \A k \in 1 .. n : k \in Nat
    BY <1>3
  <2>4. \A k : k \in 1 .. n <=> k = n \/ k \in 1 .. Len(asked)
    BY <1>6, <1>7
  <2>5. \A b, k : k \in OfIn(asked', b) <=> k \in Of(b) \/ (k = n /\ b = active)
    <3> SUFFICES ASSUME NEW b, NEW k
                 PROVE  k \in OfIn(asked', b) <=> k \in Of(b) \/ (k = n /\ b = active)
      OBVIOUS
    <3>1. k \in 1 .. Len(asked) => asked'[k] = asked[k] /\ k # n
      BY <1>3, <1>6
    <3> QED BY <1>6, <2>1, <2>2, <2>4, <3>1
  <2>6. \A b : OfIn(asked', b) \in SUBSET Nat
    BY <2>1, <2>3
  <2>7. \A b : b # active => \A k : k \in OfIn(asked', b) <=> k \in Of(b)
    BY <2>5
  <2>8. \A b : b # active => OfIn(asked', b) = Of(b)
    BY <2>7
  <2> QED BY <2>5, <2>6, <2>8
\* so does the transcript on screen
<1>9. /\ u \in Seq(Messages) /\ Len(u) = Len(s) + 1 /\ Last(u) = q /\ u # <<>>
      /\ u[Len(s) + 1] = q /\ \A i \in 1 .. Len(s) : u[i] = s[i]
  BY <1>3, <1>5, Appended1
<1> HIDE DEF q
<1>10. s \o <<q, b0>> = v
  BY <1>3, <1>5
<1> HIDE DEF u
<1>11. /\ v \in Seq(Messages) /\ Len(v) = Len(u) + 1 /\ Last(v) = b0
       /\ v[Len(u) + 1] = b0 /\ \A i \in 1 .. Len(u) : v[i] = u[i]
  BY <1>5, <1>9, Appended1
<1> HIDE DEF v
<1>12. /\ msgs' \in [Convs -> Seq(Messages)] /\ msgs'[active] = v
       /\ \A b \in Convs : b # active => msgs'[b] = msgs[b]
  <2>1. msgs' = [msgs EXCEPT ![active] = v]
    BY <1>1, <1>3, <1>10
  <2> QED BY <1>3, <1>11, <2>1
<1>13. WellMade(OfIn(asked', active), v)
  <2> DEFINE all == OfIn(asked', active)
  <2>1. own \in SUBSET Nat /\ own \subseteq all /\ all \in SUBSET Nat /\ n \in all
    BY <1>8, OfIs DEF ChatGood
  <2>2. WellMade(own, s) /\ Below(n, s)
    <3>1. WellMade(own, s)
      BY <1>3 DEF ChatGood, Lists
    <3> QED BY <1>3, <3>1, NewIsAbove DEF ChatGood, n
  <2> HIDE DEF own, all, s
  <2>3. WellMade(all, s)
    BY <1>3, <2>1, <2>2, MoreQuestions
  <2>4. WellMade(all, u)
    BY <1>3, <2>1, <2>2, <2>3, QuestionAdded DEF u, q
  <2>5. LastIs(u, Question(n))
    BY <1>9 DEF LastIs, q
  <2>6. WellMade(all, v)
    BY <1>5, <1>9, <2>1, <2>4, <2>5, ReplyAdded DEF v, b0
  <2> QED BY <2>6 DEF all
\* and two requests are sent
<1>14. /\ a \in Requests /\ a.op = "append" /\ a.conv = active /\ a.msgs = <<q>>
       /\ h \in Requests /\ h.op = "chat" /\ h.conv = active /\ h.msgs = <<>> /\ h.run = n
  <2>1. <<q>> \in Seq(Messages) /\ <<>> \in Seq(Messages)
    BY <1>5
  <2> QED BY <1>3, <2>1 DEF Req, Requests
<1> HIDE DEF a, h
<1>15. /\ w \in Seq(Requests) /\ Len(w) = Len(wire) + 1 /\ w[Len(wire) + 1] = a
       /\ \A j \in 1 .. Len(wire) : w[j] = wire[j]
  BY <1>3, <1>14, Appended1
<1>16. wire' = Append(w, h)
  BY <1>1, <1>3, <1>14
<1> HIDE DEF w
<1>17. /\ wire' \in Seq(Requests) /\ Len(wire') = Len(w) + 1 /\ wire'[Len(w) + 1] = h
       /\ \A j \in 1 .. Len(w) : wire'[j] = w[j]
       /\ wire' # <<>> /\ Last(wire') = h
  BY <1>14, <1>15, <1>16, Appended1
<1>18. /\ Len(wire') = Len(wire) + 2
       /\ wire'[Len(wire) + 1] = a /\ wire'[Len(wire) + 2] = h
       /\ \A j \in 1 .. Len(wire) : wire'[j] = wire[j]
       /\ \A j \in 1 .. Len(wire') :
             \/ j \in 1 .. Len(wire)
             \/ j = Len(wire) + 1 \/ j = Len(wire) + 2
  <2>1. Len(w) = Len(wire) + 1 /\ Len(w) + 1 = Len(wire) + 2 /\ Len(wire') = Len(wire) + 2
    BY <1>3, <1>15, <1>17
  <2>2. Len(wire) + 1 \in 1 .. Len(w) /\ \A j \in 1 .. Len(wire) : j \in 1 .. Len(w)
    BY <1>3, <2>1
  <2>3. wire'[Len(wire) + 1] = a /\ wire'[Len(wire) + 2] = h
    BY <1>15, <1>17, <2>1, <2>2
  <2>4. \A j \in 1 .. Len(wire) : wire'[j] = wire[j]
    BY <1>15, <1>17, <2>2
  <2>5. \A j \in 1 .. Len(wire') : j \in 1 .. Len(wire) \/ j = Len(wire) + 1 \/ j = Len(wire) + 2
    BY <1>3, <2>1
  <2> QED BY <2>1, <2>3, <2>4, <2>5
<1>19. \A b, m : Spares(h, b, m) /\ Spares(a, b, m)
  BY <1>14 DEF Spares
\* the reader
<1>20. /\ rd \in Calls /\ rd.pc = "sent" /\ rd.conv = active /\ rd.run = n /\ rd.mode = "append"
       /\ rd.pos = 0 /\ ~rd.aborted /\ ~rd.fresh
  <2>1. NoRead \in Calls /\ NoRead.pos = 0 /\ ~NoRead.aborted /\ ~NoRead.fresh
        /\ NoRead.mode = "append"
    BY BoundAssumption DEF NoRead, Calls, NoQuestion
  <2> QED BY <1>3, <2>1 DEF Calls
<1> HIDE DEF rd
<1>21. /\ reader' \in [Readers -> Calls] /\ reader'[r] = rd
       /\ \A p \in Readers : p # r => reader'[p] = reader[p]
  BY <1>1, <1>3, <1>20
<1>22. ~Off(r)' /\ ~Free' /\ \A p \in Readers : ~Off(p)' => p = r
  BY <1>2, <1>20, <1>21 DEF Free, Off
<1>23. ChatTyped'
  <2>1. \A j \in 1 .. Len(wire') : wire'[j].conv \in used
    BY <1>3, <1>14, <1>18, WireIs DEF ChatGood
  <2>2. \A b \in Convs \ used : msgs'[b] = <<>>
    BY <1>3, <1>12 DEF ChatGood, ChatTyped
  <2>3. Len(asked') <= MaxAsked
    BY <1>1, <1>6
  <2> QED BY <1>1, <1>3, <1>6, <1>12, <1>17, <1>21, <2>1, <2>2, <2>3 DEF ChatGood, ChatTyped
<1>24. Runs'
  <2>1. \A k \in Questions : answer[k].state # "none" => k <= Len(asked')
    BY <1>3, <1>6 DEF ChatGood, Runs, n, Questions
  <2>2. \A c \in Convs : current[c] # NoQuestion => current[c] \in OfIn(asked', c)
    BY <1>8 DEF ChatGood, Runs
  <2>3. \A c \in Convs : store[c] # <<>> => c \in filed
    BY DEF ChatGood, Runs
  <2>4. \A k \in Questions : Uttered(answer[k])
    BY DEF ChatGood, Runs
  <2> QED BY <1>1, <2>1, <2>2, <2>3, <2>4 DEF Runs, Of, OfIn
<1>25. OneRun'
  <2> SUFFICES ASSUME NEW k \in Questions, answer[k].state = "going"
               PROVE  /\ current[asked'[k]] = k /\ LastIs(store[asked'[k]], Question(k))
                      /\ wire'[1].op = "stop" /\ wire'[1].conv = asked'[k] /\ k \in waived
    BY <1>1 DEF ChatGood, OneRun
  <2>1. k \in 1 .. Len(asked)
    BY DEF ChatGood, Runs, Questions
  <2>2. wire # <<>> /\ asked'[k] = asked[k]
    BY <1>2, <1>6, <2>1
  <2>3. wire'[1] = wire[1]
    <3>1. 1 \in 1 .. Len(wire)
      BY <1>3, <2>2
    <3> QED BY <1>18, <3>1
  <2> QED BY <2>2, <2>3 DEF ChatGood, OneRun
<1>26. Lists'
  <2> SUFFICES ASSUME NEW b \in Convs
               PROVE  WellMade(OfIn(asked', b), store[b]) /\ WellMade(OfIn(asked', b), msgs'[b])
    BY <1>1 DEF Lists, Of, OfIn
  <2> DEFINE old == Of(b)
             all == OfIn(asked', b)
             z == store[b]
             y == msgs[b]
  <2>1. /\ old \in SUBSET Nat /\ old \subseteq all /\ all \in SUBSET Nat
        /\ z \in Seq(Messages) /\ y \in Seq(Messages) /\ WellMade(old, z) /\ WellMade(old, y)
    BY <1>3, <1>8, OfIs DEF ChatGood, Lists
  <2> HIDE DEF old, all, z, y
  <2>2. WellMade(all, z) /\ WellMade(all, y)
    BY <2>1, MoreQuestions
  <2>3. WellMade(OfIn(asked', b), store[b]) /\ WellMade(OfIn(asked', b), msgs[b])
    BY <2>2 DEF all, z, y
  <2> QED BY <1>12, <1>13, <2>3
<1>27. Appends'
  <2> SUFFICES ASSUME NEW j \in 1 .. Len(wire'), wire'[j].op = "append"
               PROVE  \E k \in OfIn(asked', wire'[j].conv) : Asks(j, k)' \/ Tells(j, k)'
    BY DEF Appends, Of, OfIn
  <2>1. CASE j \in 1 .. Len(wire)
    <3>1. /\ wire'[j] = wire[j] /\ wire'[1] = wire[1]
          /\ \A i \in 1 .. j - 1 : wire'[i] = wire[i]
      <4>1. 1 \in 1 .. Len(wire) /\ \A i \in 1 .. j - 1 : i \in 1 .. Len(wire)
        BY <1>3, <2>1
      <4> QED BY <1>18, <2>1, <4>1
    <3>2. PICK k \in Of(wire[j].conv) : Asks(j, k) \/ Tells(j, k)
      BY <2>1, <3>1 DEF ChatGood, Appends
    <3>3. Asks(j, k) => Asks(j, k)'
      BY <1>1, <3>1 DEF Asks
    <3>4. Tells(j, k) => Tells(j, k)'
      BY <1>1, <3>1 DEF Tells
    <3>5. k \in OfIn(asked', wire'[j].conv)
      BY <1>8, <3>1, <3>2
    <3> QED BY <3>2, <3>3, <3>4, <3>5
  <2>2. CASE j = Len(wire) + 1
    <3>1. wire'[j] = a
      BY <1>18, <2>2
    <3>2. PICK k \in Nat : k = n
      BY <1>3
    <3>3. Below(k, store[active])
      BY <1>3, <3>2, NewIsAbove DEF ChatGood, Lists, n
    <3>4. \A i \in 1 .. j - 1 : wire'[i].conv = wire'[j].conv => Below(k, wire'[i].msgs)
      <4>1. \A i \in 1 .. j - 1 : i \in 1 .. Len(wire)
        BY <1>3, <2>2
      <4>2. \A i \in 1 .. Len(wire) : Below(n, wire[i].msgs)
        BY NewOnTheWay DEF ChatGood, n
      <4> QED BY <1>18, <3>2, <4>1, <4>2
    <3>5. wire'[j].msgs = <<Question(k)>> /\ wire'[j].conv = active
      BY <1>14, <3>1, <3>2 DEF q
    <3>6. Asks(j, k)'
      BY <1>1, <3>3, <3>4, <3>5 DEF Asks
    <3>7. k \in OfIn(asked', wire'[j].conv)
      BY <1>8, <3>2, <3>5
    <3> QED BY <3>6, <3>7
  <2>3. CASE j = Len(wire) + 2
    BY <1>14, <1>18, <2>3
  <2> QED BY <1>18, <2>1, <2>2, <2>3
<1>28. Replaces'
  <2> SUFFICES ASSUME NEW j \in 1 .. Len(wire'), NEW b, b = wire'[j].conv
      PROVE  /\ wire'[j].op = "replace" =>
                  /\ WellMade(OfIn(asked', b), wire'[j].msgs)
                  /\ \A k \in OfIn(asked', b) \ waived : Whole(k, answer[k], wire'[j].msgs)
             /\ wire'[j].op = "delete" => OfIn(asked', b) \subseteq waived /\ b \notin listed
             /\ wire'[j].op \in {"chat", "stop", "delete"} => wire'[j].msgs = <<>>
    BY <1>1 DEF Replaces, Of, OfIn
  <2>1. CASE j \in 1 .. Len(wire)
    <3>1. wire'[j] = wire[j] /\ b \in Convs
      BY <1>18, <2>1, WireIs DEF ChatGood
    <3>2. ASSUME wire[j].op = "replace"
          PROVE  /\ WellMade(OfIn(asked', b), wire[j].msgs)
                 /\ \A k \in OfIn(asked', b) \ waived : Whole(k, answer[k], wire[j].msgs)
      <4> DEFINE old == Of(b)
                 all == OfIn(asked', b)
                 z == wire[j].msgs
      <4>1. /\ WellMade(old, z) /\ z \in Seq(Messages)
            /\ \A k \in old \ waived : Whole(k, answer[k], z)
        BY <2>1, <3>1, <3>2, WireIs DEF ChatGood, Replaces
      <4>2. /\ old \in SUBSET Nat /\ old \subseteq all /\ all \in SUBSET Nat
            /\ all \subseteq old \cup {n}
        BY <1>8, OfIs DEF ChatGood
      <4> HIDE DEF old, all, z
      <4>3. WellMade(all, z)
        BY <4>1, <4>2, MoreQuestions
      <4>4. \A k \in all \ waived : Whole(k, answer[k], z)
        BY <1>4, <4>1, <4>2 DEF Whole
      <4> QED BY <4>3, <4>4 DEF all, z
    <3>3. ASSUME wire[j].op = "delete"
          PROVE  OfIn(asked', b) \subseteq waived /\ b \notin listed
      BY <1>3, <1>8, <2>1, <3>1, <3>3 DEF ChatGood, Replaces
    <3>4. wire[j].op \in {"chat", "stop", "delete"} => wire[j].msgs = <<>>
      BY <2>1 DEF ChatGood, Replaces
    <3> QED BY <3>1, <3>2, <3>3, <3>4
  <2>2. CASE j = Len(wire) + 1 \/ j = Len(wire) + 2
    BY <1>14, <1>18, <2>2
  <2> QED BY <1>18, <2>1, <2>2
<1>29. Chats'
  <2> SUFFICES ASSUME NEW j \in 1 .. Len(wire'), wire'[j].op = "chat"
      PROVE  LET m == wire'[j].run IN
             /\ m \in OfIn(asked', wire'[j].conv) /\ answer[m].state = "none"
             /\ j < Len(wire') => /\ wire'[j + 1].op = "stop"
                                  /\ wire'[j + 1].conv = wire'[j].conv
                                  /\ m \in waived
             /\ j = Len(wire') => \E p \in Readers : reader'[p].pc = "sent" /\ reader'[p].run = m
             /\ j = 1 => LastIs(store[wire'[j].conv], Question(m))
             /\ j > 1 => /\ wire'[j - 1].op = "append" /\ wire'[j - 1].conv = wire'[j].conv
                         /\ wire'[j - 1].msgs = <<Question(m)>>
    BY <1>1 DEF Chats, Of, OfIn
  <2>1. CASE j \in 1 .. Len(wire)
    <3>1. wire'[j] = wire[j]
      BY <1>18, <2>1
    <3>2. j # Len(wire)
      BY <1>2, <2>1, <3>1 DEF ChatGood, Chats
    <3>3. /\ j < Len(wire) /\ j + 1 \in 1 .. Len(wire) /\ j # Len(wire')
          /\ j > 1 => j - 1 \in 1 .. Len(wire)
      BY <1>3, <1>18, <2>1, <3>2
    <3>4. wire[j].run \in OfIn(asked', wire'[j].conv)
      BY <1>8, <2>1, <3>1 DEF ChatGood, Chats
    <3> QED BY <1>18, <2>1, <3>1, <3>3, <3>4 DEF ChatGood, Chats
  <2>2. CASE j = Len(wire) + 1
    BY <1>14, <1>18, <2>2
  <2>3. CASE j = Len(wire) + 2
    <3>1. /\ wire'[j] = h /\ j = Len(wire') /\ j > 1 /\ j # 1 /\ wire'[j - 1] = a
          /\ ~(j < Len(wire'))
      <4>1. j = Len(wire') /\ j > 1 /\ j # 1 /\ j - 1 = Len(wire) + 1 /\ ~(j < Len(wire'))
        BY <1>3, <1>18, <2>3
      <4> QED BY <1>18, <2>3, <4>1
    <3>2. n \in OfIn(asked', wire'[j].conv)
      BY <1>8, <1>14, <3>1
    <3>3. a.msgs = <<Question(n)>>
      BY <1>14 DEF q
    <3> QED BY <1>4, <1>14, <1>20, <1>21, <3>1, <3>2, <3>3
  <2> QED BY <1>18, <2>1, <2>2, <2>3
<1>30. Handles'
  <2>1. r # NoReader /\ active # NoConv
    BY <1>3, ConvAssumption
  <2> QED BY <1>1, <1>2, <1>20, <1>21, <1>22, <2>1 DEF Handles
<1>31. OnScreen'
  <2>1. Len(v) > 1 /\ v[Len(v) - 1] = Question(n)
    <3>1. Len(v) > 1 /\ Len(v) - 1 = Len(s) + 1 /\ Len(s) + 1 \in 1 .. Len(u)
      BY <1>3, <1>9, <1>11
    <3> QED BY <1>9, <1>11, <3>1 DEF q
  <2>2. IsPrefix(<<>>, AnswerText(n, answer[n].events))
    <3> DEFINE e == <<>>
               t == AnswerText(n, answer[n].events)
    <3>1. answer[n].events \in Seq(Nat)
      BY <1>3 DEF ChatGood, ChatTyped, Answers
    <3>2. t \in Texts /\ e \in Texts /\ Len(e) = 0
      BY <1>3, <3>1, AnswerIs, NoReply
    <3> HIDE DEF e, t
    <3>3. Len(e) <= Len(t) /\ \A i \in 1 .. Len(e) : e[i] = t[i]
      BY <3>2 DEF Texts
    <3>4. IsPrefix(e, t)
      BY <3>2, <3>3, PrefixIs DEF Texts
    <3> QED BY <3>4 DEF e, t
  <2>3. Len(<<>>) = 0
    OBVIOUS
  <2>4. Shown(r)'
    <3>1. /\ reader'[r].conv = active /\ ~reader'[r].aborted /\ reader'[r].run = n
          /\ reader'[r].pc = "sent" /\ reader'[r].pos = 0 /\ ~reader'[r].fresh
          /\ reader'[r].mode = "append"
      BY <1>20, <1>21
    <3>2. active' = active /\ msgs'[active] = v /\ answer' = answer /\ n \in OfIn(asked', active)
      BY <1>1, <1>8, <1>12
    <3>3. Last(v).role = "assistant" /\ Last(v).text = <<>>
      BY <1>5, <1>11
    <3> HIDE DEF s
    <3> QED BY <2>1, <2>2, <2>3, <3>1, <3>2, <3>3 DEF Shown, Of, OfIn
  <2> QED BY <1>22, <2>4 DEF OnScreen
<1>32. AtServer'
  <2>1. Begun(r)' /\ Pending(r)'
    BY <1>1, <1>4, <1>14, <1>17, <1>20, <1>21 DEF Begun, Pending
  <2> QED BY <1>22, <2>1 DEF AtServer
<1>33. Booting'
  BY <1>1, <1>2, <1>22 DEF Booting
<1>34. Saved'
  <2> SUFFICES ASSUME NEW k \in 1 .. n, k \notin waived
               PROVE  Whole(k, answer[k], store[asked'[k]])
    BY <1>1, <1>6 DEF Saved
  <2>1. CASE k = n
    BY <1>4, <2>1 DEF Whole
  <2>2. CASE k \in 1 .. Len(asked)
    BY <1>6, <2>2 DEF ChatGood, Saved
  <2> QED BY <1>7, <2>1, <2>2
<1>35. Landing'
  <2> SUFFICES ASSUME NEW b \in listed, NEW i \in 1 .. Len(msgs'[b])
               PROVE  \/ msgs'[b][i].text = <<>>
                      \/ Lands(store[b], wire', b, msgs'[b][i])
    BY <1>1 DEF Landing
  <2>1. b \in Convs
    BY <1>3
  <2>2. \A m : Lands(store[b], wire, b, m) => Lands(store[b], wire', b, m)
    <3> SUFFICES ASSUME NEW m, Lands(store[b], wire, b, m)
                 PROVE  Lands(store[b], wire', b, m)
      OBVIOUS
    <3>1. Lands(store[b], w, b, m)
      BY <1>3, <1>14, <1>19, LandsMore DEF w
    <3> QED BY <1>14, <1>15, <1>16, <1>19, <3>1, LandsMore
  <2>3. i \in 1 .. Len(msgs[b]) => \/ msgs[b][i].text = <<>>
                                   \/ Lands(store[b], wire, b, msgs[b][i])
    BY <1>2 DEF ChatGood, Landing
  <2>4. CASE b # active
    BY <1>12, <2>1, <2>2, <2>3, <2>4
  <2>5. CASE b = active
    <3>1. msgs'[b] = v /\ i \in 1 .. Len(v)
      BY <1>12, <2>5
    <3>2. i \in 1 .. Len(s) \/ i = Len(s) + 1 \/ i = Len(u) + 1
      BY <1>3, <1>9, <1>11, <3>1
    <3>3. CASE i \in 1 .. Len(s)
      <4>1. i \in 1 .. Len(u)
        BY <1>3, <1>9, <3>3
      <4>2. v[i] = s[i]
        BY <1>9, <1>11, <3>3, <4>1
      <4> QED BY <2>2, <2>3, <2>5, <3>1, <3>3, <4>2
    <3>4. CASE i = Len(s) + 1
      <4>1. v[i] = q
        <5>1. i \in 1 .. Len(u)
          BY <1>3, <1>9, <3>4
        <5> QED BY <1>9, <1>11, <3>4, <5>1
      <4>2. Brings(a, b, q)
        <5> DEFINE one == <<q>>
        <5>1. one \in Seq(Messages) /\ 1 \in 1 .. Len(one) /\ one[1] = q
          BY <1>5
        <5> HIDE DEF one
        <5>2. Covers(one, q)
          BY <5>1, CoversItself
        <5> QED BY <1>14, <2>5, <5>2 DEF Brings, one
      <4>3. Lands(store[b], w, b, q)
        BY <1>3, <1>14, <4>2, LandsNew DEF w
      <4>4. Lands(store[b], wire', b, q)
        BY <1>14, <1>15, <1>16, <1>19, <4>3, LandsMore
      <4> QED BY <3>1, <4>1, <4>4
    <3>5. CASE i = Len(u) + 1
      BY <1>5, <1>11, <3>1, <3>5
    <3> QED BY <3>2, <3>3, <3>4, <3>5
  <2> QED BY <2>4, <2>5
<1> QED BY <1>23, <1>24, <1>25, <1>26, <1>27, <1>28, <1>29, <1>30, <1>31, <1>32, <1>33, <1>34,
           <1>35 DEF ChatGood

-----------------------------------------------------------------------------
(* All steps *)

\* At first there is one empty conversation.
LEMMA ChatInitGood ==
    ASSUME ChatInit
    PROVE  ChatGood
<1>1. /\ store = [c \in Convs |-> <<>>] /\ filed = {}
      /\ answer = [n \in Questions |-> NotRun]
      /\ current = [c \in Convs |-> NoQuestion]
      /\ listed = {active} /\ used = {active}
      /\ msgs = [c \in Convs |-> <<>>]
      /\ busy = NoConv /\ ac = NoReader
      /\ reader = [r \in Readers |-> NoRead]
      /\ checks = {} /\ syncing = FALSE /\ wire = <<>>
      /\ asked = <<>>
  BY DEF ChatInit
<1>2. active \in Convs
  BY ConvAssumption DEF ChatInit
<1>3. \A c \in Convs : store[c] = <<>> /\ msgs[c] = <<>> /\ current[c] = NoQuestion
  BY <1>1
<1>4. \A n \in Questions : answer[n].state = "none" /\ answer[n].events = <<>>
  BY <1>1 DEF NotRun
<1>5. \A r \in Readers : reader[r].pc = "off"
  BY <1>1 DEF NoRead
<1>6. /\ Len(wire) = 0 /\ Len(asked) = 0 /\ Len(<<>>) = 0 /\ MaxAsked \in Nat
      /\ 0 <= MaxAsked /\ 1 .. 0 = {}
  BY <1>1, BoundAssumption
<1>7. ChatTyped
  <2>1. NoRead \in Calls /\ NotRun \in Answers /\ NoQuestion \in 0 .. MaxAsked
    BY BoundAssumption DEF NoRead, Calls, NoQuestion, NotRun, Answers
  <2>2. store \in [Convs -> Seq(Messages)] /\ msgs \in [Convs -> Seq(Messages)]
    BY <1>1
  <2>3. answer \in [Questions -> Answers] /\ current \in [Convs -> 0 .. MaxAsked]
        /\ reader \in [Readers -> Calls]
    BY <1>1, <2>1
  <2>4. IsFiniteSet(filed) /\ IsFiniteSet(listed)
    BY <1>1, FS_EmptySet, FS_Singleton
  <2>5. wire \in Seq(Requests) /\ asked \in Seq(used)
    BY <1>1
  <2> QED BY <1>1, <1>2, <1>3, <1>6, <2>2, <2>3, <2>4, <2>5 DEF ChatTyped
<1>8. Runs
  <2>1. \A n \in Questions : Uttered(answer[n])
    BY <1>4, <1>6 DEF Uttered
  <2> QED BY <1>3, <1>4, <2>1 DEF Runs
<1>9. OneRun
  BY <1>4 DEF OneRun
<1>10. Lists
  BY <1>3, NothingMade DEF Lists
<1>11. Appends /\ Replaces /\ Chats
  BY <1>6 DEF Appends, Replaces, Chats
<1>12. Handles
  BY <1>1, <1>5 DEF Handles, Off
<1>13. OnScreen /\ AtServer
  BY <1>5 DEF OnScreen, AtServer, Off
<1>14. Booting
  BY <1>1, <1>4 DEF Booting
<1>15. Saved
  BY <1>6 DEF Saved
<1>16. Landing
  <2>1. \A c \in listed : Len(msgs[c]) = 0
    BY <1>1, <1>2, <1>3, <1>6
  <2> QED BY <1>6, <2>1 DEF Landing
<1> QED BY <1>7, <1>8, <1>9, <1>10, <1>11, <1>12, <1>13, <1>14, <1>15, <1>16 DEF ChatGood

\* Nothing changes.
LEMMA StutterKept ==
    ASSUME ChatGood, UNCHANGED chatVars
    PROVE  ChatGood'
<1>1. UNCHANGED <<store, filed, answer, current, listed, used, active, msgs, busy, ac, reader,
                  checks, syncing, wire, asked, waived>>
  BY DEF chatVars, server, page, link, boot, past
<1>2. ChatTyped'
  BY <1>1 DEF ChatGood, ChatTyped
<1>3. Runs'
  BY <1>1 DEF ChatGood, Runs, Of
<1>4. OneRun'
  BY <1>1 DEF ChatGood, OneRun
<1>5. Lists'
  BY <1>1 DEF ChatGood, Lists, Of
<1>6. Appends'
  BY <1>1 DEF ChatGood, Appends, Asks, Tells, Of
<1>7. Replaces'
  BY <1>1 DEF ChatGood, Replaces, Of
<1>8. Chats'
  BY <1>1 DEF ChatGood, Chats, Of
<1>9. Handles'
  BY <1>1 DEF ChatGood, Handles, Off, Free
<1>10. OnScreen'
  BY <1>1 DEF ChatGood, OnScreen, Shown, Off, Of
<1>11. AtServer'
  BY <1>1 DEF ChatGood, AtServer, Begun, Pending, Off
<1>12. Booting'
  BY <1>1 DEF ChatGood, Booting, Free, Off
<1>13. Saved'
  BY <1>1 DEF ChatGood, Saved
<1>14. Landing'
  BY <1>1 DEF ChatGood, Landing, Free, Off
<1> QED BY <1>2, <1>3, <1>4, <1>5, <1>6, <1>7, <1>8, <1>9, <1>10, <1>11, <1>12, <1>13, <1>14
        DEF ChatGood

\* A request that failed stays failed.
LEMMA MissedStays ==
    ASSUME [ChatNext]_chatVars, missed
    PROVE  missed'
<1>1. ASSUME Arrives
      PROVE  missed' = missed
  BY <1>1 DEF Arrives, AppendArrives, ReplaceArrives, DeleteArrives, ChatArrives, StopArrives,
              ChatRefused, past
<1>2. ASSUME Boots
      PROVE  missed'
  BY <1>2 DEF Boots, SyncReturns, CheckIdle, CheckReturns, Misses, past
<1>3. ASSUME User
      PROVE  missed'
  BY <1>3 DEF User, StopAnswer, New, Clear, Reload, Select, Delete, Ask, past
<1>4. ASSUME Fails
      PROVE  missed'
  BY <1>4 DEF Fails, SyncFails, WriteFails, Breaks, Hangs, TryFails, Misses, past
<1>5. ASSUME NEW n \in Questions, Agent(n)
      PROVE  missed'
  BY <1>5 DEF Agent, AgentSays, AgentEnds, past
<1>6. ASSUME NEW r \in Readers, Reads(r) \/ Retries(r)
      PROVE  missed'
  BY <1>6 DEF Reads, ReadEvent, ReadEnds, Retries, Awakes, TryResumes, TryPulls, GivesUp, Misses,
              past
<1>7. CASE UNCHANGED chatVars
  BY <1>7 DEF chatVars, past
<1> QED BY <1>1, <1>2, <1>3, <1>4, <1>5, <1>6, <1>7 DEF ChatNext

\* While no request has failed, the conversations are in order.
ChatInv == missed \/ ChatGood

\* Every step keeps the invariant.
LEMMA ChatNextInv ==
    ASSUME Odds = {}, ChatInv, [ChatNext]_chatVars
    PROVE  ChatInv'
<1> SUFFICES ASSUME ~missed'
             PROVE  ChatGood'
  BY DEF ChatInv
<1>1. ChatGood
  BY MissedStays DEF ChatInv
<1>2. CASE Arrives
  BY <1>1, <1>2, AppendArrivesKept, ReplaceArrivesKept, DeleteArrivesKept, ChatArrivesKept,
     StopArrivesKept, ChatRefusedKept DEF Arrives
<1>3. CASE Boots
  BY <1>1, <1>3, SyncReturnsKept, CheckIdleKept, CheckReturnsKept DEF Boots
<1>4. CASE User
  BY <1>1, <1>4, StopAnswerKept, NewKept, ClearKept, ReloadKept, SelectKept, DeleteKept, AskKept
     DEF User
<1>5. CASE Fails
  <2>1. ASSUME NEW r \in Readers, Breaks(r) \/ Hangs(r)
        PROVE  ChatGood'
    <3>1. PICK p \in {"broken", "hung"} : reader' = [reader EXCEPT ![r].pc = p]
      BY <2>1 DEF Breaks, Hangs
    <3>2. /\ reader[r].pc \in {"sent", "reading"} /\ wire' = Unsent(wire, reader[r].run)
          /\ UNCHANGED <<store, filed, answer, current, listed, used, active, msgs, busy, ac,
                         checks, syncing, asked, waived, missed>>
      BY <2>1 DEF Breaks, Hangs, server, page, boot
    <3> QED BY <1>1, <3>1, <3>2, CutOffKept
  <2>2. ~SyncFails /\ ~WriteFails
    BY DEF SyncFails, WriteFails, Misses
  <2> QED BY <1>1, <1>5, <2>1, <2>2, TryFailsKept DEF Fails
<1>6. ASSUME NEW n \in Questions, Agent(n)
      PROVE  ChatGood'
  BY <1>1, <1>6, AgentSaysKept, AgentEndsKept DEF Agent
<1>7. ASSUME NEW r \in Readers, Reads(r)
      PROVE  ChatGood'
  BY <1>1, <1>7, ReadEventKept, ReadEndsKept DEF Reads
<1>8. ASSUME NEW r \in Readers, Retries(r)
      PROVE  ChatGood'
  <2>1. ~GivesUp(r)
    BY DEF GivesUp
  <2> QED BY <1>1, <1>8, <2>1, AwakesKept, TryResumesKept, TryPullsKept DEF Retries
<1>9. CASE UNCHANGED chatVars
  BY <1>1, <1>9, StutterKept
<1> QED BY <1>2, <1>3, <1>4, <1>5, <1>6, <1>7, <1>8, <1>9 DEF ChatNext

\* Under none of the odds, and until a request fails that the page does not
\* repeat, the server, the page and the requests between them agree in all the
\* ways that ChatGood names.
THEOREM ChatInvHolds ==
    ASSUME Odds = {}
    PROVE  ChatSpec => []ChatInv
<1>1. ChatInit => ChatInv
  BY ChatInitGood DEF ChatInv
<1>2. ChatInv /\ [ChatNext]_chatVars => ChatInv'
  BY ChatNextInv
<1> QED BY <1>1, <1>2, PTL DEF ChatSpec

-----------------------------------------------------------------------------
(* What follows from it *)

\* The page and the server both write the question and the answer, and stored
\* is each once: one reply to a question, directly after it, with no piece of
\* it twice (_dedup of ai_chat_store.py, the wipe after a reconnect).
THEOREM EachOnceHolds ==
    ASSUME Odds = {}
    PROVE  ChatSpec => []EachOnce
<1>1. ChatInv => EachOnce
  <2> SUFFICES ASSUME ChatGood
               PROVE  EachOnce
    BY DEF ChatInv, EachOnce
  <2> SUFFICES ASSUME NEW c \in Convs, NEW i \in 1 .. Len(store[c])
               PROVE  LET m == store[c][i] IN
                      /\ m.text # <<>> => Cardinality(About(m)) = 1
                      /\ IsInjective(m.text)
                      /\ m.role = "assistant" /\ m.text # <<>> =>
                            /\ i > 1 /\ store[c][i - 1].role = "user"
                            /\ About(store[c][i - 1]) = About(m)
                      /\ \A j \in 1 .. Len(store[c]) :
                            j # i /\ store[c][j].role = m.role =>
                               About(store[c][j]) \cap About(m) = {}
    BY DEF EachOnce
  <2>1. /\ Of(c) \in SUBSET Nat /\ store[c] \in Seq(Messages) /\ WellMade(Of(c), store[c])
    BY OfIs DEF ChatGood, ChatTyped, Lists
  <2> QED BY <2>1, WellMadeOnce
<1> QED BY <1>1, ChatInvHolds, PTL

\* When nothing is under way, the page shows nothing that the server does not
\* have: it looks the same after a reload (what consume saves when it ends).
THEOREM ShownIsStoredHolds ==
    ASSUME Odds = {}
    PROVE  ChatSpec => []ShownIsStored
<1>1. ChatInv => ShownIsStored
  <2> SUFFICES ASSUME ChatGood, Quiet, NEW c \in listed, NEW i \in 1 .. Len(msgs[c]),
                      msgs[c][i].text # <<>>
               PROVE  \E j \in 1 .. Len(store[c]) :
                         /\ store[c][j].role = msgs[c][i].role
                         /\ IsPrefix(msgs[c][i].text, store[c][j].text)
    BY DEF ChatInv, ShownIsStored
  <2>1. Free /\ wire = <<>> /\ ~syncing
    BY DEF Quiet
  <2>2. Lands(store[c], wire, c, msgs[c][i])
    BY <2>1 DEF ChatGood, Landing
  <2>3. Covers(store[c], msgs[c][i])
    <3>1. wire \in Seq(Requests) /\ Len(wire) = 0
      BY <2>1, WireIs DEF ChatGood
    <3>2. \A k \in 1 .. Len(wire) : wire[k].op \in {"chat", "stop"}
      BY <3>1
    <3> QED BY <2>2, <3>1, <3>2, LandsNow
  <2> QED BY <2>3 DEF Covers
<1> QED BY <1>1, ChatInvHolds, PTL

\* A finished answer that the user did not stop or remove is stored whole, with
\* its question, whatever became of the page that asked for it (_persist, and
\* the writes of the page that come before and after it).
THEOREM NothingLostHolds ==
    ASSUME Odds = {}
    PROVE  ChatSpec => []NothingLost
<1>1. ChatInv => NothingLost
  <2> SUFFICES ASSUME ChatGood, NEW n \in Questions \ waived,
                      answer[n].state = "done", answer[n].events # <<>>
               PROVE  /\ \E i \in 1 .. Len(store[asked[n]]) : store[asked[n]][i] = Question(n)
                      /\ \E i \in 1 .. Len(store[asked[n]]) :
                            store[asked[n]][i] = Reply(AnswerText(n, answer[n].events))
    BY DEF ChatInv, NothingLost
  <2>1. n \in 1 .. Len(asked)
    BY DEF ChatGood, Runs, Questions
  <2>2. /\ Contains(store[asked[n]], Question(n))
        /\ Contains(store[asked[n]], Reply(AnswerText(n, answer[n].events)))
    BY <2>1 DEF ChatGood, Saved, Whole
  <2> QED BY <2>2 DEF Contains
<1> QED BY <1>1, ChatInvHolds, PTL

-----------------------------------------------------------------------------
(***************************************************************************)
(* What remains of it when requests may fail and overtake each other       *)
(***************************************************************************)

\* m speaks of questions in "own" only,
Speaks(own, m) == \A j \in 1 .. Len(m.text) : m.text[j][1] \in own
\* ... and every message of s.
Within(own, s) == \A i \in 1 .. Len(s) : Speaks(own, s[i])

\* What is kept, on either side, belongs where it is kept.
Placed == \A c \in Convs : Within(Of(c), store[c]) /\ Within(Of(c), msgs[c])

\* The messages "all" can be those of the page.
AtHome(all) == /\ all \in [Convs -> Seq(Messages)]
               /\ \A b \in Convs \ used : all[b] = <<>>
               /\ \A b \in Convs : Within(Of(b), all[b])

\* So does what is on its way. After a reload nothing is asked or deleted before
\* the transcripts have come.
Proper(q) ==
    /\ Within(Of(q.conv), q.msgs)
    /\ q.op = "append" => Len(q.msgs) = 1
    /\ q.op = "chat" => q.run \in Of(q.conv) /\ ~syncing
    /\ q.op = "delete" => q.conv \notin listed /\ ~syncing
\* Every request under way is proper.
Sent == \A q \in ToSet(wire) : Proper(q)

\* A run belongs to the conversation it is kept for, and a listed conversation
\* that had one is in the file.
Owned ==
    /\ \A n \in Questions : answer[n].state # "none" => n \in 1 .. Len(asked)
    /\ \A c \in Convs : current[c] # NoQuestion =>
          current[c] \in Of(c) /\ (c \in listed => c \in filed)

\* An answer is read in its conversation, which the transcripts on their way
\* will not close.
Reading ==
    /\ ac # NoReader => ~Off(ac)
    /\ \A r \in Readers : ~Off(r) => /\ reader[r].conv = active /\ reader[r].run \in Of(active)
                                     /\ syncing => active \in filed

\* The page asks for the run of the open conversation, or of one that has none.
Looking == \A c \in checks : c # active =>
    /\ current[c] = NoQuestion
    /\ \A q \in ToSet(wire) : q.op = "chat" => q.conv # c

\* All of it.
HomeInv == ChatTyped /\ Placed /\ Sent /\ Owned /\ Reading /\ Looking

-----------------------------------------------------------------------------
(* Sequences as sets of their members *)

\* Members by their places.
LEMMA InToSet ==
    ASSUME NEW S, NEW s \in Seq(S)
    PROVE  /\ \A e : e \in ToSet(s) <=> \E i \in 1 .. Len(s) : s[i] = e
           /\ ToSet(s) \subseteq S
<1>1. DOMAIN s = 1 .. Len(s) /\ \A i \in 1 .. Len(s) : s[i] \in S
  OBVIOUS
<1> QED BY <1>1 DEF ToSet

\* Appending and joining add members.
LEMMA JoinedToSet ==
    ASSUME NEW S, NEW s \in Seq(S), NEW t \in Seq(S)
    PROVE  s \o t \in Seq(S) /\ ToSet(s \o t) \subseteq ToSet(s) \cup ToSet(t)
<1> DEFINE u == s \o t
<1>1. /\ u \in Seq(S) /\ Len(u) = Len(s) + Len(t) /\ Len(s) \in Nat /\ Len(t) \in Nat
      /\ \A i \in 1 .. Len(u) : u[i] = IF i <= Len(s) THEN s[i] ELSE t[i - Len(s)]
  BY ConcatProperties
<1> HIDE DEF u
<1>2. ASSUME NEW e \in ToSet(u)
      PROVE  e \in ToSet(s) \cup ToSet(t)
  <2>1. PICK i \in 1 .. Len(u) : u[i] = e
    BY <1>1, InToSet
  <2>2. CASE i <= Len(s)
    <3>1. i \in 1 .. Len(s) /\ s[i] = e
      BY <1>1, <2>1, <2>2
    <3> QED BY <3>1, InToSet
  <2>3. CASE ~(i <= Len(s))
    <3>1. i - Len(s) \in 1 .. Len(t) /\ t[i - Len(s)] = e
      BY <1>1, <2>1, <2>3
    <3> QED BY <3>1, InToSet
  <2> QED BY <2>2, <2>3
<1> QED BY <1>1, <1>2 DEF u

\* ... and so does one member more.
LEMMA AddedToSet ==
    ASSUME NEW S, NEW s \in Seq(S), NEW e \in S
    PROVE  Append(s, e) \in Seq(S) /\ ToSet(Append(s, e)) \subseteq ToSet(s) \cup {e}
<1> DEFINE t == <<e>>
<1>1. t \in Seq(S) /\ Append(s, e) = s \o t
  BY Appended1
<1>2. ToSet(t) = {e}
  BY DEF ToSet
<1> HIDE DEF t
<1> QED BY <1>1, <1>2, JoinedToSet

\* Removing a member adds none.
LEMMA RemovedToSet ==
    ASSUME NEW S, NEW s \in Seq(S), NEW i \in 1 .. Len(s)
    PROVE  RemoveAt(s, i) \in Seq(S) /\ ToSet(RemoveAt(s, i)) \subseteq ToSet(s)
<1> DEFINE a == SubSeq(s, 1, i - 1)
           b == SubSeq(s, i + 1, Len(s))
<1>1. Len(s) \in Nat /\ i \in Nat /\ i >= 1 /\ i <= Len(s) /\ \A k \in 1 .. Len(s) : s[k] \in S
  OBVIOUS
<1>2. a \in Seq(S) /\ ToSet(a) \subseteq ToSet(s)
  <2> DEFINE n == i - 1
  <2>1. n \in Nat /\ n \in Int /\ \A k \in 1 .. n : s[k] \in S /\ k \in 1 .. Len(s)
    BY <1>1
  <2> HIDE DEF n
  <2>2. /\ SubSeq(s, 1, n) \in Seq(S) /\ Len(SubSeq(s, 1, n)) = n
        /\ \A k \in 1 .. n : SubSeq(s, 1, n)[k] = s[k]
    BY <2>1, SubSeqProperties
  <2>3. a \in Seq(S) /\ Len(a) = n /\ \A k \in 1 .. n : a[k] = s[k]
    BY <2>2 DEF n
  <2> HIDE DEF a
  <2> QED BY <2>1, <2>3, InToSet
<1>3. b \in Seq(S) /\ ToSet(b) \subseteq ToSet(s)
  <2> DEFINE m == i + 1
             n == Len(s)
  <2>1. m \in Int /\ n \in Int /\ \A k \in m .. n : s[k] \in S /\ k \in 1 .. Len(s)
    BY <1>1
  <2> HIDE DEF m, n
  <2>2. /\ SubSeq(s, m, n) \in Seq(S)
        /\ Len(SubSeq(s, m, n)) = IF m <= n THEN n - m + 1 ELSE 0
        /\ \A k \in 1 .. n - m + 1 : SubSeq(s, m, n)[k] = s[m + k - 1]
    BY <2>1, SubSeqProperties
  <2>3. b = SubSeq(s, m, n)
    BY DEF m, n
  <2> HIDE DEF b
  <2>4. ASSUME NEW k \in 1 .. Len(b)
        PROVE  b[k] = s[m + k - 1] /\ m + k - 1 \in 1 .. Len(s)
    <3>1. m <= n
      BY <2>1, <2>2, <2>3
    <3>2. k \in 1 .. n - m + 1 /\ m + k - 1 \in m .. n
      BY <2>1, <2>2, <2>3, <3>1
    <3> QED BY <2>1, <2>2, <2>3, <3>2
  <2>5. b \in Seq(S)
    BY <2>2, <2>3
  <2>6. ASSUME NEW e \in ToSet(b)
        PROVE  e \in ToSet(s)
    <3>1. PICK k \in 1 .. Len(b) : b[k] = e
      BY <2>5, InToSet
    <3>2. m + k - 1 \in 1 .. Len(s) /\ s[m + k - 1] = e
      BY <2>4, <3>1
    <3> QED BY <3>2, InToSet
  <2> QED BY <2>5, <2>6
<1>4. RemoveAt(s, i) = a \o b
  BY DEF RemoveAt
<1> HIDE DEF a, b
<1>5. a \o b \in Seq(S) /\ ToSet(a \o b) \subseteq ToSet(a) \cup ToSet(b)
  BY <1>2, <1>3, JoinedToSet
<1> QED BY <1>2, <1>3, <1>4, <1>5

\* So does a question that is never sent.
LEMMA UnsentToSet ==
    ASSUME NEW w \in Seq(Requests), NEW n
    PROVE  Unsent(w, n) \in Seq(Requests) /\ ToSet(Unsent(w, n)) \subseteq ToSet(w)
<1> DEFINE at == {i \in 1 .. Len(w) : w[i].op = "chat" /\ w[i].run = n}
<1>1. Unsent(w, n) = IF at = {} THEN w ELSE RemoveAt(w, CHOOSE i \in at : TRUE)
  BY DEF Unsent
<1>2. CASE at = {}
  BY <1>1, <1>2
<1>3. CASE at # {}
  <2>1. PICK i \in at : i = CHOOSE k \in at : TRUE
    BY <1>3
  <2>2. i \in 1 .. Len(w) /\ Unsent(w, n) = RemoveAt(w, i)
    BY <1>1, <1>3, <2>1
  <2> QED BY <2>2, RemovedToSet
<1> QED BY <1>2, <1>3

-----------------------------------------------------------------------------
(* Transcripts that stay at home *)

\* Nothing speaks of nothing, and who speaks of some questions speaks of more.
LEMMA WithinMore ==
    ASSUME NEW own, NEW all, own \subseteq all
    PROVE  /\ Within(own, <<>>)
           /\ \A s : Within(own, s) => Within(all, s)
           /\ \A m : Speaks(own, m) => Speaks(all, m)
  BY DEF Within, Speaks

\* One message more, or less.
LEMMA WithinAdded ==
    ASSUME NEW own, NEW s \in Seq(Messages), Within(own, s)
    PROVE  /\ \A m \in Messages : Speaks(own, m) =>
                 Append(s, m) \in Seq(Messages) /\ Within(own, Append(s, m))
           /\ s # <<>> => /\ Front(s) \in Seq(Messages) /\ Within(own, Front(s))
                          /\ Last(s) \in Messages /\ Speaks(own, Last(s))
<1>1. ASSUME NEW m \in Messages, Speaks(own, m)
      PROVE  Append(s, m) \in Seq(Messages) /\ Within(own, Append(s, m))
  <2> DEFINE u == Append(s, m)
  <2>1. /\ u \in Seq(Messages) /\ Len(u) = Len(s) + 1 /\ u[Len(s) + 1] = m /\ Len(s) \in Nat
        /\ \A i \in 1 .. Len(s) : u[i] = s[i]
    BY Appended1
  <2> HIDE DEF u
  <2>2. \A i \in 1 .. Len(u) : i \in 1 .. Len(s) \/ i = Len(s) + 1
    BY <2>1
  <2>3. Within(own, u)
    BY <1>1, <2>1, <2>2 DEF Within
  <2> QED BY <2>1, <2>3 DEF u
<1>2. ASSUME s # <<>>
      PROVE  /\ Front(s) \in Seq(Messages) /\ Within(own, Front(s))
             /\ Last(s) \in Messages /\ Speaks(own, Last(s))
  <2>1. /\ Front(s) \in Seq(Messages) /\ Len(Front(s)) = Len(s) - 1
        /\ Len(s) \in Nat \ {0} /\ Last(s) \in Messages /\ Last(s) = s[Len(s)]
        /\ \A i \in 1 .. Len(s) - 1 : Front(s)[i] = s[i] /\ i \in 1 .. Len(s)
    BY <1>2, Fronts
  <2>2. Len(s) \in 1 .. Len(s)
    BY <2>1
  <2> QED BY <2>1, <2>2 DEF Within
<1> QED BY <1>1, <1>2

\* _dedup keeps a transcript at home.
LEMMA WithinDeduped ==
    ASSUME NEW own, NEW s \in Seq(Messages), Within(own, s), NEW m \in Messages, Speaks(own, m)
    PROVE  Deduped(s, m) \in Seq(Messages) /\ Within(own, Deduped(s, m))
<1>1. Append(s, m) \in Seq(Messages) /\ Within(own, Append(s, m))
  BY WithinAdded
<1>2. s # <<>> => Append(Front(s), m) \in Seq(Messages) /\ Within(own, Append(Front(s), m))
  BY WithinAdded
<1>3. \/ Deduped(s, m) = s \/ Deduped(s, m) = Append(s, m)
      \/ s # <<>> /\ Deduped(s, m) = Append(Front(s), m)
  BY DEF Deduped
<1> QED BY <1>1, <1>2, <1>3

\* Questions, answers and the lines of the page speak of their question.
LEMMA SpeaksOfIts ==
    ASSUME NEW own \in SUBSET Nat, NEW n \in own
    PROVE  /\ Question(n) \in Messages /\ Speaks(own, Question(n))
           /\ Reply(<<>>) \in Messages /\ Speaks(own, Reply(<<>>))
           /\ \A ev \in Seq(Nat) : /\ Reply(AnswerText(n, ev)) \in Messages
                                   /\ Speaks(own, Reply(AnswerText(n, ev)))
<1>1. n \in Nat /\ <<>> \in Texts
  BY NoReply
<1>2. Speaks(own, Question(n))
  <2> DEFINE t == << <<n, 0>> >>
  <2>1. Len(t) = 1 /\ t[1][1] = n
    OBVIOUS
  <2>2. Question(n).text = t
    BY <1>1, MessageIs
  <2> HIDE DEF t
  <2>3. \A j \in 1 .. Len(t) : t[j][1] \in own
    BY <2>1
  <2> QED BY <2>2, <2>3 DEF Speaks
<1>3. Speaks(own, Reply(<<>>))
  BY <1>1, MessageIs DEF Speaks
<1>4. ASSUME NEW ev \in Seq(Nat)
      PROVE  Reply(AnswerText(n, ev)) \in Messages /\ Speaks(own, Reply(AnswerText(n, ev)))
  <2> DEFINE t == AnswerText(n, ev)
  <2>1. t \in Texts /\ Len(t) = Len(ev) /\ \A i \in 1 .. Len(ev) : t[i][1] = n
    BY <1>1, AnswerIs
  <2> HIDE DEF t
  <2>2. Reply(t) \in Messages /\ Reply(t).text = t
    BY <2>1, MessageIs
  <2>3. Speaks(own, Reply(t))
    BY <2>1, <2>2 DEF Speaks
  <2> QED BY <2>2, <2>3 DEF t
<1> QED BY <1>1, <1>2, <1>3, <1>4, MessageIs

\* patchLast with a text at home.
LEMMA PatchedHome ==
    ASSUME ChatTyped, Placed, NEW t \in Texts, Speaks(Of(active), Reply(t))
    PROVE  AtHome(Patched(t))
<1> DEFINE s == msgs[active]
           u == IF EndsInReply(s) THEN Append(Front(s), Reply(t)) ELSE s
           own == Of(active)
<1>1. /\ active \in Convs /\ active \in used /\ msgs \in [Convs -> Seq(Messages)]
      /\ s \in Seq(Messages) /\ Within(own, s) /\ \A b \in Convs \ used : msgs[b] = <<>>
  BY DEF ChatTyped, Placed
<1>2. Patched(t) = [msgs EXCEPT ![active] = u]
  BY <1>1 DEF Patched
<1>3. u \in Seq(Messages) /\ Within(own, u)
  <2>1. Reply(t) \in Messages /\ Speaks(own, Reply(t))
    BY MessageIs
  <2> HIDE DEF s, own
  <2>2. s # <<>> => Append(Front(s), Reply(t)) \in Seq(Messages)
                    /\ Within(own, Append(Front(s), Reply(t)))
    BY <1>1, <2>1, WithinAdded
  <2> QED BY <1>1, <2>2 DEF EndsInReply
<1> HIDE DEF u
<1>4. /\ Patched(t) \in [Convs -> Seq(Messages)] /\ Patched(t)[active] = u
      /\ \A b \in Convs : b # active => Patched(t)[b] = msgs[b]
  BY <1>1, <1>2, <1>3
<1> QED BY <1>1, <1>3, <1>4 DEF Placed, AtHome

\* ... or with a piece more, of the answer to a question of its own.
LEMMA ExtendedHome ==
    ASSUME ChatTyped, Placed, NEW n \in Of(active), NEW k \in Nat
    PROVE  AtHome(Extended(<<n, k>>))
<1> DEFINE s == msgs[active]
           o == LastText
           t == Append(o, <<n, k>>)
           own == Of(active)
<1>1. /\ s \in Seq(Messages) /\ Within(own, s) /\ own \in SUBSET Nat /\ n \in Nat
  BY OfIs DEF ChatTyped, Placed
<1>2. o \in Texts /\ \A j \in 1 .. Len(o) : o[j][1] \in own
  <2>1. CASE EndsInReply(s)
    <3>1. o = Last(s).text /\ Last(s) \in Messages /\ Speaks(own, Last(s))
      BY <1>1, <2>1, WithinAdded DEF LastText, EndsInReply
    <3> QED BY <3>1, TextIs DEF Speaks
  <2>2. CASE ~EndsInReply(s)
    <3>1. o = <<>> /\ Len(<<>>) = 0
      BY <2>2 DEF LastText
    <3> QED BY <3>1, NoReply
  <2> QED BY <2>1, <2>2
<1> HIDE DEF o, own
<1>3. /\ t \in Texts /\ Len(t) = Len(o) + 1 /\ t[Len(o) + 1] = <<n, k>> /\ Len(o) \in Nat
      /\ \A j \in 1 .. Len(o) : t[j] = o[j]
  <2>1. <<n, k>> \in Nat \X Nat
    BY <1>1
  <2> QED BY <1>2, <2>1, Appended1 DEF Texts
<1> HIDE DEF t
<1>4. Speaks(own, Reply(t))
  <2>1. \A j \in 1 .. Len(t) : j \in 1 .. Len(o) \/ j = Len(o) + 1
    BY <1>3
  <2>2. <<n, k>>[1] = n /\ n \in own
    BY DEF own
  <2>3. \A j \in 1 .. Len(t) : t[j][1] \in own
    BY <1>2, <1>3, <2>1, <2>2
  <2> QED BY <1>3, <2>3, MessageIs DEF Speaks
<1>5. Extended(<<n, k>>) = Patched(t)
  BY DEF Extended, t, o
<1> QED BY <1>3, <1>4, <1>5, PatchedHome DEF own

-----------------------------------------------------------------------------
(* Steps *)

\* A request that the page may add: it takes nothing out of its conversation.
Sendable(q) ==
    /\ q \in Requests /\ q.conv \in used /\ Within(Of(q.conv), q.msgs)
    /\ q.op \in {"append", "replace", "stop"}
    /\ q.op = "append" => Len(q.msgs) = 1

\* What the constants and the invariant say of the variables.
LEMMA HomeIs ==
    ASSUME HomeInv
    PROVE  /\ active \in Convs /\ active \in used /\ active \in listed
           /\ listed \subseteq used /\ used \subseteq Convs
           /\ AtHome(msgs) /\ wire \in Seq(Requests) /\ reader \in [Readers -> Calls]
           /\ \A q \in ToSet(wire) : q \in Requests /\ q.conv \in used /\ Proper(q)
           /\ \A n : n \in Of(active) => n \in Nat /\ n \in Questions
<1>1. /\ active \in listed /\ listed \subseteq used /\ used \subseteq Convs
      /\ wire \in Seq(Requests) /\ reader \in [Readers -> Calls]
      /\ \A i \in 1 .. Len(wire) : wire[i].conv \in used
      /\ AtHome(msgs)
  BY DEF HomeInv, ChatTyped, Placed, AtHome
<1>2. ASSUME NEW q \in ToSet(wire)
      PROVE  q \in Requests /\ q.conv \in used /\ Proper(q)
  <2>1. q \in Requests /\ \E i \in 1 .. Len(wire) : wire[i] = q
    BY <1>1, InToSet
  <2> QED BY <1>1, <2>1 DEF HomeInv, Sent
<1>3. \A n : n \in Of(active) => n \in Nat /\ n \in Questions
  BY OfIs DEF HomeInv
<1> QED BY <1>1, <1>2, <1>3

\* The page does something where it is: it shows, reads, sends or asks.
LEMMA PageHome ==
    ASSUME HomeInv,
           UNCHANGED <<store, filed, answer, current, listed, used, active, asked>>,
           AtHome(msgs'),
           busy' \in Convs \cup {NoConv},
           ac' \in Readers \cup {NoReader}, ac' # NoReader => reader'[ac'].pc # "off",
           reader' \in [Readers -> Calls],
           \A r \in Readers : reader'[r].pc # "off" =>
              /\ reader'[r].conv = active /\ reader'[r].run \in Of(active)
              /\ syncing' => active \in filed,
           \A c \in checks' : c = active \/ c \in checks,
           syncing' \in BOOLEAN, syncing' => syncing \/ wire' = <<>>,
           wire' \in Seq(Requests),
           \A q \in ToSet(wire') : q \in ToSet(wire) \/ Sendable(q)
    PROVE  HomeInv'
<1>1. /\ \A c : Of(c)' = Of(c)
      /\ \A c : Of(c) = {n \in 1 .. Len(asked) : asked[n] = c}
  BY DEF Of
<1>2. \A q \in ToSet(wire') : q.conv \in used /\ Proper(q)'
  <2> SUFFICES ASSUME NEW q \in ToSet(wire')
               PROVE  q.conv \in used /\ Proper(q)'
    OBVIOUS
  <2>1. syncing' => syncing
    <3>1. wire' # <<>>
      BY DEF ToSet
    <3> QED BY <3>1
  <2>2. CASE q \in ToSet(wire)
    <3>1. q.conv \in used /\ Proper(q)
      BY <2>2, HomeIs
    <3> QED BY <1>1, <2>1, <3>1 DEF Proper
  <2>3. CASE Sendable(q)
    BY <1>1, <2>3 DEF Proper, Sendable
  <2> QED BY <2>2, <2>3
<1>3. ChatTyped'
  <2>1. \A i \in 1 .. Len(wire') : wire'[i].conv \in used
    <3>1. \A i \in 1 .. Len(wire') : wire'[i] \in ToSet(wire')
      BY InToSet
    <3> QED BY <1>2, <3>1
  <2>2. checks' \subseteq used
    BY DEF HomeInv, ChatTyped
  <2>3. msgs' \in [Convs -> Seq(Messages)] /\ \A b \in Convs \ used : msgs'[b] = <<>>
    BY DEF AtHome
  <2> QED BY <2>1, <2>2, <2>3 DEF HomeInv, ChatTyped
<1>4. Placed'
  <2>1. \A c \in Convs : Within(Of(c), store[c]) /\ Within(Of(c), msgs'[c])
    BY DEF HomeInv, Placed, AtHome
  <2> QED BY <1>1, <2>1 DEF Placed
<1>5. Sent'
  BY <1>2 DEF Sent
<1>6. Owned'
  BY <1>1 DEF HomeInv, Owned
<1>7. Reading'
  BY <1>1 DEF Reading, Off
<1>8. Looking'
  <2> SUFFICES ASSUME NEW c \in checks', c # active
               PROVE  /\ current[c] = NoQuestion
                      /\ \A q \in ToSet(wire') : q.op = "chat" => q.conv # c
    BY DEF Looking
  <2>1. /\ current[c] = NoQuestion
        /\ \A q \in ToSet(wire) : q.op = "chat" => q.conv # c
    BY DEF HomeInv, Looking
  <2> QED BY <2>1 DEF Sendable
<1> QED BY <1>3, <1>4, <1>5, <1>6, <1>7, <1>8 DEF HomeInv

\* The server does something: an agent, or a request that arrives.
LEMMA ServerHome ==
    ASSUME HomeInv, UNCHANGED <<page, busy, ac, boot, asked>>,
           store' \in [Convs -> Seq(Messages)],
           \A c \in Convs : Within(Of(c), store'[c]),
           filed' \subseteq used, IsFiniteSet(filed'),
           \A c \in filed : c \in filed' \/ (c \notin listed /\ ~syncing),
           answer' \in [Questions -> Answers],
           \A n \in Questions : answer'[n].state # "none" => n \in 1 .. Len(asked),
           current' \in [Convs -> 0 .. MaxAsked],
           \A c \in Convs : \/ current'[c] = current[c]
                            \/ /\ current'[c] \in Of(c) /\ c \in filed'
                               /\ \E q \in ToSet(wire) : q.op = "chat" /\ q.conv = c,
           wire' \in Seq(Requests), ToSet(wire') \subseteq ToSet(wire),
           reader' \in [Readers -> Calls],
           \A r \in Readers : /\ reader'[r].pc = "off" <=> Off(r)
                              /\ reader'[r].conv = reader[r].conv
                              /\ ~Off(r) => reader'[r].run \in Of(active)
    PROVE  HomeInv'
<1>1. /\ \A c : Of(c)' = Of(c)
      /\ UNCHANGED <<listed, used, active, msgs, checks, syncing>>
  BY DEF Of, page, boot
<1>2. \A q \in ToSet(wire') : q.conv \in used /\ Proper(q)'
  <2> SUFFICES ASSUME NEW q \in ToSet(wire')
               PROVE  q.conv \in used /\ Proper(q)'
    OBVIOUS
  <2>1. q.conv \in used /\ Proper(q)
    BY HomeIs
  <2> QED BY <1>1, <2>1 DEF Proper
<1>3. ChatTyped'
  <2>1. \A i \in 1 .. Len(wire') : wire'[i].conv \in used
    <3>1. \A i \in 1 .. Len(wire') : wire'[i] \in ToSet(wire')
      BY InToSet
    <3> QED BY <1>2, <3>1
  <2> QED BY <1>1, <2>1 DEF HomeInv, ChatTyped
<1>4. Placed'
  BY <1>1 DEF HomeInv, Placed
<1>5. Sent'
  BY <1>2 DEF Sent
<1>6. Owned'
  BY <1>1 DEF HomeInv, Owned
<1>7. Reading'
  <2>1. syncing => (active \in filed => active \in filed')
    OBVIOUS
  <2>2. ac # NoReader => ac \in Readers
    BY DEF HomeInv, ChatTyped
  <2> QED BY <1>1, <2>1, <2>2 DEF HomeInv, Reading, Off
<1>8. Looking'
  <2> SUFFICES ASSUME NEW c \in checks, c # active
               PROVE  /\ current'[c] = NoQuestion
                      /\ \A q \in ToSet(wire') : q.op = "chat" => q.conv # c
    BY <1>1 DEF Looking
  <2>1. /\ current[c] = NoQuestion
        /\ \A q \in ToSet(wire) : q.op = "chat" => q.conv # c
    BY DEF HomeInv, Looking
  <2>2. c \in Convs
    BY DEF HomeInv, ChatTyped
  <2> QED BY <2>1, <2>2
<1> QED BY <1>3, <1>4, <1>5, <1>6, <1>7, <1>8 DEF HomeInv

\* The user does something when nothing is under way: another conversation is
\* made, opened or removed.
LEMMA ChoiceHome ==
    ASSUME HomeInv, Free, ~syncing, UNCHANGED <<server, link, syncing, asked>>,
           listed' \subseteq used', used \subseteq used', used' \subseteq Convs,
           IsFiniteSet(listed'), active' \in listed',
           \A c \in listed' : c \in listed \/ c \notin used,
           AtHome(msgs'), checks' \subseteq {active'},
           wire' \in Seq(Requests),
           \A q \in ToSet(wire') :
              \/ q \in ToSet(wire)
              \/ q.op = "delete" /\ q.msgs = <<>> /\ q.conv \in used' \ listed'
    PROVE  HomeInv'
<1>1. /\ \A c : Of(c)' = Of(c)
      /\ UNCHANGED <<store, filed, answer, current, busy, ac, reader, asked>>
  BY DEF Of, server, link
<1>2. \A q \in ToSet(wire') : q.conv \in used' /\ Proper(q)'
  <2> SUFFICES ASSUME NEW q \in ToSet(wire')
               PROVE  q.conv \in used' /\ Proper(q)'
    OBVIOUS
  <2>1. CASE q \in ToSet(wire)
    <3>1. q.conv \in used /\ Proper(q)
      BY <2>1, HomeIs
    <3> QED BY <1>1, <3>1 DEF Proper
  <2>2. CASE q.op = "delete" /\ q.msgs = <<>> /\ q.conv \in used' \ listed'
    BY <1>1, <2>2, WithinMore DEF Proper
  <2> QED BY <2>1, <2>2
<1>3. ChatTyped'
  <2>1. \A i \in 1 .. Len(wire') : wire'[i].conv \in used'
    <3>1. \A i \in 1 .. Len(wire') : wire'[i] \in ToSet(wire')
      BY InToSet
    <3> QED BY <1>2, <3>1
  <2>2. /\ msgs' \in [Convs -> Seq(Messages)] /\ \A b \in Convs \ used' : msgs'[b] = <<>>
    BY DEF AtHome
  <2>3. checks' \subseteq used'
    OBVIOUS
  <2>4. asked \in Seq(used')
    <3>1. asked \in Seq(used)
      BY DEF HomeInv, ChatTyped
    <3> QED BY <3>1
  <2> QED BY <1>1, <2>1, <2>2, <2>3, <2>4 DEF HomeInv, ChatTyped
<1>4. Placed'
  BY <1>1 DEF HomeInv, Placed, AtHome
<1>5. Sent'
  BY <1>2 DEF Sent
<1>6. Owned'
  <2>1. \A c \in Convs : current[c] # NoQuestion => c \in used
    BY OfIs DEF HomeInv, Owned
  <2> QED BY <1>1, <2>1 DEF HomeInv, Owned
<1>7. Reading'
  <2>1. ac # NoReader => ac \in Readers
    BY DEF HomeInv, ChatTyped
  <2> QED BY <1>1, <2>1 DEF HomeInv, Reading, Off, Free
<1>8. Looking'
  BY DEF Looking
<1> QED BY <1>3, <1>4, <1>5, <1>6, <1>7, <1>8 DEF HomeInv

-----------------------------------------------------------------------------
(* What the server does *)

\* A request is taken off the wire.
LEMMA TakenHome ==
    ASSUME HomeInv, NEW i \in 1 .. Len(wire)
    PROVE  /\ RemoveAt(wire, i) \in Seq(Requests)
           /\ ToSet(RemoveAt(wire, i)) \subseteq ToSet(wire)
           /\ wire[i] \in ToSet(wire) /\ wire[i] \in Requests /\ Proper(wire[i])
           /\ wire[i].conv \in used /\ wire[i].conv \in Convs
           /\ wire[i].msgs \in Seq(Messages) /\ wire[i].run \in 0 .. MaxAsked
<1>1. wire \in Seq(Requests)
  BY HomeIs
<1>2. wire[i] \in ToSet(wire)
  BY <1>1, InToSet
<1>3. wire[i] \in Requests /\ Proper(wire[i]) /\ wire[i].conv \in used /\ used \subseteq Convs
  BY <1>2, HomeIs
<1>4. wire[i].msgs \in Seq(Messages) /\ wire[i].run \in 0 .. MaxAsked
  BY <1>3 DEF Requests
<1> QED BY <1>1, <1>2, <1>3, <1>4, RemovedToSet

\* A message is put into its conversation.
LEMMA StoredHome ==
    ASSUME HomeInv, NEW c \in used, NEW m \in Messages, Speaks(Of(c), m), Stored(c, m)
    PROVE  /\ store' \in [Convs -> Seq(Messages)]
           /\ \A b \in Convs : Within(Of(b), store'[b])
           /\ filed' \subseteq used /\ IsFiniteSet(filed')
           /\ c \in filed' /\ \A b \in filed : b \in filed'
<1> DEFINE s == store[c]
           z == Deduped(s, m)
           own == Of(c)
<1>1. /\ c \in Convs /\ store \in [Convs -> Seq(Messages)] /\ s \in Seq(Messages)
      /\ filed \subseteq used /\ IsFiniteSet(filed) /\ Within(own, s)
      /\ \A b \in Convs : Within(Of(b), store[b])
  BY DEF HomeInv, ChatTyped, Placed
<1>2. store' = [store EXCEPT ![c] = z] /\ filed' = filed \cup {c}
  BY <1>1 DEF Stored
<1>3. z \in Seq(Messages) /\ Within(own, z)
  <2> HIDE DEF s, own
  <2> QED BY <1>1, WithinDeduped DEF own
<1> HIDE DEF z
<1>4. /\ store' \in [Convs -> Seq(Messages)] /\ store'[c] = z
      /\ \A b \in Convs : b # c => store'[b] = store[b]
  BY <1>1, <1>2, <1>3
<1>5. \A b \in Convs : Within(Of(b), store'[b])
  BY <1>1, <1>3, <1>4
<1>6. IsFiniteSet(filed \cup {c})
  BY <1>1, FS_AddElement
<1> QED BY <1>1, <1>2, <1>4, <1>5, <1>6

\* Nothing changes in a table that is not touched.
LEMMA ServerIs ==
    ASSUME HomeInv
    PROVE  /\ store \in [Convs -> Seq(Messages)] /\ \A c \in Convs : Within(Of(c), store[c])
           /\ filed \subseteq used /\ IsFiniteSet(filed)
           /\ answer \in [Questions -> Answers] /\ current \in [Convs -> 0 .. MaxAsked]
           /\ \A n \in Questions : answer[n].state # "none" => n \in 1 .. Len(asked)
           /\ \A n \in Questions : answer[n].events \in Seq(Nat)
           /\ wire \in Seq(Requests) /\ ToSet(wire) \subseteq ToSet(wire)
           /\ reader \in [Readers -> Calls]
           /\ \A r \in Readers : /\ reader[r].pc = "off" <=> Off(r)
                                 /\ ~Off(r) => reader[r].run \in Of(active)
           /\ \A c \in Convs : current[c] # NoQuestion =>
                 current[c] \in Of(c) /\ asked[current[c]] = c /\ current[c] \in Questions
                 /\ current[c] \in 1 .. Len(asked)
<1>1. \A n \in Questions : answer[n].events \in Seq(Nat)
  BY DEF HomeInv, ChatTyped, Answers
<1>2. \A c \in Convs : current[c] # NoQuestion => current[c] \in Of(c)
  BY DEF HomeInv, Owned
<1>3. /\ \A n \in Questions : answer[n].state # "none" => n \in 1 .. Len(asked)
      /\ \A r \in Readers : ~Off(r) => reader[r].run \in Of(active)
  BY DEF HomeInv, Owned, Reading
<1>4. \A c \in Convs : Within(Of(c), store[c])
  BY DEF HomeInv, Placed
<1>5. ChatTyped
  BY DEF HomeInv
<1>6. \A c \in Convs : current[c] # NoQuestion =>
         asked[current[c]] = c /\ current[c] \in Questions /\ current[c] \in 1 .. Len(asked)
  BY <1>2, <1>5, OfIs
<1>7. /\ store \in [Convs -> Seq(Messages)] /\ filed \subseteq used /\ IsFiniteSet(filed)
      /\ answer \in [Questions -> Answers] /\ current \in [Convs -> 0 .. MaxAsked]
      /\ wire \in Seq(Requests) /\ reader \in [Readers -> Calls]
  BY <1>5 DEF ChatTyped
<1>8. \A r \in Readers : reader[r].pc = "off" <=> Off(r)
  BY DEF Off
<1> QED BY <1>1, <1>2, <1>3, <1>4, <1>6, <1>7, <1>8

\* The agent says one thing more of the answer to its question.
LEMMA AgentSaysHome ==
    ASSUME HomeInv, NEW n \in Questions, AgentSays(n)
    PROVE  HomeInv'
<1> DEFINE ev == answer[n].events
           said == Append(ev, Len(ev) + 1)
<1>1. /\ answer[n].state = "going" /\ answer' = [answer EXCEPT ![n].events = said]
      /\ UNCHANGED <<store, filed, current, reader, wire>>
      /\ UNCHANGED <<page, busy, ac, boot, asked>>
  BY DEF AgentSays, link, past
<1>2. answer \in [Questions -> Answers] /\ ev \in Seq(Nat)
  BY ServerIs
<1>3. said \in Seq(Nat)
  BY <1>2
<1> HIDE DEF said
<1>4. /\ answer' \in [Questions -> Answers]
      /\ \A k \in Questions : answer'[k].state = answer[k].state
  <2>1. answer[n] \in Answers
    BY <1>2
  <2>2. [answer[n] EXCEPT !.events = said] \in Answers
        /\ [answer[n] EXCEPT !.events = said].state = answer[n].state
    BY <1>3, <2>1 DEF Answers
  <2>3. answer' = [answer EXCEPT ![n] = [answer[n] EXCEPT !.events = said]]
    BY <1>1, <1>2
  <2> QED BY <1>2, <2>2, <2>3
<1> QED BY <1>1, <1>4, ServerIs, ServerHome

\* A run ends, and its answer is stored where its question was asked.
LEMMA EndHome ==
    ASSUME HomeInv, NEW n \in Questions, answer[n].state = "going", NEW ev \in Seq(Nat),
           EndRun(n, ev), UNCHANGED <<page, link, boot, asked>>,
           wire' \in Seq(Requests), ToSet(wire') \subseteq ToSet(wire)
    PROVE  HomeInv'
<1> DEFINE c == asked[n]
           m == Reply(AnswerText(n, ev))
<1>1. /\ answer' = [answer EXCEPT ![n] = [state |-> "done", events |-> ev]]
      /\ UNCHANGED <<current, reader, busy, ac>>
      /\ IF ev = <<>> THEN UNCHANGED <<store, filed>> ELSE Stored(c, m)
  BY DEF EndRun, link
<1>2. n \in 1 .. Len(asked) /\ answer \in [Questions -> Answers]
  BY ServerIs
<1>3. c \in used /\ n \in Of(c) /\ Of(c) \in SUBSET Nat
  BY <1>2, OfIs DEF HomeInv
<1>4. m \in Messages /\ Speaks(Of(c), m)
  BY <1>3, SpeaksOfIts
<1>5. /\ answer' \in [Questions -> Answers]
      /\ \A k \in Questions : k # n => answer'[k] = answer[k]
  <2>1. [state |-> "done", events |-> ev] \in Answers
    BY DEF Answers
  <2> QED BY <1>1, <1>2, <2>1
<1>6. \A k \in Questions : answer'[k].state # "none" => k \in 1 .. Len(asked)
  BY <1>2, <1>5, ServerIs
<1> HIDE DEF c, m
<1>7. /\ store' \in [Convs -> Seq(Messages)] /\ \A b \in Convs : Within(Of(b), store'[b])
      /\ filed' \subseteq used /\ IsFiniteSet(filed') /\ \A b \in filed : b \in filed'
  <2>1. CASE ev = <<>>
    BY <1>1, <2>1, ServerIs
  <2>2. CASE ev # <<>>
    BY <1>1, <1>3, <1>4, <2>2, StoredHome
  <2> QED BY <2>1, <2>2
<1> QED BY <1>1, <1>5, <1>6, <1>7, ServerIs, ServerHome

\* The agent comes to an end.
LEMMA AgentEndsHome ==
    ASSUME HomeInv, NEW n \in Questions, AgentEnds(n)
    PROVE  HomeInv'
<1>1. PICK ev \in {answer[n].events, Append(answer[n].events, Error)} : EndRun(n, ev)
  BY DEF AgentEnds
<1>2. /\ answer[n].state = "going" /\ UNCHANGED <<page, link, boot, asked, wire>>
  BY DEF AgentEnds, past
<1>3. ev \in Seq(Nat)
  <2>1. Error \in Nat /\ answer[n].events \in Seq(Nat)
    BY ServerIs DEF Error
  <2> HIDE DEF Error
  <2> QED BY <2>1
<1> QED BY <1>1, <1>2, <1>3, ServerIs, EndHome

\* A question or a reply of the page arrives.
LEMMA AppendArrivesHome ==
    ASSUME HomeInv, AppendArrives
    PROVE  HomeInv'
<1>1. PICK i \in Arriving("append") :
         Taken(i) /\ Stored(wire[i].conv, wire[i].msgs[1])
  BY DEF AppendArrives
<1>2. UNCHANGED <<answer, current, page, busy, ac, reader, boot, asked>>
  BY DEF AppendArrives, link, past
<1>3. i \in 1 .. Len(wire) /\ wire[i].op = "append" /\ wire' = RemoveAt(wire, i)
  BY <1>1 DEF Arriving, Taken
<1> DEFINE q == wire[i]
           m == q.msgs[1]
<1>4. /\ wire' \in Seq(Requests) /\ ToSet(wire') \subseteq ToSet(wire)
      /\ q.conv \in used /\ q.msgs \in Seq(Messages) /\ Proper(q) /\ q.op = "append"
  BY <1>3, TakenHome
<1> HIDE DEF q
<1>5. Len(q.msgs) = 1 /\ Within(Of(q.conv), q.msgs)
  BY <1>4 DEF Proper
<1>6. m \in Messages /\ Speaks(Of(q.conv), m)
  <2>1. 1 \in 1 .. Len(q.msgs)
    BY <1>5
  <2> QED BY <1>4, <1>5, <2>1 DEF Within
<1>7. Stored(q.conv, m)
  BY <1>1 DEF q
<1> HIDE DEF m
<1>8. /\ store' \in [Convs -> Seq(Messages)] /\ \A b \in Convs : Within(Of(b), store'[b])
      /\ filed' \subseteq used /\ IsFiniteSet(filed') /\ \A b \in filed : b \in filed'
  BY <1>4, <1>6, <1>7, StoredHome
<1> QED BY <1>2, <1>4, <1>8, ServerIs, ServerHome

\* A whole conversation arrives, or its end.
LEMMA OverwrittenHome ==
    ASSUME HomeInv, NEW c \in used, NEW s \in Seq(Messages), Within(Of(c), s),
           store' = [store EXCEPT ![c] = s],
           filed' \in {filed \cup {c}, filed \ {c}},
           c \in filed' \/ (c \notin listed /\ ~syncing),
           wire' \in Seq(Requests), ToSet(wire') \subseteq ToSet(wire),
           UNCHANGED <<answer, current, page, busy, ac, reader, boot, asked>>
    PROVE  HomeInv'
<1>1. /\ store \in [Convs -> Seq(Messages)] /\ filed \subseteq used /\ IsFiniteSet(filed)
      /\ c \in Convs /\ \A b \in Convs : Within(Of(b), store[b])
  BY ServerIs, HomeIs
<1>2. /\ store' \in [Convs -> Seq(Messages)] /\ \A b \in Convs : Within(Of(b), store'[b])
  BY <1>1
<1>3. /\ filed' \subseteq used /\ IsFiniteSet(filed')
      /\ \A b \in filed : b \in filed' \/ (b \notin listed /\ ~syncing)
  <2>1. IsFiniteSet(filed \cup {c}) /\ IsFiniteSet(filed \ {c})
    BY <1>1, FS_AddElement, FS_RemoveElement
  <2>2. filed' \subseteq used /\ IsFiniteSet(filed')
    BY <1>1, <2>1
  <2>3. \A b \in filed : b \in filed' \/ b = c
    OBVIOUS
  <2> QED BY <2>2, <2>3
<1> QED BY <1>2, <1>3, ServerIs, ServerHome

\* A whole transcript of the page arrives.
LEMMA ReplaceArrivesHome ==
    ASSUME HomeInv, ReplaceArrives
    PROVE  HomeInv'
<1>1. PICK i \in Arriving("replace") :
         /\ Taken(i) /\ store' = [store EXCEPT ![wire[i].conv] = wire[i].msgs]
         /\ filed' = filed \cup {wire[i].conv}
  BY DEF ReplaceArrives
<1>2. UNCHANGED <<answer, current, page, busy, ac, reader, boot, asked>>
  BY DEF ReplaceArrives, link, past
<1>3. i \in 1 .. Len(wire) /\ wire' = RemoveAt(wire, i)
  BY <1>1 DEF Arriving, Taken
<1>4. /\ wire' \in Seq(Requests) /\ ToSet(wire') \subseteq ToSet(wire)
      /\ wire[i].conv \in used /\ wire[i].msgs \in Seq(Messages)
      /\ Within(Of(wire[i].conv), wire[i].msgs)
  BY <1>3, TakenHome DEF Proper
<1>5. wire[i].conv \in filed'
  BY <1>1
<1> QED BY <1>1, <1>2, <1>4, <1>5, OverwrittenHome

\* A conversation that the page does not list any more is deleted.
LEMMA DeleteArrivesHome ==
    ASSUME HomeInv, DeleteArrives
    PROVE  HomeInv'
<1>1. PICK i \in Arriving("delete") :
         /\ Taken(i) /\ store' = [store EXCEPT ![wire[i].conv] = <<>>]
         /\ filed' = filed \ {wire[i].conv}
  BY DEF DeleteArrives
<1>2. UNCHANGED <<answer, current, page, busy, ac, reader, boot, asked>>
  BY DEF DeleteArrives, link, past
<1>3. i \in 1 .. Len(wire) /\ wire[i].op = "delete" /\ wire' = RemoveAt(wire, i)
  BY <1>1 DEF Arriving, Taken
<1>4. /\ wire' \in Seq(Requests) /\ ToSet(wire') \subseteq ToSet(wire)
      /\ wire[i].conv \in used /\ wire[i].conv \notin listed /\ ~syncing
  BY <1>3, TakenHome DEF Proper
<1>5. <<>> \in Seq(Messages) /\ Within(Of(wire[i].conv), <<>>)
  <2> DEFINE own == Of(wire[i].conv)
  <2> HIDE DEF own
  <2>1. Within(own, <<>>)
    BY WithinMore
  <2> QED BY <2>1 DEF own
<1> QED BY <1>1, <1>2, <1>4, <1>5, OverwrittenHome

\* A "stop" arrives: it ends the run of its conversation.
LEMMA StopArrivesHome ==
    ASSUME HomeInv, StopArrives
    PROVE  HomeInv'
<1>1. PICK i \in Arriving("stop") :
         /\ Taken(i)
         /\ IF Active(wire[i].conv)
            THEN EndRun(current[wire[i].conv],
                        Append(answer[current[wire[i].conv]].events, Error))
            ELSE UNCHANGED server
  BY DEF StopArrives
<1>2. UNCHANGED <<page, link, boot, asked, busy, ac, reader>>
  BY DEF StopArrives, link, past
<1>3. i \in 1 .. Len(wire) /\ wire' = RemoveAt(wire, i)
  BY <1>1 DEF Arriving, Taken
<1> DEFINE c == wire[i].conv
           n == current[c]
<1>4. wire' \in Seq(Requests) /\ ToSet(wire') \subseteq ToSet(wire) /\ c \in Convs
  BY <1>3, TakenHome
<1>5. CASE Active(c)
  <2>1. n \in Questions /\ answer[n].state = "going"
    BY <1>4, <1>5, ServerIs DEF Active
  <2>2. Append(answer[n].events, Error) \in Seq(Nat)
    <3>1. Error \in Nat /\ answer[n].events \in Seq(Nat)
      BY <2>1, ServerIs DEF Error
    <3> HIDE DEF Error, n
    <3> QED BY <3>1
  <2> QED BY <1>1, <1>2, <1>4, <1>5, <2>1, <2>2, EndHome
<1>6. CASE ~Active(c)
  BY <1>1, <1>2, <1>4, <1>6, ServerIs, ServerHome DEF server
<1> QED BY <1>5, <1>6

\* A question arrives, and a run answers it, or the one that goes on there.
LEMMA ChatArrivesHome ==
    ASSUME HomeInv, ChatArrives
    PROVE  HomeInv'
<1>1. PICK i \in Arriving("chat") :
        LET b == wire[i].conv  k == wire[i].run
            x == IF Active(b) THEN current[b] ELSE k IN
        /\ Taken(i)
        /\ Stored(b, Question(k))
        /\ answer' = [answer EXCEPT ![x].state = "going"]
        /\ current' = [current EXCEPT ![b] = x]
        /\ reader' = [r \in Readers |->
                        IF reader[r].pc = "sent" /\ reader[r].run = k
                        THEN [reader[r] EXCEPT !.pc = "reading", !.run = x]
                        ELSE reader[r]]
        /\ UNCHANGED <<page, busy, ac, boot, past>>
  BY DEF ChatArrives
<1> DEFINE c == wire[i].conv
           n == wire[i].run
           run == IF Active(c) THEN current[c] ELSE n
<1>2. i \in 1 .. Len(wire) /\ wire[i].op = "chat" /\ wire' = RemoveAt(wire, i) /\ asked' = asked
  BY <1>1 DEF Arriving, Taken, past
<1>3. /\ wire' \in Seq(Requests) /\ ToSet(wire') \subseteq ToSet(wire)
      /\ wire[i] \in ToSet(wire) /\ c \in used /\ c \in Convs /\ n \in Of(c)
  BY <1>2, TakenHome DEF Proper
<1>4. /\ n \in Questions /\ n \in 1 .. Len(asked) /\ asked[n] = c
      /\ Of(c) \in SUBSET Nat
  BY <1>3, OfIs DEF HomeInv
<1>5. run \in Of(c) /\ run \in Questions /\ run \in 1 .. Len(asked) /\ run \in 0 .. MaxAsked
  <2>1. run \in Of(c)
    <3>1. CASE Active(c)
      BY <1>3, <3>1, ServerIs DEF Active
    <3>2. CASE ~Active(c)
      BY <1>3, <3>2
    <3> QED BY <3>1, <3>2
  <2>2. run \in Questions /\ run \in 1 .. Len(asked)
    <3> HIDE DEF run
    <3> QED BY <2>1, OfIs DEF HomeInv
  <2>3. \A k \in Questions : k \in 0 .. MaxAsked
    BY BoundAssumption DEF Questions
  <2> QED BY <2>1, <2>2, <2>3
<1>6. /\ Stored(c, Question(n))
      /\ answer' = [answer EXCEPT ![run].state = "going"]
      /\ current' = [current EXCEPT ![c] = run]
      /\ reader' = [r \in Readers |->
                      IF reader[r].pc = "sent" /\ reader[r].run = n
                      THEN [reader[r] EXCEPT !.pc = "reading", !.run = run]
                      ELSE reader[r]]
      /\ UNCHANGED <<page, busy, ac, boot>>
  BY <1>1
<1> HIDE DEF run, n, c
<1>7. Question(n) \in Messages /\ Speaks(Of(c), Question(n))
  BY <1>3, <1>4, SpeaksOfIts
<1>8. /\ store' \in [Convs -> Seq(Messages)] /\ \A b \in Convs : Within(Of(b), store'[b])
      /\ filed' \subseteq used /\ IsFiniteSet(filed') /\ c \in filed'
      /\ \A b \in filed : b \in filed'
  BY <1>3, <1>6, <1>7, StoredHome
<1>9. /\ answer' \in [Questions -> Answers]
      /\ \A k \in Questions : answer'[k].state # "none" => k \in 1 .. Len(asked)
  <2>1. answer \in [Questions -> Answers] /\ answer[run] \in Answers
    BY <1>5, ServerIs
  <2>2. [answer[run] EXCEPT !.state = "going"] \in Answers
    BY <2>1 DEF Answers
  <2>3. answer' = [answer EXCEPT ![run] = [answer[run] EXCEPT !.state = "going"]]
    BY <1>6, <2>1
  <2>4. /\ answer' \in [Questions -> Answers]
        /\ \A k \in Questions : k # run => answer'[k] = answer[k]
    BY <2>1, <2>2, <2>3
  <2> QED BY <1>5, <2>4, ServerIs
<1>10. /\ current' \in [Convs -> 0 .. MaxAsked] /\ current'[c] = run
       /\ \A b \in Convs : b # c => current'[b] = current[b]
  <2>1. current \in [Convs -> 0 .. MaxAsked]
    BY ServerIs
  <2> QED BY <1>3, <1>5, <1>6, <2>1
<1>11. \A b \in Convs : \/ current'[b] = current[b]
                        \/ /\ current'[b] \in Of(b) /\ b \in filed'
                           /\ \E q \in ToSet(wire) : q.op = "chat" /\ q.conv = b
  <2>1. \E q \in ToSet(wire) : q.op = "chat" /\ q.conv = c
    BY <1>2, <1>3 DEF c
  <2> QED BY <1>5, <1>8, <1>10, <2>1
<1>12. ASSUME NEW r \in Readers
       PROVE  /\ reader'[r] \in Calls
              /\ reader'[r].pc = "off" <=> Off(r)
              /\ reader'[r].conv = reader[r].conv
              /\ ~Off(r) => reader'[r].run \in Of(active)
  <2> DEFINE y == [reader[r] EXCEPT !.pc = "reading", !.run = run]
  <2>1. reader[r] \in Calls /\ (~Off(r) => reader[r].run \in Of(active))
    BY ServerIs
  <2>2. CASE reader[r].pc = "sent" /\ reader[r].run = n
    <3>1. reader'[r] = y
      BY <1>6, <2>2
    <3>2. y \in Calls /\ y.pc = "reading" /\ y.conv = reader[r].conv /\ y.run = run
      BY <1>5, <2>1 DEF Calls
    <3>3. ~Off(r)
      BY <2>2 DEF Off
    <3>4. active = c
      <4>1. n \in Of(active)
        BY <2>1, <2>2, <3>3
      <4> QED BY <1>4, <4>1, OfIs DEF HomeInv
    <3> HIDE DEF y
    <3> QED BY <1>5, <3>1, <3>2, <3>3, <3>4
  <2>3. CASE ~(reader[r].pc = "sent" /\ reader[r].run = n)
    <3>1. reader'[r] = reader[r]
      BY <1>6, <2>3
    <3> QED BY <2>1, <3>1 DEF Off
  <2> QED BY <2>2, <2>3
<1>13. reader' \in [Readers -> Calls]
  <2>1. reader' = [r \in Readers |-> reader'[r]]
    BY <1>6
  <2> QED BY <1>12, <2>1
<1> QED BY <1>2, <1>3, <1>6, <1>8, <1>9, <1>10, <1>11, <1>12, <1>13, ServerHome

-----------------------------------------------------------------------------
(* What the page does *)

\* Nothing changes on a page that is not touched.
LEMMA PageIs ==
    ASSUME HomeInv
    PROVE  /\ busy \in Convs \cup {NoConv} /\ ac \in Readers \cup {NoReader}
           /\ ac # NoReader => ac \in Readers /\ reader[ac].pc # "off"
           /\ \A r \in Readers : /\ reader[r] \in Calls
                                 /\ reader[r].pc = "off" <=> Off(r)
                                 /\ reader[r].pc # "off" =>
                                       /\ reader[r].conv = active /\ reader[r].run \in Of(active)
                                       /\ syncing => active \in filed
           /\ reader \in [Readers -> Calls] /\ checks \subseteq used /\ syncing \in BOOLEAN
           /\ AtHome(msgs) /\ active \in Convs /\ active \in used
           /\ wire \in Seq(Requests) /\ NoRead \in Calls /\ NoRead.pc = "off"
<1>1. NoRead \in Calls /\ NoRead.pc = "off"
  BY BoundAssumption DEF NoRead, Calls, NoQuestion
<1>2. /\ busy \in Convs \cup {NoConv} /\ ac \in Readers \cup {NoReader}
      /\ reader \in [Readers -> Calls] /\ checks \subseteq used /\ syncing \in BOOLEAN
  BY DEF HomeInv, ChatTyped
<1>3. /\ ac # NoReader => reader[ac].pc # "off"
      /\ \A r \in Readers : reader[r].pc # "off" =>
                                       /\ reader[r].conv = active /\ reader[r].run \in Of(active)
                                       /\ syncing => active \in filed
  BY DEF HomeInv, Reading, Off
<1> QED BY <1>1, <1>2, <1>3, HomeIs DEF Off

\* A reader moves on, and shows what it has read.
LEMMA MovesHome ==
    ASSUME HomeInv, NEW r \in Readers, ~Off(r), NEW x \in Calls,
           x.pc # "off", x.conv = reader[r].conv, x.run \in Of(active),
           reader' = [reader EXCEPT ![r] = x], AtHome(msgs'),
           UNCHANGED <<store, filed, answer, current, listed, used, active, asked>>,
           UNCHANGED <<busy, ac, checks, syncing>>,
           wire' \in Seq(Requests), ToSet(wire') \subseteq ToSet(wire)
    PROVE  HomeInv'
<1>1. /\ reader' \in [Readers -> Calls] /\ reader'[r] = x
      /\ \A p \in Readers : p # r => reader'[p] = reader[p]
  BY PageIs
<1>2. /\ x.conv = active /\ (syncing => active \in filed)
  BY PageIs
<1>3. \A p \in Readers : reader'[p].pc # "off" =>
         /\ reader'[p].conv = active /\ reader'[p].run \in Of(active)
         /\ syncing => active \in filed
  BY <1>1, <1>2, PageIs
<1>4. ac # NoReader => reader'[ac].pc # "off"
  BY <1>1, PageIs
<1> QED BY <1>1, <1>3, <1>4, PageIs, PageHome

\* The reader shows one event of an answer to a question of the open conversation.
LEMMA ReadEventHome ==
    ASSUME HomeInv, NEW r \in Readers, ReadEvent(r)
    PROVE  HomeInv'
<1> DEFINE rd == reader[r]
           n == rd.run
           k == answer[n].events[rd.pos + 1]
           x == [rd EXCEPT !.pos = @ + 1, !.fresh = FALSE]
<1>1. /\ rd.pc = "reading" /\ rd.pos < Len(answer[n].events)
      /\ msgs' = IF rd.fresh THEN Patched(<< <<n, k>> >>) ELSE Extended(<<n, k>>)
      /\ reader' = [reader EXCEPT ![r].pos = @ + 1, ![r].fresh = FALSE]
      /\ UNCHANGED <<store, filed, answer, current, listed, used, active, asked>>
      /\ UNCHANGED <<busy, ac, checks, syncing, wire>>
  BY DEF ReadEvent, server, boot, past
<1>2. ~Off(r) /\ rd \in Calls /\ rd.conv = active /\ n \in Of(active) /\ rd.pos \in Nat
      /\ reader \in [Readers -> Calls]
  BY <1>1, PageIs DEF Calls
<1>3. n \in Questions /\ n \in Nat /\ Of(active) \in SUBSET Nat
  BY <1>2, OfIs, HomeIs DEF HomeInv
<1>4. answer[n].events \in Seq(Nat)
  BY <1>3, ServerIs
<1>5. k \in Nat
  BY <1>1, <1>2, <1>4
<1>6. x \in Calls /\ x.pc = "reading" /\ x.conv = rd.conv /\ x.run = n
  <2>1. rd \in Calls /\ rd.pc = "reading" /\ rd.pos + 1 \in Nat
    BY <1>1, <1>2
  <2> HIDE DEF rd
  <2> QED BY <2>1 DEF Calls
<1>7. reader' = [reader EXCEPT ![r] = x]
  BY <1>1, <1>2
<1> HIDE DEF x, k
<1>8. AtHome(Extended(<<n, k>>))
  BY <1>2, <1>5, ExtendedHome DEF HomeInv
<1>9. AtHome(Patched(<< <<n, k>> >>))
  <2> DEFINE t == << <<n, k>> >>
  <2>1. Len(t) = 1 /\ t[1][1] = n
    OBVIOUS
  <2>2. t \in Texts
    BY <1>3, <1>5 DEF Texts
  <2> HIDE DEF t
  <2>3. \A j \in 1 .. Len(t) : t[j][1] \in Of(active)
    BY <1>2, <2>1
  <2>4. Speaks(Of(active), Reply(t))
    BY <2>2, <2>3, MessageIs DEF Speaks
  <2> QED BY <2>2, <2>4, PatchedHome DEF HomeInv, t
<1>10. AtHome(msgs')
  BY <1>1, <1>8, <1>9
<1>11. x.pc # "off" /\ x.conv = reader[r].conv /\ x.run \in Of(active)
  BY <1>2, <1>6
<1>12. wire' \in Seq(Requests) /\ ToSet(wire') \subseteq ToSet(wire)
  BY <1>1, PageIs
<1> QED BY <1>1, <1>2, <1>6, <1>7, <1>10, <1>11, <1>12, MovesHome

\* A connection breaks or hangs, a reconnect fails or succeeds.
LEMMA CutOffHome ==
    ASSUME HomeInv, NEW r \in Readers, Breaks(r) \/ Hangs(r)
    PROVE  HomeInv'
<1>1. PICK p \in {"broken", "hung"} : reader' = [reader EXCEPT ![r].pc = p]
  BY DEF Breaks, Hangs
<1> DEFINE x == [reader[r] EXCEPT !.pc = p]
<1>2. /\ reader[r].pc \in {"sent", "reading"} /\ wire' = Unsent(wire, reader[r].run)
      /\ UNCHANGED <<store, filed, answer, current, listed, used, active, asked>>
      /\ UNCHANGED <<msgs, busy, ac, checks, syncing>>
  BY DEF Breaks, Hangs, server, page, boot
<1>3. /\ ~Off(r) /\ reader[r] \in Calls /\ reader[r].run \in Of(active)
      /\ reader \in [Readers -> Calls]
  BY <1>2, PageIs
<1>4. x \in Calls /\ x.pc # "off" /\ x.conv = reader[r].conv /\ x.run \in Of(active)
  BY <1>3 DEF Calls
<1>5. reader' = [reader EXCEPT ![r] = x]
  BY <1>1, <1>3
<1> HIDE DEF x
<1>6. wire' \in Seq(Requests) /\ ToSet(wire') \subseteq ToSet(wire)
  BY <1>2, PageIs, UnsentToSet
<1>7. AtHome(msgs')
  BY <1>2, PageIs
<1> QED BY <1>2, <1>3, <1>4, <1>5, <1>6, <1>7, MovesHome

\* An attempt to reconnect fails,
LEMMA TryFailsHome ==
    ASSUME HomeInv, NEW r \in Readers, TryFails(r)
    PROVE  HomeInv'
<1> DEFINE x == [reader[r] EXCEPT !.tries = @ + 1]
<1>1. /\ reader[r].pc = "broken" /\ reader' = [reader EXCEPT ![r].tries = @ + 1]
      /\ UNCHANGED <<store, filed, answer, current, listed, used, active, asked>>
      /\ UNCHANGED <<msgs, busy, ac, checks, syncing, wire>>
  BY DEF TryFails, AnotherTry, server, page, boot
<1>2. /\ ~Off(r) /\ reader[r] \in Calls /\ reader[r].run \in Of(active)
      /\ reader \in [Readers -> Calls]
  BY <1>1, PageIs
<1>3. x \in Calls /\ x.pc # "off" /\ x.conv = reader[r].conv /\ x.run \in Of(active)
  BY <1>1, <1>2 DEF Calls
<1>4. reader' = [reader EXCEPT ![r] = x]
  BY <1>1, <1>2
<1> HIDE DEF x
<1>5. wire' \in Seq(Requests) /\ ToSet(wire') \subseteq ToSet(wire) /\ AtHome(msgs')
  BY <1>1, PageIs
<1> QED BY <1>1, <1>2, <1>3, <1>4, <1>5, MovesHome

\* or finds the run going on and reads it from its first event.
LEMMA TryResumesHome ==
    ASSUME HomeInv, NEW r \in Readers, TryResumes(r)
    PROVE  HomeInv'
<1> DEFINE c == reader[r].conv
           x == [reader[r] EXCEPT !.pc = "reading", !.run = current[c], !.pos = 0,
                                  !.fresh = TRUE, !.tries = @ + 1]
<1>1. /\ reader[r].pc = "broken" /\ Active(c)
      /\ reader' = [reader EXCEPT ![r].pc = "reading", ![r].run = current[c],
                                  ![r].pos = 0, ![r].fresh = TRUE, ![r].tries = @ + 1]
      /\ UNCHANGED <<store, filed, answer, current, listed, used, active, asked>>
      /\ UNCHANGED <<msgs, busy, ac, checks, syncing, wire>>
  BY DEF TryResumes, AnotherTry, server, page, boot, past
<1>2. /\ ~Off(r) /\ reader[r] \in Calls /\ c = active /\ reader \in [Readers -> Calls]
      /\ active \in Convs
  BY <1>1, PageIs
<1>3. current[c] \in Of(active) /\ current[c] \in 0 .. MaxAsked
  <2>1. current[c] \in Of(active)
    BY <1>1, <1>2, ServerIs DEF Active
  <2>2. current[c] \in 0 .. MaxAsked
    BY <1>2, ServerIs
  <2> QED BY <2>1, <2>2
<1>4. x \in Calls /\ x.pc # "off" /\ x.conv = reader[r].conv /\ x.run \in Of(active)
  BY <1>1, <1>2, <1>3 DEF Calls
<1>5. reader' = [reader EXCEPT ![r] = x]
  BY <1>1, <1>2
<1> HIDE DEF x
<1>6. wire' \in Seq(Requests) /\ ToSet(wire') \subseteq ToSet(wire) /\ AtHome(msgs')
  BY <1>1, PageIs
<1> QED BY <1>1, <1>2, <1>4, <1>5, <1>6, MovesHome

-----------------------------------------------------------------------------
(* A reader ends *)

\* What "finally" sends belongs to the conversation that is open.
LEMMA KeepsHome ==
    ASSUME HomeInv, NEW r \in Readers, ~Off(r), NEW s \in Seq(Messages), Within(Of(active), s)
    PROVE  /\ Keeps(r, s) \in Seq(Requests)
           /\ \A q \in ToSet(Keeps(r, s)) : Sendable(q)
<1> DEFINE a == Req("replace", active, s, NoQuestion)
           b == Req("append", active, <<Last(s)>>, NoQuestion)
<1>1. reader[r].conv = active /\ active \in used /\ active \in Convs
  BY PageIs
<1>2. NoQuestion \in 0 .. MaxAsked
  BY BoundAssumption DEF NoQuestion
<1>3. a \in Requests /\ Sendable(a)
  BY <1>1, <1>2 DEF Req, Requests, Sendable
<1>4. ASSUME EndsInReply(s)
      PROVE  b \in Requests /\ Sendable(b)
  <2> DEFINE m == Last(s)
             t == <<m>>
  <2>1. m \in Messages /\ Speaks(Of(active), m)
    BY <1>4, WithinAdded DEF EndsInReply
  <2>2. t \in Seq(Messages) /\ Len(t) = 1 /\ t[1] = m
    BY <2>1
  <2> HIDE DEF m, t
  <2>3. Within(Of(active), t)
    BY <2>1, <2>2 DEF Within
  <2>4. b = Req("append", active, t, NoQuestion)
    BY DEF t, m
  <2> HIDE DEF b
  <2> QED BY <1>1, <1>2, <2>2, <2>3, <2>4 DEF Req, Requests, Sendable
<1>5. Keeps(r, s) \in {<<a>>, <<>>} \/ (EndsInReply(s) /\ Keeps(r, s) = <<b>>)
  BY <1>1 DEF Keeps
<1> HIDE DEF a, b
<1>6. \A e : ToSet(<<e>>) = {e}
  BY DEF ToSet
<1>7. ToSet(<<>>) = {}
  BY DEF ToSet
<1>8. /\ <<a>> \in Seq(Requests) /\ <<>> \in Seq(Requests)
      /\ EndsInReply(s) => <<b>> \in Seq(Requests)
  BY <1>3, <1>4
<1> QED BY <1>3, <1>4, <1>5, <1>6, <1>7, <1>8

\* After the end of a reader the page is free, and sends what it shows.
LEMMA OverHome ==
    ASSUME HomeInv, NEW r \in Readers, ~Off(r), NEW all, AtHome(all), NEW w \in Seq(Requests),
           \A q \in ToSet(w) : q \in ToSet(wire) \/ Sendable(q), ReadOver(r, all, w),
           UNCHANGED <<store, filed, answer, current, listed, used, active, asked>>,
           UNCHANGED <<checks, syncing>>
    PROVE  HomeInv'
<1> DEFINE k == Keeps(r, all[active])
<1>1. /\ msgs' = all /\ wire' = w \o k /\ reader' = [reader EXCEPT ![r] = NoRead]
      /\ busy' = NoConv /\ ac' = IF ac = r THEN NoReader ELSE ac
  BY DEF ReadOver
<1>2. k \in Seq(Requests) /\ \A q \in ToSet(k) : Sendable(q)
  <2>1. all[active] \in Seq(Messages) /\ Within(Of(active), all[active])
    BY PageIs DEF AtHome
  <2> QED BY <2>1, KeepsHome
<1> HIDE DEF k
<1>3. wire' \in Seq(Requests) /\ \A q \in ToSet(wire') : q \in ToSet(wire) \/ Sendable(q)
  <2>1. wire' \in Seq(Requests) /\ ToSet(wire') \subseteq ToSet(w) \cup ToSet(k)
    BY <1>1, <1>2, JoinedToSet
  <2> QED BY <1>2, <2>1
<1>4. /\ reader' \in [Readers -> Calls] /\ reader'[r] = NoRead
      /\ \A p \in Readers : p # r => reader'[p] = reader[p]
  BY <1>1, PageIs
<1>5. \A p \in Readers : reader'[p].pc # "off" =>
         /\ reader'[p].conv = active /\ reader'[p].run \in Of(active)
         /\ syncing => active \in filed
  BY <1>4, PageIs
<1>6. ac' \in Readers \cup {NoReader} /\ (ac' # NoReader => reader'[ac'].pc # "off")
  BY <1>1, <1>4, PageIs
<1>7. AtHome(msgs')
  BY <1>1
<1> QED BY <1>1, <1>3, <1>4, <1>5, <1>6, <1>7, PageIs, PageHome

\* The answer has been read to its end.
LEMMA ReadEndsHome ==
    ASSUME HomeInv, NEW r \in Readers, ReadEnds(r) \/ Awakes(r)
    PROVE  HomeInv'
<1>1. /\ reader[r].pc # "off" /\ ReadOver(r, msgs, wire)
      /\ UNCHANGED <<store, filed, answer, current, listed, used, active, asked>>
      /\ UNCHANGED <<checks, syncing>>
  BY DEF ReadEnds, Awakes, AnotherTry, server, boot, past
<1> QED BY <1>1, PageIs, OverHome

\* pullFinalFromHistory shows what is stored in the same conversation, and the
\* line of the loss is about the question that was read.
LEMMA TryPullsHome ==
    ASSUME HomeInv, NEW r \in Readers, TryPulls(r) \/ GivesUp(r)
    PROVE  HomeInv'
<1> DEFINE c == reader[r].conv
           n == reader[r].run
           s == store[c]
           lost == Extended(<<n, Gone>>)
           found == Patched(Last(s).text)
<1>1. /\ reader[r].pc = "broken"
      /\ UNCHANGED <<store, filed, answer, current, listed, used, active, asked>>
      /\ UNCHANGED <<checks, syncing>>
      /\ \/ ReadOver(r, lost, wire)
         \/ ReadOver(r, msgs, wire)
         \/ EndsInReply(s) /\ ReadOver(r, found, wire)
  BY DEF TryPulls, GivesUp, AnotherTry, server, boot
<1>2. ~Off(r) /\ c = active /\ n \in Of(active) /\ AtHome(msgs) /\ active \in Convs
      /\ wire \in Seq(Requests)
  BY <1>1, PageIs
<1>3. AtHome(lost)
  <2>1. Gone \in Nat
    BY DEF Gone
  <2> QED BY <1>2, <2>1, ExtendedHome DEF HomeInv
<1>4. EndsInReply(s) => AtHome(found)
  <2> DEFINE m == Last(s)
  <2>1. s \in Seq(Messages) /\ Within(Of(active), s)
    BY <1>2, ServerIs
  <2> HIDE DEF s
  <2>2. EndsInReply(s) => m \in Messages /\ Speaks(Of(active), m) /\ m.role = "assistant"
    BY <2>1, WithinAdded DEF EndsInReply
  <2> HIDE DEF m
  <2>3. EndsInReply(s) => m.text \in Texts /\ Speaks(Of(active), Reply(m.text))
    BY <2>2, MessageIs, TextIs
  <2>4. EndsInReply(s) => AtHome(Patched(m.text))
    BY <2>3, PatchedHome DEF HomeInv
  <2> QED BY <2>4 DEF m
<1> HIDE DEF lost, found
<1> QED BY <1>1, <1>2, <1>3, <1>4, OverHome

\* The question is refused, and the page says so where it was asked.
LEMMA ChatRefusedHome ==
    ASSUME HomeInv, ChatRefused
    PROVE  HomeInv'
<1>1. PICK i \in Arriving("chat"), r \in Readers :
         /\ reader[r].pc = "sent" /\ reader[r].run = wire[i].run
         /\ ReadOver(r, Extended(<<wire[i].run, Refused>>), RemoveAt(wire, i))
  BY DEF ChatRefused
<1> DEFINE n == reader[r].run
           all == Extended(<<n, Refused>>)
           w == RemoveAt(wire, i)
<1>2. /\ UNCHANGED <<store, filed, answer, current, listed, used, active, asked>>
      /\ UNCHANGED <<checks, syncing>>
  BY DEF ChatRefused, server, boot, past
<1>3. ~Off(r) /\ n \in Of(active)
  BY <1>1, PageIs
<1>4. AtHome(all)
  <2>1. Refused \in Nat
    BY DEF Refused
  <2> QED BY <1>3, <2>1, ExtendedHome DEF HomeInv
<1>5. w \in Seq(Requests) /\ ToSet(w) \subseteq ToSet(wire)
  <2>1. i \in 1 .. Len(wire)
    BY DEF Arriving
  <2> QED BY <2>1, TakenHome
<1>6. ReadOver(r, all, w)
  BY <1>1
<1> HIDE DEF all, w
<1> QED BY <1>2, <1>3, <1>4, <1>5, <1>6, OverHome

-----------------------------------------------------------------------------
(* The user, the first requests of the page, and failures *)

\* A request without messages may be added.
LEMMA BlankSendable ==
    ASSUME HomeInv, NEW op \in {"replace", "stop"}
    PROVE  /\ Sendable(Req(op, active, <<>>, NoQuestion))
           /\ Append(wire, Req(op, active, <<>>, NoQuestion)) \in Seq(Requests)
           /\ \A q \in ToSet(Append(wire, Req(op, active, <<>>, NoQuestion))) :
                 q \in ToSet(wire) \/ Sendable(q)
<1> DEFINE a == Req(op, active, <<>>, NoQuestion)
           own == Of(active)
<1>1. active \in Convs /\ active \in used /\ wire \in Seq(Requests)
  BY PageIs
<1>2. NoQuestion \in 0 .. MaxAsked
  BY BoundAssumption DEF NoQuestion
<1>3. Within(own, <<>>)
  <2> HIDE DEF own
  <2> QED BY WithinMore
<1>4. a \in Requests /\ Sendable(a)
  BY <1>1, <1>2, <1>3 DEF Req, Requests, Sendable
<1> HIDE DEF a
<1>5. Append(wire, a) \in Seq(Requests) /\ ToSet(Append(wire, a)) \subseteq ToSet(wire) \cup {a}
  BY <1>1, <1>4, AddedToSet
<1> QED BY <1>4, <1>5 DEF a

\* The user stops the answer, in each state that its reader can be in.
LEMMA StopAnswerHome ==
    ASSUME HomeInv, StopAnswer
    PROVE  HomeInv'
<1> DEFINE sent == Append(wire, Req("stop", active, <<>>, NoQuestion))
<1>1. /\ busy = active
      /\ UNCHANGED <<store, filed, answer, current, listed, used, active, asked>>
      /\ UNCHANGED <<checks, syncing>>
  BY DEF StopAnswer, BusyHere, server, boot
<1>2. \/ ac = NoReader /\ wire' = sent /\ busy' = NoConv /\ UNCHANGED <<msgs, ac, reader>>
      \/ /\ ac # NoReader /\ reader[ac].pc = "broken"
         /\ wire' = sent /\ busy' = NoConv /\ ac' = NoReader
         /\ reader' = [reader EXCEPT ![ac].aborted = TRUE] /\ UNCHANGED msgs
      \/ ac # NoReader /\ ReadOver(ac, msgs, sent)
      \/ ac # NoReader /\ ReadOver(ac, msgs, Unsent(sent, reader[ac].run))
  BY <1>1 DEF StopAnswer
<1>3. sent \in Seq(Requests) /\ \A q \in ToSet(sent) : q \in ToSet(wire) \/ Sendable(q)
  BY BlankSendable
<1> HIDE DEF sent
<1>4. CASE ac = NoReader /\ wire' = sent /\ busy' = NoConv /\ UNCHANGED <<msgs, ac, reader>>
  BY <1>1, <1>3, <1>4, PageIs, PageHome
<1>5. CASE /\ ac # NoReader /\ reader[ac].pc = "broken"
           /\ wire' = sent /\ busy' = NoConv /\ ac' = NoReader
           /\ reader' = [reader EXCEPT ![ac].aborted = TRUE] /\ UNCHANGED msgs
  <2> DEFINE x == [reader[ac] EXCEPT !.aborted = TRUE]
  <2>1. ac \in Readers /\ reader[ac] \in Calls /\ reader \in [Readers -> Calls]
    BY <1>5, PageIs
  <2>2. x \in Calls /\ x.pc = "broken" /\ x.conv = reader[ac].conv /\ x.run = reader[ac].run
    BY <1>5, <2>1 DEF Calls
  <2>3. reader' = [reader EXCEPT ![ac] = x]
    BY <1>5, <2>1
  <2> HIDE DEF x
  <2>4. /\ reader' \in [Readers -> Calls] /\ reader'[ac] = x
        /\ \A p \in Readers : p # ac => reader'[p] = reader[p]
    BY <2>1, <2>2, <2>3
  <2>5. \A p \in Readers : reader'[p].pc # "off" =>
           /\ reader'[p].conv = active /\ reader'[p].run \in Of(active)
           /\ syncing => active \in filed
    BY <1>5, <2>1, <2>2, <2>4, PageIs
  <2> QED BY <1>1, <1>3, <1>5, <2>4, <2>5, PageIs, PageHome
<1>6. CASE ac # NoReader /\ ReadOver(ac, msgs, sent)
  <2>1. ac \in Readers /\ ~Off(ac) /\ AtHome(msgs)
    BY <1>6, PageIs
  <2> QED BY <1>1, <1>3, <1>6, <2>1, OverHome
<1>7. CASE ac # NoReader /\ ReadOver(ac, msgs, Unsent(sent, reader[ac].run))
  <2> DEFINE w == Unsent(sent, reader[ac].run)
  <2>1. ac \in Readers /\ ~Off(ac) /\ AtHome(msgs)
    BY <1>7, PageIs
  <2>2. w \in Seq(Requests) /\ ToSet(w) \subseteq ToSet(sent)
    BY <1>3, UnsentToSet
  <2>3. \A q \in ToSet(w) : q \in ToSet(wire) \/ Sendable(q)
    BY <1>3, <2>2
  <2>4. ReadOver(ac, msgs, w)
    BY <1>7
  <2> HIDE DEF w
  <2> QED BY <1>1, <2>1, <2>2, <2>3, <2>4, OverHome
<1> QED BY <1>2, <1>4, <1>5, <1>6, <1>7

\* After a reload nothing is read, and the page asks for the open conversation.
LEMMA ReloadHome ==
    ASSUME HomeInv, Reload
    PROVE  HomeInv'
<1>1. /\ reader' = [r \in Readers |-> NoRead] /\ busy' = NoConv /\ ac' = NoReader
      /\ wire' = <<>> /\ checks' = {active} /\ syncing' = TRUE
      /\ UNCHANGED <<store, filed, answer, current, listed, used, active, asked>>
      /\ UNCHANGED msgs
  BY DEF Reload, server, page
<1>2. reader' \in [Readers -> Calls] /\ \A r \in Readers : reader'[r].pc = "off"
  BY <1>1, PageIs
<1>3. wire' \in Seq(Requests) /\ ToSet(wire') = {}
  BY <1>1 DEF ToSet
<1> QED BY <1>1, <1>2, <1>3, PageIs, PageHome

\* A run is read that goes on in the conversation asked about: the open one.
LEMMA CheckReturnsHome ==
    ASSUME HomeInv, NEW c \in Convs, NEW r \in Readers, CheckReturns(c, r)
    PROVE  HomeInv'
<1> DEFINE s == msgs[active]
           head == IF EndsInReply(s) THEN Front(s) ELSE s
           b0 == Reply(<<>>)
           u == Append(head, b0)
           n == current[c]
           rd == [NoRead EXCEPT !.pc = "reading", !.conv = c, !.mode = "replace", !.run = n]
<1>1. /\ c \in checks /\ Active(c) /\ checks' = checks \ {c}
      /\ msgs' = [msgs EXCEPT ![active] = u]
      /\ reader' = [reader EXCEPT ![r] = rd] /\ busy' = c /\ ac' = r
      /\ UNCHANGED <<store, filed, answer, current, listed, used, active, asked>>
      /\ UNCHANGED <<syncing, wire>>
  BY DEF CheckReturns, server, past
<1>2. n # NoQuestion /\ n \in Of(c) /\ n \in 0 .. MaxAsked
  BY <1>1, ServerIs DEF Active
<1>3. c = active
  BY <1>1, <1>2 DEF HomeInv, Looking
<1>4. active \in filed
  BY <1>2, <1>3, HomeIs DEF HomeInv, Owned
<1>5. /\ active \in Convs /\ active \in used /\ AtHome(msgs) /\ s \in Seq(Messages)
      /\ Within(Of(active), s) /\ NoRead \in Calls /\ reader \in [Readers -> Calls]
  BY PageIs DEF AtHome
<1>6. u \in Seq(Messages) /\ Within(Of(active), u)
  <2> DEFINE own == Of(active)
  <2>1. b0 \in Messages /\ Speaks(own, b0)
    <3>1. n \in own /\ own \in SUBSET Nat
      BY <1>2, <1>3, OfIs DEF HomeInv
    <3> HIDE DEF own, n
    <3> QED BY <3>1, SpeaksOfIts
  <2> HIDE DEF own, s, b0
  <2>2. head \in Seq(Messages) /\ Within(own, head)
    BY <1>5, WithinAdded DEF own, EndsInReply
  <2> HIDE DEF head
  <2> QED BY <2>1, <2>2, WithinAdded DEF own
<1> HIDE DEF u
<1>7. /\ msgs' \in [Convs -> Seq(Messages)] /\ msgs'[active] = u
      /\ \A b \in Convs : b # active => msgs'[b] = msgs[b]
  BY <1>1, <1>5, <1>6 DEF AtHome
<1>8. AtHome(msgs')
  BY <1>5, <1>6, <1>7 DEF AtHome
<1>9. rd \in Calls /\ rd.pc = "reading" /\ rd.conv = active /\ rd.run \in Of(active)
  BY <1>2, <1>3, <1>5 DEF Calls
<1> HIDE DEF rd
<1>10. /\ reader' \in [Readers -> Calls] /\ reader'[r] = rd
       /\ \A p \in Readers : p # r => reader'[p] = reader[p]
  BY <1>1, <1>5, <1>9
<1>11. \A p \in Readers : reader'[p].pc # "off" =>
          /\ reader'[p].conv = active /\ reader'[p].run \in Of(active)
          /\ syncing => active \in filed
  BY <1>4, <1>9, <1>10, PageIs
<1>12. ac' # NoReader => reader'[ac'].pc # "off"
  BY <1>1, <1>9, <1>10
<1> QED BY <1>1, <1>8, <1>10, <1>11, <1>12, PageIs, PageHome

\* Nothing comes of a request.
LEMMA NothingComesHome ==
    ASSUME HomeInv,
           (\E c \in Convs : CheckIdle(c)) \/ SyncFails \/ WriteFails
    PROVE  HomeInv'
<1>1. /\ UNCHANGED <<store, filed, answer, current, listed, used, active, asked>>
      /\ UNCHANGED <<msgs, busy, ac, reader>>
  BY DEF CheckIdle, SyncFails, WriteFails, server, page, link
<1>2. checks' = checks \/ \E c \in Convs : checks' = checks \ {c}
  BY DEF CheckIdle, SyncFails, WriteFails, boot
<1>3. syncing' = syncing \/ syncing' = FALSE
  BY DEF CheckIdle, SyncFails, WriteFails, boot
<1>4. wire' = wire \/ \E i \in 1 .. Len(wire) : wire' = RemoveAt(wire, i)
  BY DEF CheckIdle, SyncFails, WriteFails, Arriving, Taken
<1>5. wire' \in Seq(Requests) /\ ToSet(wire') \subseteq ToSet(wire)
  BY <1>4, PageIs, TakenHome
<1>6. /\ \A c \in checks' : c = active \/ c \in checks
      /\ syncing' \in BOOLEAN /\ (syncing' => syncing)
  <2>1. syncing \in BOOLEAN
    BY PageIs
  <2>2. \A c \in checks' : c \in checks
    BY <1>2
  <2>3. CASE syncing' = syncing
    BY <2>1, <2>2, <2>3
  <2>4. CASE syncing' = FALSE
    BY <2>2, <2>4
  <2> QED BY <1>3, <2>3, <2>4
<1>7. /\ AtHome(msgs') /\ reader' \in [Readers -> Calls]
      /\ ac' # NoReader => reader'[ac'].pc # "off"
      /\ \A r \in Readers : reader'[r].pc # "off" =>
            /\ reader'[r].conv = active /\ reader'[r].run \in Of(active)
            /\ syncing' => active \in filed
  BY <1>1, <1>6, PageIs
<1> QED BY <1>1, <1>5, <1>6, <1>7, PageIs, PageHome

\* Without these odds the user acts when nothing is under way.
LEMMA SettledHome ==
    ASSUME Odds \cap {"switch", "early", "overlap"} = {}, Settled
    PROVE  Free /\ checks = {} /\ ~syncing
  BY DEF Settled

\* The transcript is cleared.
LEMMA ClearHome ==
    ASSUME HomeInv, Clear
    PROVE  HomeInv'
<1>1. /\ msgs' = [msgs EXCEPT ![active] = <<>>]
      /\ wire' = Append(wire, Req("replace", active, <<>>, NoQuestion))
      /\ UNCHANGED <<store, filed, answer, current, listed, used, active, asked>>
      /\ UNCHANGED <<busy, ac, reader, checks, syncing>>
  BY DEF Clear, server, link, boot
<1>2. AtHome(msgs) /\ active \in Convs
  BY PageIs
<1>3. /\ msgs' \in [Convs -> Seq(Messages)] /\ msgs'[active] = <<>>
      /\ \A b \in Convs : b # active => msgs'[b] = msgs[b]
  BY <1>1, <1>2 DEF AtHome
<1>4. Within(Of(active), <<>>)
  <2> DEFINE own == Of(active)
  <2> HIDE DEF own
  <2>1. Within(own, <<>>)
    BY WithinMore
  <2> QED BY <2>1 DEF own
<1>5. AtHome(msgs')
  BY <1>2, <1>3, <1>4 DEF AtHome
<1>6. wire' \in Seq(Requests) /\ \A q \in ToSet(wire') : q \in ToSet(wire) \/ Sendable(q)
  BY <1>1, BlankSendable
<1> QED BY <1>1, <1>5, <1>6, PageIs, PageHome

\* A new conversation is opened, of an id that was never used.
LEMMA NewHome ==
    ASSUME Odds \cap {"switch", "early", "overlap"} = {}, HomeInv, New
    PROVE  HomeInv'
<1>1. PICK d \in Convs \ used :
        listed' = listed \cup {d} /\ used' = used \cup {d} /\ active' = d
  BY DEF New
<1>2. /\ Settled /\ UNCHANGED <<server, link, syncing, asked, msgs, checks, wire>>
  BY DEF New, boot, past
<1>3. Free /\ checks = {} /\ ~syncing
  BY <1>2, SettledHome
<1>4. AtHome(msgs) /\ wire \in Seq(Requests)
  BY PageIs
<1>5. listed \subseteq used /\ used \subseteq Convs /\ IsFiniteSet(listed)
  BY DEF HomeInv, ChatTyped
<1>6. IsFiniteSet(listed \cup {d})
  BY <1>5, FS_AddElement
<1>7. AtHome(msgs')
  BY <1>2, <1>4
<1> QED BY <1>1, <1>2, <1>3, <1>4, <1>5, <1>6, <1>7, ChoiceHome

\* Another conversation is opened while nothing is under way.
LEMMA SelectHome ==
    ASSUME Odds \cap {"switch", "early", "overlap"} = {}, HomeInv, NEW c \in Convs, Select(c)
    PROVE  HomeInv'
<1>1. /\ c \in listed /\ Settled /\ active' = c
      /\ checks' = IF busy = c THEN checks ELSE checks \cup {c}
      /\ UNCHANGED <<server, link, syncing, asked, msgs, wire, listed, used>>
  BY DEF Select, past
<1>2. Free /\ checks = {} /\ ~syncing
  BY <1>1, SettledHome
<1>3. AtHome(msgs) /\ wire \in Seq(Requests) /\ AtHome(msgs')
  BY <1>1, PageIs
<1>4. listed \subseteq used /\ used \subseteq Convs /\ IsFiniteSet(listed)
  BY DEF HomeInv, ChatTyped
<1>5. checks' \subseteq {c}
  BY <1>1, <1>2
<1> QED BY <1>1, <1>2, <1>3, <1>4, <1>5, ChoiceHome

\* A conversation is removed, and maybe another one opened.
LEMMA DeleteHome ==
    ASSUME Odds \cap {"switch", "early", "overlap"} = {}, HomeInv, NEW c \in Convs, Delete(c)
    PROVE  HomeInv'
<1> DEFINE q == Req("delete", c, <<>>, NoQuestion)
<1>1. /\ Settled /\ msgs' = [msgs EXCEPT ![c] = <<>>] /\ wire' = Append(wire, q)
      /\ c \in listed /\ UNCHANGED <<server, link, checks, syncing, asked>>
  BY DEF Delete, boot
<1>2. PICK rest \in IF listed = {c} THEN {{d} : d \in Convs \ used} ELSE {listed \ {c}} :
          /\ listed' = rest /\ used' = used \cup rest
          /\ IF active \in rest THEN active' = active ELSE active' \in rest
  BY DEF Delete
<1>3. /\ c \in used /\ listed \subseteq used /\ used \subseteq Convs /\ IsFiniteSet(listed)
      /\ AtHome(msgs) /\ wire \in Seq(Requests)
  BY <1>1, PageIs DEF HomeInv, ChatTyped
<1>4. q \in Requests /\ q.conv = c /\ q.op = "delete" /\ q.msgs = <<>>
  BY BoundAssumption DEF Req, Requests, NoQuestion
<1> HIDE DEF q
<1>5. /\ rest \subseteq Convs /\ IsFiniteSet(rest) /\ active' \in rest /\ c \notin rest
      /\ \A b \in rest : b \in listed \/ b \notin used
  <2>1. CASE listed = {c}
    <3>1. PICK d \in Convs \ used : rest = {d}
      BY <1>2, <2>1
    <3> QED BY <1>2, <1>3, <3>1, FS_Singleton
  <2>2. CASE listed # {c}
    <3>1. rest = listed \ {c}
      BY <1>2, <2>2
    <3> QED BY <1>2, <1>3, <3>1, FS_Subset
  <2> QED BY <2>1, <2>2
<1>6. Free /\ checks = {} /\ ~syncing
  BY <1>1, SettledHome
<1>7. wire' \in Seq(Requests) /\ ToSet(wire') \subseteq ToSet(wire) \cup {q}
  BY <1>1, <1>3, <1>4, AddedToSet
<1>8. \A p \in ToSet(wire') :
         \/ p \in ToSet(wire)
         \/ p.op = "delete" /\ p.msgs = <<>> /\ p.conv \in used' \ listed'
  BY <1>2, <1>3, <1>4, <1>5, <1>7
<1>9. AtHome(msgs')
  <2>1. /\ msgs' \in [Convs -> Seq(Messages)] /\ msgs'[c] = <<>>
        /\ \A b \in Convs : b # c => msgs'[b] = msgs[b]
    BY <1>1, <1>3 DEF AtHome
  <2> DEFINE own == Of(c)
  <2>2. Within(own, <<>>)
    <3> HIDE DEF own
    <3> QED BY WithinMore
  <2> QED BY <1>3, <2>1, <2>2 DEF AtHome
<1> QED BY <1>1, <1>2, <1>3, <1>5, <1>6, <1>7, <1>8, <1>9, ChoiceHome

\* A question belongs to the conversation it is asked in.
LEMMA AskHome ==
    ASSUME Odds \cap {"switch", "early", "overlap"} = {}, HomeInv, NEW r \in Readers, Ask(r)
    PROVE  HomeInv'
<1>0. PICK c \in Convs : c = active
  BY PageIs
<1> DEFINE n == Len(asked) + 1
           s == msgs[c]
           q == Question(n)
           b0 == Reply(<<>>)
           v == Append(Append(s, q), b0)
           a == Req("append", c, <<q>>, NoQuestion)
           h == Req("chat", c, <<>>, n)
           rd == [NoRead EXCEPT !.pc = "sent", !.conv = c, !.run = n]
<1>1. /\ n <= MaxAsked /\ Settled
      /\ asked' = Append(asked, c)
      /\ msgs' = [msgs EXCEPT ![c] = @ \o <<q, b0>>]
      /\ wire' = wire \o <<a, h>>
      /\ reader' = [reader EXCEPT ![r] = rd]
      /\ busy' = c /\ ac' = r /\ active' = c
      /\ UNCHANGED <<store, filed, answer, current, listed, used, active, checks, syncing>>
  BY <1>0 DEF Ask, server, boot
<1>2. Free /\ checks = {} /\ ~syncing
  BY <1>1, SettledHome
<1>3. /\ AtHome(msgs) /\ c \in Convs /\ c \in used /\ wire \in Seq(Requests)
      /\ s \in Seq(Messages) /\ reader \in [Readers -> Calls] /\ NoRead \in Calls
      /\ asked \in Seq(used)
  BY <1>0, PageIs DEF AtHome, HomeInv, ChatTyped
<1>4. n \in Nat /\ n \in 0 .. MaxAsked /\ Len(asked) \in Nat /\ NoQuestion \in 0 .. MaxAsked
  <2>1. Len(asked) \in Nat
    BY <1>3
  <2> QED BY <1>1, <2>1, BoundAssumption DEF NoQuestion
\* the history grows
<1>5. /\ asked' \in Seq(used) /\ Len(asked') = n /\ asked'[n] = c
      /\ \A k \in 1 .. Len(asked) : asked'[k] = asked[k] /\ k \in 1 .. n
      /\ n \in 1 .. n
  BY <1>1, <1>3, <1>4, Appended1
<1> HIDE DEF n
<1>6. /\ \A b : Of(b) \subseteq Of(b)'
      /\ n \in Of(c)'
      /\ Of(c)' \in SUBSET Nat
  <2>1. \A b : Of(b)' = {k \in 1 .. n : asked'[k] = b}
    BY <1>5 DEF Of
  <2>2. \A b : Of(b) = {k \in 1 .. Len(asked) : asked[k] = b}
    BY DEF Of
  <2>3. \A b, k : k \in Of(b) => k \in Of(b)'
    BY <1>5, <2>1, <2>2
  <2>4. Of(c)' \in SUBSET Nat
    <3>1. Of(c)' = {k \in 1 .. n : asked'[k] = c}
      BY <1>1, <1>5 DEF Of
    <3> QED BY <1>4, <3>1
  <2>5. n \in Of(c)'
    BY <1>1, <1>5 DEF Of
  <2> QED BY <2>3, <2>4, <2>5
<1>7. q \in Messages /\ b0 \in Messages /\ Speaks(Of(c)', q) /\ Speaks(Of(c)', b0)
  BY <1>6, SpeaksOfIts
<1> HIDE DEF q, b0
\* so does the transcript on screen
<1>8. s \o <<q, b0>> = v
  BY <1>3, <1>7
<1>9. v \in Seq(Messages) /\ Within(Of(c)', v)
  <2> DEFINE own == Of(c)
             all == Of(c)'
  <2>1. Within(own, s) /\ own \subseteq all
    BY <1>3, <1>6 DEF AtHome
  <2>2. Speaks(all, q) /\ Speaks(all, b0)
    BY <1>7
  <2> HIDE DEF own, all, s
  <2>3. Within(all, s)
    BY <2>1, WithinMore
  <2>4. Append(s, q) \in Seq(Messages) /\ Within(all, Append(s, q))
    BY <1>3, <1>7, <2>2, <2>3, WithinAdded
  <2>5. v \in Seq(Messages) /\ Within(all, v)
    BY <1>7, <2>2, <2>4, WithinAdded
  <2> QED BY <2>5 DEF all
<1> HIDE DEF v
<1>10. /\ msgs' \in [Convs -> Seq(Messages)] /\ msgs'[c] = v
       /\ \A b \in Convs : b # c => msgs'[b] = msgs[b]
  <2>1. msgs' = [msgs EXCEPT ![c] = v]
    BY <1>1, <1>3, <1>8
  <2> QED BY <1>3, <1>9, <2>1 DEF AtHome
\* and what is on its way
<1>11. /\ a \in Requests /\ h \in Requests /\ a.conv = c /\ h.conv = c
       /\ a.op = "append" /\ h.op = "chat" /\ a.msgs = <<q>> /\ h.msgs = <<>> /\ h.run = n
  BY <1>3, <1>4, <1>7 DEF Req, Requests
<1> HIDE DEF a, h
<1>12. wire' \in Seq(Requests) /\ \A p \in ToSet(wire') : p \in ToSet(wire) \/ p = a \/ p = h
  <2> DEFINE t == <<a, h>>
  <2>1. t \in Seq(Requests) /\ ToSet(t) \subseteq {a, h}
    <3>1. DOMAIN t = {1, 2} /\ t[1] = a /\ t[2] = h
      OBVIOUS
    <3> QED BY <1>11, <3>1 DEF ToSet
  <2> HIDE DEF t
  <2>2. wire \o t \in Seq(Requests) /\ ToSet(wire \o t) \subseteq ToSet(wire) \cup ToSet(t)
    BY <1>3, <2>1, JoinedToSet
  <2>3. wire' = wire \o t
    BY <1>1 DEF t
  <2> QED BY <2>1, <2>2, <2>3
<1>13. \A p \in ToSet(wire') : p.conv \in used /\ Proper(p)'
  <2>1. ASSUME NEW p \in ToSet(wire)
        PROVE  p.conv \in used /\ Proper(p)'
    <3>1. p.conv \in used /\ Proper(p)
      BY HomeIs
    <3>2. Within(Of(p.conv)', p.msgs)
      <4> DEFINE own == Of(p.conv)
                 all == Of(p.conv)'
      <4>1. Within(own, p.msgs) /\ own \subseteq all
        BY <1>6, <3>1 DEF Proper
      <4> HIDE DEF own, all
      <4>2. Within(all, p.msgs)
        BY <4>1, WithinMore
      <4> QED BY <4>2 DEF all
    <3> QED BY <1>1, <1>2, <1>6, <3>1, <3>2 DEF Proper
  <2>2. ASSUME NEW p, p = a
        PROVE  Proper(p)'
    <3> DEFINE own == Of(c)'
               t == <<q>>
    <3>1. Len(t) = 1 /\ t[1] = q /\ Speaks(own, q)
      BY <1>7
    <3> HIDE DEF own, t
    <3>2. Within(own, t)
      BY <3>1 DEF Within
    <3>3. p.conv = c /\ p.msgs = t /\ p.op = "append"
      BY <1>11, <2>2 DEF t
    <3>4. Within(Of(p.conv)', p.msgs) /\ Len(p.msgs) = 1
      BY <3>1, <3>2, <3>3 DEF own
    <3> QED BY <3>3, <3>4 DEF Proper
  <2>3. ASSUME NEW p, p = h
        PROVE  Proper(p)'
    <3> DEFINE own == Of(c)'
    <3>1. Within(own, <<>>)
      <4> HIDE DEF own
      <4> QED BY WithinMore
    <3>2. p.conv = c /\ p.msgs = <<>> /\ p.op = "chat" /\ p.run = n
      BY <1>11, <2>3
    <3>3. Within(Of(p.conv)', p.msgs) /\ p.run \in Of(p.conv)' /\ ~syncing'
      BY <1>1, <1>2, <1>6, <3>1, <3>2
    <3> QED BY <3>2, <3>3 DEF Proper
  <2> QED BY <1>3, <1>11, <1>12, <2>1, <2>2, <2>3
<1>14. rd \in Calls /\ rd.pc = "sent" /\ rd.conv = c /\ rd.run = n
  BY <1>3, <1>4 DEF Calls
<1> HIDE DEF rd
<1>15. /\ reader' \in [Readers -> Calls] /\ reader'[r] = rd
       /\ \A p \in Readers : p # r => reader'[p] = reader[p]
  BY <1>1, <1>3, <1>14
<1>16. ChatTyped'
  <2>1. \A i \in 1 .. Len(wire') : wire'[i].conv \in used
    <3>1. \A i \in 1 .. Len(wire') : wire'[i] \in ToSet(wire')
      BY <1>12, InToSet
    <3> QED BY <1>13, <3>1
  <2>2. \A b \in Convs \ used : msgs'[b] = <<>>
    BY <1>3, <1>10 DEF AtHome
  <2>3. /\ store \in [Convs -> Seq(Messages)] /\ filed \subseteq used /\ IsFiniteSet(filed)
        /\ answer \in [Questions -> Answers] /\ current \in [Convs -> 0 .. MaxAsked]
        /\ used \subseteq Convs /\ listed \subseteq used /\ c \in listed
        /\ IsFiniteSet(listed) /\ checks \subseteq used /\ syncing \in BOOLEAN
    BY <1>0 DEF HomeInv, ChatTyped
  <2> QED BY <1>1, <1>3, <1>5, <1>10, <1>12, <1>15, <2>1, <2>2, <2>3 DEF ChatTyped
<1>17. Placed'
  <2>1. ASSUME NEW b \in Convs
        PROVE  Within(Of(b)', store[b]) /\ Within(Of(b)', msgs'[b])
    <3> DEFINE own == Of(b)
               all == Of(b)'
    <3>1. Within(own, store[b]) /\ Within(own, msgs[b]) /\ own \subseteq all
      BY <1>6 DEF HomeInv, Placed
    <3> HIDE DEF own, all
    <3>2. Within(all, store[b]) /\ Within(all, msgs[b])
      BY <3>1, WithinMore
    <3>3. CASE b = c
      BY <1>1, <1>9, <1>10, <3>2, <3>3 DEF all
    <3>4. CASE b # c
      BY <1>10, <3>2, <3>4 DEF all
    <3> QED BY <3>3, <3>4
  <2> QED BY <1>1, <2>1 DEF Placed
<1>18. Sent'
  BY <1>13 DEF Sent
<1>19. Owned'
  <2>1. \A k : k \in 1 .. Len(asked) => k \in 1 .. Len(asked')
    BY <1>5
  <2> QED BY <1>1, <1>6, <2>1 DEF HomeInv, Owned
<1>20. Reading'
  <2>1. \A p \in Readers : reader'[p].pc # "off" => p = r
    BY <1>2, <1>15 DEF Free, Off
  <2> QED BY <1>0, <1>1, <1>2, <1>6, <1>14, <1>15, <2>1 DEF Reading, Off
<1>21. Looking'
  BY <1>1, <1>2 DEF Looking
<1> QED BY <1>16, <1>17, <1>18, <1>19, <1>20, <1>21 DEF HomeInv

\* The transcripts arrive, and an answer that is being read keeps its
\* conversation open; or what the page has is sent.
LEMMA SyncReturnsHome ==
    ASSUME HomeInv, SyncReturns
    PROVE  HomeInv'
<1> DEFINE S == {c \in listed : msgs[c] # <<>>}
           order == SetToSeq(S)
           size == Cardinality(S)
           out == [i \in 1 .. size |-> Req("replace", order[i], msgs[order[i]], NoQuestion)]
<1>1. /\ syncing /\ syncing' = FALSE
      /\ IF filed = {} THEN wire' = wire \o out /\ UNCHANGED <<listed, active, msgs>>
         ELSE /\ listed' = filed
              /\ msgs' = [c \in Convs |-> IF c \in filed THEN store[c] ELSE <<>>]
              /\ IF active \in filed THEN active' = active ELSE active' \in filed
              /\ UNCHANGED wire
      /\ UNCHANGED <<store, filed, answer, current, used, busy, ac, reader, checks, asked>>
  BY DEF SyncReturns, server, link, past
<1>2. /\ listed \subseteq used /\ used \subseteq Convs /\ IsFiniteSet(listed) /\ active \in listed
      /\ filed \subseteq used /\ IsFiniteSet(filed) /\ AtHome(msgs) /\ wire \in Seq(Requests)
      /\ store \in [Convs -> Seq(Messages)] /\ \A c \in Convs : Within(Of(c), store[c])
  BY PageIs, ServerIs DEF HomeInv, ChatTyped
<1>3. CASE filed = {}
  <2>1. size \in Nat /\ \A i \in 1 .. size : order[i] \in S
    <3>1. IsFiniteSet(S)
      BY <1>2, FS_Subset
    <3> QED BY <3>1, InSomeOrder
  <2> HIDE DEF order, size
  <2>2. ASSUME NEW i \in 1 .. size
        PROVE  out[i] \in Requests /\ Sendable(out[i])
    <3> DEFINE c == order[i]
               q == Req("replace", c, msgs[c], NoQuestion)
    <3>1. c \in used /\ c \in Convs
      BY <1>2, <2>1
    <3> HIDE DEF c
    <3>2. msgs[c] \in Seq(Messages) /\ Within(Of(c), msgs[c])
      BY <1>2, <3>1 DEF AtHome
    <3>3. NoQuestion \in 0 .. MaxAsked
      BY BoundAssumption DEF NoQuestion
    <3>4. q \in Requests /\ Sendable(q)
      BY <3>1, <3>2, <3>3 DEF Req, Requests, Sendable
    <3>5. out[i] = q
      BY DEF c
    <3> QED BY <3>4, <3>5
  <2>3. out \in Seq(Requests) /\ Len(out) = size
    BY <2>1, <2>2
  <2> HIDE DEF out
  <2>4. wire' \in Seq(Requests) /\ \A q \in ToSet(wire') : q \in ToSet(wire) \/ Sendable(q)
    <3>1. wire' \in Seq(Requests) /\ ToSet(wire') \subseteq ToSet(wire) \cup ToSet(out)
      BY <1>1, <1>2, <1>3, <2>3, JoinedToSet
    <3>2. \A q \in ToSet(out) : Sendable(q)
      BY <2>2, <2>3, InToSet
    <3> QED BY <3>1, <3>2
  <2>5. AtHome(msgs')
    BY <1>1, <1>2, <1>3
  <2> QED BY <1>1, <1>3, <2>4, <2>5, PageIs, PageHome
<1>4. CASE filed # {}
  <2>1. /\ listed' = filed /\ wire' = wire /\ active' \in filed
        /\ active \in filed => active' = active
        /\ msgs' = [c \in Convs |-> IF c \in filed THEN store[c] ELSE <<>>]
    BY <1>1, <1>4
  <2>2. \A b : Of(b)' = Of(b)
    BY <1>1 DEF Of
  <2>3. ASSUME NEW c \in Convs
        PROVE  Within(Of(c), msgs'[c])
    <3> DEFINE own == Of(c)
    <3>1. Within(own, <<>>)
      <4> HIDE DEF own
      <4> QED BY WithinMore
    <3>2. msgs'[c] = IF c \in filed THEN store[c] ELSE <<>>
      BY <2>1
    <3> QED BY <1>2, <3>1, <3>2
  <2>4. ChatTyped'
    <3>1. msgs' \in [Convs -> Seq(Messages)] /\ \A c \in Convs \ used : msgs'[c] = <<>>
      BY <1>2, <2>1
    <3> QED BY <1>1, <1>2, <2>1, <3>1 DEF HomeInv, ChatTyped
  <2>5. Placed'
    BY <1>1, <1>2, <2>2, <2>3 DEF Placed
  <2>6. Sent'
    <3>1. ASSUME NEW q \in ToSet(wire)
          PROVE  Proper(q)'
      <4>1. Proper(q)
        BY HomeIs
      <4> QED BY <1>1, <2>2, <4>1 DEF Proper
    <3> QED BY <2>1, <3>1 DEF Sent
  <2>7. Owned'
    BY <1>1, <2>1, <2>2 DEF HomeInv, Owned
  <2>8. Reading'
    <3>1. \A r \in Readers : reader[r].pc # "off" => active' = active
      BY <1>1, <2>1, PageIs
    <3>2. ac # NoReader => reader[ac].pc # "off"
      BY PageIs
    <3>3. \A r \in Readers : reader[r].pc # "off" => /\ reader[r].conv = active'
                                                     /\ reader[r].run \in Of(active')
      BY <3>1, PageIs
    <3>4. Of(active)' = Of(active')
      BY <1>1 DEF Of
    <3> QED BY <1>1, <3>2, <3>3, <3>4 DEF Reading, Off
  <2>9. Looking'
    <3> SUFFICES ASSUME NEW c \in checks, c # active'
                 PROVE  /\ current[c] = NoQuestion
                        /\ \A q \in ToSet(wire) : q.op = "chat" => q.conv # c
      BY <1>1, <2>1 DEF Looking
    <3>1. CASE c # active
      BY <3>1 DEF HomeInv, Looking
    <3>2. CASE c = active
      <4>1. c \notin filed /\ c \in listed /\ c \in Convs
        BY <1>2, <2>1, <3>2
      <4>2. current[c] = NoQuestion
        BY <4>1 DEF HomeInv, Owned
      <4>3. \A q \in ToSet(wire) : q.op # "chat"
        BY <1>1, HomeIs DEF Proper
      <4> QED BY <4>2, <4>3
    <3> QED BY <3>1, <3>2
  <2> QED BY <2>4, <2>5, <2>6, <2>7, <2>8, <2>9 DEF HomeInv
<1> QED BY <1>3, <1>4

-----------------------------------------------------------------------------
(* All steps *)

\* It holds when the page is opened for the first time.
LEMMA ChatInitHome ==
    ASSUME ChatInit
    PROVE  HomeInv
<1>1. ChatGood
  BY ChatInitGood
<1>2. ChatTyped
  BY <1>1 DEF ChatGood
<1>3. /\ \A c \in Convs : store[c] = <<>> /\ msgs[c] = <<>> /\ current[c] = NoQuestion
      /\ \A n \in Questions : answer[n].state = "none"
      /\ \A r \in Readers : reader[r].pc = "off"
      /\ ac = NoReader /\ checks = {} /\ wire = <<>>
  BY DEF ChatInit, NotRun, NoRead
<1>4. ASSUME NEW c \in Convs
      PROVE  Within(Of(c), <<>>)
  <2> DEFINE own == Of(c)
  <2> HIDE DEF own
  <2>1. Within(own, <<>>)
    BY WithinMore
  <2> QED BY <2>1 DEF own
<1>5. Placed
  BY <1>3, <1>4 DEF Placed
<1>6. Sent
  <2>1. ToSet(wire) = {}
    BY <1>3 DEF ToSet
  <2> QED BY <2>1 DEF Sent
<1>7. Owned /\ Reading /\ Looking
  BY <1>3 DEF Owned, Reading, Looking, Off
<1> QED BY <1>2, <1>5, <1>6, <1>7 DEF HomeInv

\* Every step keeps it.
LEMMA ChatNextHome ==
    ASSUME Odds \cap {"switch", "early", "overlap"} = {}, HomeInv, [ChatNext]_chatVars
    PROVE  HomeInv'
<1>1. CASE Arrives
  BY <1>1, AppendArrivesHome, ReplaceArrivesHome, DeleteArrivesHome, ChatArrivesHome,
     StopArrivesHome, ChatRefusedHome DEF Arrives
<1>2. CASE Boots
  BY <1>2, SyncReturnsHome, NothingComesHome, CheckReturnsHome DEF Boots
<1>3. CASE User
  BY <1>3, StopAnswerHome, NewHome, ClearHome, ReloadHome, SelectHome, DeleteHome, AskHome
     DEF User
<1>4. CASE Fails
  BY <1>4, NothingComesHome, CutOffHome, TryFailsHome DEF Fails
<1>5. ASSUME NEW n \in Questions, Agent(n)
      PROVE  HomeInv'
  BY <1>5, AgentSaysHome, AgentEndsHome DEF Agent
<1>6. ASSUME NEW r \in Readers, Reads(r)
      PROVE  HomeInv'
  BY <1>6, ReadEventHome, ReadEndsHome DEF Reads
<1>7. ASSUME NEW r \in Readers, Retries(r)
      PROVE  HomeInv'
  BY <1>7, ReadEndsHome, TryResumesHome, TryPullsHome DEF Retries
<1>8. CASE UNCHANGED chatVars
  <2>1. /\ UNCHANGED <<store, filed, answer, current, listed, used, active, asked>>
        /\ UNCHANGED <<msgs, busy, ac, reader, checks, syncing, wire>>
    BY <1>8 DEF chatVars, server, page, link, boot, past
  <2>2. AtHome(msgs')
    BY <2>1, PageIs
  <2> QED BY <2>1, <2>2, PageIs, PageHome
<1> QED BY <1>1, <1>2, <1>3, <1>4, <1>5, <1>6, <1>7, <1>8 DEF ChatNext

\* Requests may fail and overtake each other, transcripts come late and answers
\* be errors: as long as the user neither opens another conversation while an
\* answer is read, nor acts before the page's first requests have returned or
\* while a stopped reader is still asleep, nothing that is shown or stored in a
\* conversation is about a question of another (aiRunner.ts:47).
THEOREM AnswersStayHomeHolds ==
    ASSUME Odds \cap {"switch", "early", "overlap"} = {}
    PROVE  ChatSpec => []AnswersStayHome
<1>1. ChatInit => HomeInv
  BY ChatInitHome
<1>2. HomeInv /\ [ChatNext]_chatVars => HomeInv'
  BY ChatNextHome
<1>3. HomeInv => AnswersStayHome
  <2> SUFFICES ASSUME HomeInv, NEW c \in Convs, NEW kept \in {msgs[c], store[c]},
                      NEW i \in 1 .. Len(kept), NEW j \in 1 .. Len(kept[i].text)
               PROVE  asked[kept[i].text[j][1]] = c
    BY DEF AnswersStayHome
  <2>1. Within(Of(c), kept)
    BY DEF HomeInv, Placed
  <2>2. kept[i].text[j][1] \in Of(c)
    BY <2>1 DEF Within, Speaks
  <2> QED BY <2>2 DEF Of
<1> QED BY <1>1, <1>2, <1>3, PTL DEF ChatSpec

=============================================================================
