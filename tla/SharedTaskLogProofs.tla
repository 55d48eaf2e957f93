------------------------- MODULE SharedTaskLogProofs -------------------------
(***************************************************************************)
(* The log of a task in the shared database, for any number of viewers,    *)
(* lines, steps and faults, any batch and any reach of a replay: types,    *)
(* DoneTellsTheVerdict, and that it implements LogView.                    *)
(*                                                                         *)
(* What a viewer has been sent, followed by what waits in its queue, is    *)
(* the log from some line on, up to the line its tailer read last.         *)
(***************************************************************************)
EXTENDS SharedTaskLog, SequenceTheorems, TLAPS

\* The lines among the frames are those after a up to b, each once and in order.
Runs(frames, a, b) ==
    /\ \A i \in 1 .. Len(frames) :
          frames[i][1] = "log" => frames[i][2] \in a + 1 .. b
    /\ \A i, j \in 1 .. Len(frames) :
          i < j /\ frames[i][1] = "log" /\ frames[j][1] = "log"
             => frames[i][2] < frames[j][2]
    /\ \A k \in a + 1 .. b : \E i \in 1 .. Len(frames) : frames[i] = <<"log", k>>

\* done comes last, and only after every line the first verdict came with.
Closes(frames, b) ==
    \A i \in 1 .. Len(frames) :
        frames[i][1] = "done" => i = Len(frames) /\ owed # -1 /\ b >= owed

\* The viewer was sent line a last and will have been sent line b; a replay that
\* does not begin with line 1 reaches back Cap lines.
Follows(v, a, b) ==
    /\ Runs(queue[v], a, b)
    /\ Closes(queue[v], b)
    /\ got[v] # <<>> => a = View!LastOf(got[v])
    /\ got[v] = <<>> => a = 0 \/ (a + Cap <= lines /\ a < b)
    /\ tail[v].pc = "replay" => got[v] = <<>> /\ b = 0
    /\ tail[v].pc \in {"poll", "row", "drain"} => b = tail[v].last
    /\ tail[v].pc # "off" => \A i \in 1 .. Len(queue[v]) : queue[v][i][1] # "done"

Following(v) == \E a \in 0 .. lines : \E b \in a .. lines : Follows(v, a, b)

\* Whoever acts on a verdict acts on one that was given; until the reaper takes
\* part, nobody takes the job's verdict back.
VerdictGiven ==
    /\ status \in Terminal => owed # -1
    /\ owed # -1 /\ reaper = "idle" => status \in Terminal /\ pc # "body"
    /\ \A v \in Viewers : tail[v].status \in Terminal \/ tail[v].pc = "drain" => owed # -1

\* After its body the job writes one line, and so does the reaper.
Lines == lines <= MaxLines + (IF pc \in {"failing", "over"} THEN 1 ELSE 0)
                           + (IF reaper = "idle" THEN 0 ELSE 1)

IInv == /\ TypeOK /\ VerdictGiven /\ DoneTellsTheVerdict /\ Lines
        /\ \A v \in Viewers : at[v] = "away" => got[v] = <<>>
        /\ \A v \in Viewers : at[v] = "watching" => Following(v)

-----------------------------------------------------------------------------
(* Frames                                                                   *)

LEMMA FrameKinds ==
    ASSUME NEW f \in Frames
    PROVE  /\ f[1] \in {"log", "step", "done"}
           /\ f[1] = "log" => f = <<"log", f[2]>> /\ f[2] \in LineIds
           /\ f[1] = "step" => f[2] \in 0 .. MaxSteps /\ f[3] \in Statuses
           /\ f[1] = "done" => f = Done
  BY DEF Frames, StepFrame, Done

LEMMA FramesTyped ==
    /\ Done \in Frames /\ Done[1] = "done"
    /\ \A s \in 0 .. MaxSteps, st \in Statuses :
          StepFrame(s, st) \in Frames /\ StepFrame(s, st)[1] = "step"
    /\ \A k \in LineIds : <<"log", k>> \in Frames
  BY DEF Frames, Done, StepFrame

LEMMA Joined ==
    ASSUME NEW q \in Seq(Frames), NEW r \in Seq(Frames)
    PROVE  /\ q \o r \in Seq(Frames) /\ Len(q \o r) = Len(q) + Len(r)
           /\ Len(q) \in Nat /\ Len(r) \in Nat
           /\ \A i \in 1 .. Len(q) : (q \o r)[i] = q[i] /\ i \in 1 .. Len(q \o r)
           /\ \A i \in 1 .. Len(r) : /\ (q \o r)[Len(q) + i] = r[i]
                                     /\ Len(q) + i \in 1 .. Len(q \o r)
           /\ \A i \in 1 .. Len(q \o r) :
                 i \in 1 .. Len(q) \/ (i - Len(q) \in 1 .. Len(r) /\ (q \o r)[i] = r[i - Len(q)])
<1>1. /\ q \o r \in Seq(Frames) /\ Len(q \o r) = Len(q) + Len(r)
      /\ Len(q) \in Nat /\ Len(r) \in Nat
      /\ \A i \in 1 .. Len(q) : (q \o r)[i] = q[i] /\ i \in 1 .. Len(q \o r)
      /\ \A i \in 1 .. Len(r) : /\ (q \o r)[Len(q) + i] = r[i]
                                /\ Len(q) + i \in 1 .. Len(q \o r)
  BY ConcatProperties, LenProperties
<1>2. ASSUME NEW i \in 1 .. Len(q \o r), i \notin 1 .. Len(q)
      PROVE  i - Len(q) \in 1 .. Len(r) /\ (q \o r)[i] = r[i - Len(q)]
  <2>1. i - Len(q) \in 1 .. Len(r) /\ Len(q) + (i - Len(q)) = i
    BY <1>1, <1>2
  <2> QED BY <1>1, <2>1
<1> QED BY <1>1, <1>2

LEMMA LogFramesAre ==
    ASSUME NEW a \in Nat, NEW b \in a .. MaxLines + 3
    PROVE  /\ LogFrames(a + 1, b) \in Seq(Frames)
           /\ Len(LogFrames(a + 1, b)) = b - a
           /\ \A i \in 1 .. b - a : LogFrames(a + 1, b)[i] = <<"log", a + i>>
<1> DEFINE f == [i \in 1 .. b - a |-> <<"log", a + i>>]
<1>1. LogFrames(a + 1, b) = f
  BY LogAssumption DEF LogFrames
<1>2. \A i \in 1 .. b - a : <<"log", a + i>> \in Frames
  BY FramesTyped, LogAssumption DEF LineIds
<1>3. f \in [1 .. b - a -> Frames] /\ b - a \in Nat
  BY <1>2, LogAssumption
<1>4. f \in Seq(Frames) /\ Len(f) = b - a
  BY <1>3
<1> QED BY <1>1, <1>4

-----------------------------------------------------------------------------
(* Runs                                                                     *)

LEMMA RunsLog ==
    ASSUME NEW a \in Nat, NEW b \in a .. MaxLines + 3
    PROVE  Runs(LogFrames(a + 1, b), a, b)
<1> DEFINE f == LogFrames(a + 1, b)
<1>0. Len(f) = b - a /\ b \in Nat /\ \A i \in 1 .. b - a : f[i] = <<"log", a + i>>
  BY LogFramesAre, LogAssumption
<1>1. /\ Len(f) = b - a /\ b \in Nat
      /\ \A i \in 1 .. Len(f) : f[i][1] = "log" /\ f[i][2] = a + i /\ f[i] = <<"log", a + i>>
  BY <1>0
<1> HIDE DEF f
<1>2. \A i \in 1 .. Len(f) : f[i][2] \in a + 1 .. b
  BY <1>1
<1>3. \A i, j \in 1 .. Len(f) : i < j => f[i][2] < f[j][2]
  BY <1>1
<1>4. ASSUME NEW k \in a + 1 .. b
      PROVE  \E i \in 1 .. Len(f) : f[i] = <<"log", k>>
  <2>1. k - a \in 1 .. Len(f) /\ a + (k - a) = k
    BY <1>1
  <2>2. f[k - a] = <<"log", k>>
    BY <1>1, <2>1
  <2> QED BY <2>1, <2>2
<1> QED BY <1>2, <1>3, <1>4 DEF Runs, f

LEMMA RunsNothing ==
    ASSUME NEW a \in Nat, NEW frames, \A i \in 1 .. Len(frames) : frames[i][1] # "log"
    PROVE  Runs(frames, a, a)
  BY DEF Runs

LEMMA RunsConcat ==
    ASSUME NEW q \in Seq(Frames), NEW r \in Seq(Frames),
           NEW a \in Nat, NEW b \in Nat, NEW c \in Nat, a <= b, b <= c,
           Runs(q, a, b), Runs(r, b, c)
    PROVE  Runs(q \o r, a, c)
<1> DEFINE all == q \o r
           n == Len(q)
<1>1. /\ Len(all) = n + Len(r) /\ n \in Nat /\ Len(r) \in Nat
      /\ \A i \in 1 .. n : all[i] = q[i] /\ i \in 1 .. Len(all)
      /\ \A i \in 1 .. Len(r) : all[n + i] = r[i] /\ n + i \in 1 .. Len(all)
      /\ \A i \in 1 .. Len(all) : i \in 1 .. n \/ (i - n \in 1 .. Len(r) /\ all[i] = r[i - n])
  BY Joined
<1> HIDE DEF all, n
<1>2. /\ \A i \in 1 .. n : q[i][1] = "log" => q[i][2] \in a + 1 .. b
      /\ \A i \in 1 .. Len(r) : r[i][1] = "log" => r[i][2] \in b + 1 .. c
      /\ \A i, j \in 1 .. n :
            i < j /\ q[i][1] = "log" /\ q[j][1] = "log" => q[i][2] < q[j][2]
      /\ \A i, j \in 1 .. Len(r) :
            i < j /\ r[i][1] = "log" /\ r[j][1] = "log" => r[i][2] < r[j][2]
      /\ \A k \in a + 1 .. b : \E i \in 1 .. n : q[i] = <<"log", k>>
      /\ \A k \in b + 1 .. c : \E i \in 1 .. Len(r) : r[i] = <<"log", k>>
  BY DEF Runs, n
<1>3. ASSUME NEW i \in 1 .. Len(all), all[i][1] = "log"
      PROVE  all[i][2] \in a + 1 .. c
  <2>1. CASE i \in 1 .. n
    <3>1. all[i][2] \in a + 1 .. b
      BY <1>1, <1>2, <1>3, <2>1
    <3> QED BY <3>1
  <2>2. CASE i - n \in 1 .. Len(r) /\ all[i] = r[i - n]
    <3>1. all[i][2] \in b + 1 .. c
      BY <1>2, <1>3, <2>2
    <3> QED BY <3>1
  <2> QED BY <1>1, <2>1, <2>2
<1>4. ASSUME NEW i \in 1 .. Len(all), NEW j \in 1 .. Len(all), i < j,
             all[i][1] = "log", all[j][1] = "log"
      PROVE  all[i][2] < all[j][2]
  <2>1. CASE j \in 1 .. n
    <3>1. i \in 1 .. n
      BY <1>1, <1>4, <2>1
    <3> QED BY <1>1, <1>2, <1>4, <2>1, <3>1
  <2>2. CASE j - n \in 1 .. Len(r) /\ all[j] = r[j - n]
    <3>1. all[j][2] \in b + 1 .. c
      BY <1>2, <1>4, <2>2
    <3>2. CASE i \in 1 .. n
      <4>1. all[i][2] \in a + 1 .. b
        BY <1>1, <1>2, <1>4, <3>2
      <4> QED BY <3>1, <4>1
    <3>3. CASE i - n \in 1 .. Len(r) /\ all[i] = r[i - n]
      <4>1. i - n < j - n
        BY <1>1, <1>4
      <4> QED BY <1>2, <1>4, <2>2, <3>3, <4>1
    <3> QED BY <1>1, <3>2, <3>3
  <2> QED BY <1>1, <2>1, <2>2
<1>5. ASSUME NEW k \in a + 1 .. c
      PROVE  \E i \in 1 .. Len(all) : all[i] = <<"log", k>>
  <2>1. CASE k <= b
    <3>0. k \in a + 1 .. b
      BY <2>1
    <3>1. PICK i \in 1 .. n : q[i] = <<"log", k>>
      BY <1>2, <3>0
    <3> QED BY <1>1, <3>1
  <2>2. CASE k > b
    <3>0. k \in b + 1 .. c
      BY <2>2
    <3>1. PICK i \in 1 .. Len(r) : r[i] = <<"log", k>>
      BY <1>2, <3>0
    <3>2. all[n + i] = r[i] /\ n + i \in 1 .. Len(all)
      BY <1>1
    <3> QED BY <3>1, <3>2
  <2> QED BY <2>1, <2>2
<1> QED BY <1>3, <1>4, <1>5 DEF Runs, all

\* What is sent first, and what is left.
LEMMA RunsTail ==
    ASSUME NEW q \in Seq(Frames), q # <<>>, NEW a \in Nat, NEW b \in Nat, Runs(q, a, b)
    PROVE  /\ Head(q)[1] = "log" => /\ Head(q)[2] = a + 1 /\ a + 1 <= b
                                    /\ Runs(Tail(q), a + 1, b)
           /\ Head(q)[1] # "log" => Runs(Tail(q), a, b)
<1> DEFINE t == Tail(q)
<1>1. /\ Len(q) \in Nat \ {0} /\ Head(q) = q[1] /\ Len(t) = Len(q) - 1
      /\ \A i \in 1 .. Len(q) - 1 : t[i] = q[i + 1]
  BY HeadTailProperties, EmptySeq
<1> HIDE DEF t
<1>2. /\ \A i \in 1 .. Len(q) : q[i][1] = "log" => q[i][2] \in a + 1 .. b
      /\ \A i, j \in 1 .. Len(q) :
            i < j /\ q[i][1] = "log" /\ q[j][1] = "log" => q[i][2] < q[j][2]
      /\ \A k \in a + 1 .. b : \E i \in 1 .. Len(q) : q[i] = <<"log", k>>
  BY DEF Runs
<1>3. \A i \in 1 .. Len(t) : i + 1 \in 1 .. Len(q) /\ 1 < i + 1 /\ t[i] = q[i + 1]
  BY <1>1
<1>4. 1 \in 1 .. Len(q)
  BY <1>1
<1>5. \A i, j \in 1 .. Len(t) :
        i < j /\ t[i][1] = "log" /\ t[j][1] = "log" => t[i][2] < t[j][2]
  <2> SUFFICES ASSUME NEW i \in 1 .. Len(t), NEW j \in 1 .. Len(t), i < j,
                      t[i][1] = "log", t[j][1] = "log"
               PROVE  t[i][2] < t[j][2]
    OBVIOUS
  <2>1. i + 1 < j + 1
    BY <1>1
  <2> QED BY <1>2, <1>3, <2>1
<1>6. ASSUME NEW k \in a + 1 .. b, q[1] # <<"log", k>>
      PROVE  \E i \in 1 .. Len(t) : t[i] = <<"log", k>>
  <2>1. PICK i \in 1 .. Len(q) : q[i] = <<"log", k>>
    BY <1>2
  <2>2. i # 1
    BY <1>6, <2>1
  <2>3. i - 1 \in 1 .. Len(t) /\ (i - 1) + 1 = i
    BY <1>1, <2>2
  <2>4. t[i - 1] = q[i]
    BY <1>3, <2>3
  <2> QED BY <2>1, <2>3, <2>4
<1>7. CASE q[1][1] = "log"
  <2>1. q[1][2] \in a + 1 .. b
    BY <1>2, <1>4, <1>7
  <2>2. PICK i \in 1 .. Len(q) : q[i] = <<"log", a + 1>>
    <3>1. a + 1 \in a + 1 .. b
      BY <2>1
    <3> QED BY <1>2, <3>1
  <2>3. q[1][2] = a + 1
    <3>1. CASE i = 1
      BY <2>2, <3>1
    <3>2. CASE i # 1
      <4>1. 1 < i /\ q[i][1] = "log" /\ q[i][2] = a + 1
        BY <1>1, <2>2, <3>2
      <4>2. q[1][2] < a + 1
        BY <1>2, <1>4, <1>7, <4>1
      <4> QED BY <2>1, <4>2
    <3> QED BY <3>1, <3>2
  <2>4. ASSUME NEW j \in 1 .. Len(t), t[j][1] = "log"
        PROVE  t[j][2] \in (a + 1) + 1 .. b
    <3>1. q[1][2] < t[j][2] /\ t[j][2] \in a + 1 .. b
      BY <1>2, <1>3, <1>4, <1>7, <2>4
    <3> QED BY <2>3, <3>1
  <2>5. ASSUME NEW k \in (a + 1) + 1 .. b
        PROVE  \E j \in 1 .. Len(t) : t[j] = <<"log", k>>
    <3>1. k \in a + 1 .. b /\ k # a + 1
      OBVIOUS
    <3>2. q[1] # <<"log", k>>
      BY <2>3, <3>1
    <3> QED BY <1>6, <3>1, <3>2
  <2>6. Runs(t, a + 1, b)
    BY <1>5, <2>4, <2>5 DEF Runs
  <2> QED BY <1>1, <1>7, <2>1, <2>3, <2>6 DEF t
<1>8. CASE q[1][1] # "log"
  <2>1. \A j \in 1 .. Len(t) : t[j][1] = "log" => t[j][2] \in a + 1 .. b
    BY <1>2, <1>3
  <2>2. \A k \in a + 1 .. b : q[1] # <<"log", k>>
    BY <1>8
  <2>3. Runs(t, a, b)
    BY <1>5, <1>6, <2>1, <2>2 DEF Runs
  <2> QED BY <1>1, <1>8, <2>3 DEF t
<1> QED BY <1>7, <1>8

-----------------------------------------------------------------------------
(* What a queue says of the end                                             *)

NoDone(frames) == \A i \in 1 .. Len(frames) : frames[i][1] # "done"

LEMMA NoDoneConcat ==
    ASSUME NEW q \in Seq(Frames), NEW r \in Seq(Frames), NoDone(q), NoDone(r)
    PROVE  NoDone(q \o r)
<1> DEFINE all == q \o r
<1>1. \A i \in 1 .. Len(all) :
         \/ i \in 1 .. Len(q) /\ all[i] = q[i]
         \/ i - Len(q) \in 1 .. Len(r) /\ all[i] = r[i - Len(q)]
  BY Joined
<1> HIDE DEF all
<1>2. NoDone(all)
  BY <1>1 DEF NoDone
<1> QED BY <1>2 DEF all

LEMMA ClosesConcat ==
    ASSUME NEW q \in Seq(Frames), NEW r \in Seq(Frames), NEW b, NoDone(q), Closes(r, b)
    PROVE  Closes(q \o r, b)
<1> DEFINE all == q \o r
<1>1. /\ Len(all) = Len(q) + Len(r) /\ Len(q) \in Nat /\ Len(r) \in Nat
      /\ \A i \in 1 .. Len(all) :
            \/ i \in 1 .. Len(q) /\ all[i] = q[i]
            \/ i - Len(q) \in 1 .. Len(r) /\ all[i] = r[i - Len(q)]
  BY Joined
<1> HIDE DEF all
<1>2. ASSUME NEW i \in 1 .. Len(all), all[i][1] = "done"
      PROVE  i = Len(all) /\ owed # -1 /\ b >= owed
  <2>1. i - Len(q) \in 1 .. Len(r) /\ r[i - Len(q)][1] = "done"
    BY <1>1, <1>2 DEF NoDone
  <2>2. i - Len(q) = Len(r) /\ owed # -1 /\ b >= owed
    BY <2>1 DEF Closes
  <2> QED BY <1>1, <2>2
<1> QED BY <1>2 DEF Closes, all

LEMMA ClosesTail ==
    ASSUME NEW q \in Seq(Frames), q # <<>>, NEW b
    PROVE  /\ Closes(q, b) => Closes(Tail(q), b)
           /\ NoDone(q) => NoDone(Tail(q))
<1> DEFINE t == Tail(q)
<1>1. /\ Len(q) \in Nat \ {0} /\ Len(t) = Len(q) - 1
      /\ \A i \in 1 .. Len(q) - 1 : t[i] = q[i + 1]
  BY HeadTailProperties, EmptySeq
<1> HIDE DEF t
<1>2. \A i \in 1 .. Len(t) : i + 1 \in 1 .. Len(q) /\ t[i] = q[i + 1]
  BY <1>1
<1>3. ASSUME Closes(q, b) PROVE Closes(t, b)
  <2> SUFFICES ASSUME NEW i \in 1 .. Len(t), t[i][1] = "done"
               PROVE  i = Len(t) /\ owed # -1 /\ b >= owed
    BY DEF Closes
  <2>1. i + 1 = Len(q) /\ owed # -1 /\ b >= owed
    BY <1>2, <1>3 DEF Closes
  <2> QED BY <1>1, <2>1
<1>4. ASSUME NoDone(q) PROVE NoDone(t)
  BY <1>2, <1>4 DEF NoDone
<1> QED BY <1>3, <1>4 DEF t

-----------------------------------------------------------------------------
(* Types                                                                    *)

Tailers == [pc: {"off", "replay", "poll", "row", "drain"}, last: {0} \cup LineIds,
            step: 0 .. MaxSteps, status: {"none"} \cup Statuses]
Sights == (0 .. MaxSteps) \X ({"none"} \cup Statuses)
Reading == {"replay", "row", "drain"}

ViewTyped == /\ tail \in [Viewers -> Tailers]
             /\ queue \in [Viewers -> Seq(Frames)]
             /\ at \in [Viewers -> {"away", "watching", "ended", "left"}]
             /\ got \in [Viewers -> Seq(LineIds)]
             /\ saw \in [Viewers -> Sights]

LEMMA Typed ==
    ASSUME IInv
    PROVE  /\ ViewTyped /\ TypeOK
           /\ lines \in Nat /\ lines <= MaxLines + 3 /\ MaxLines \in Nat /\ MaxSteps \in Nat
           /\ owed \in -1 .. lines /\ owed \in Int
           /\ \A v \in Viewers : at[v] # "watching" => tail[v] = NoTail /\ queue[v] = <<>>
           /\ \A v \in Viewers : tail[v].pc # "off" => at[v] = "watching"
<1>1. TypeOK /\ ViewTyped
  BY DEF IInv, TypeOK, ViewTyped, Tailers, Sights
<1> QED BY <1>1, LogAssumption DEF TypeOK, NoTail

LEMMA NoTailTyped == NoTail \in Tailers /\ NoTail.pc = "off" /\ NoTail.status = "none"
  BY LogAssumption DEF NoTail, Tailers

LEMMA NoFrames == <<>> \in Seq(Frames) /\ Len(<<>>) = 0 /\ NoDone(<<>>)
  BY DEF NoDone

-----------------------------------------------------------------------------
(* Writers                                                                  *)

\* The log grows, and the first verdict is kept: nobody's queue is the worse for it.
LEMMA WritersKeep ==
    ASSUME IInv,
           tail' = tail, queue' = queue, at' = at, got' = got, saw' = saw,
           lines' = lines \/ lines' = lines + 1,
           owed' = owed \/ (owed = -1 /\ owed' = lines'),
           step' \in 0 .. MaxSteps, status' \in Statuses,
           pc' \in {"body", "closing", "failing", "over"},
           reaper' \in {"idle", "verdict", "done"}, faults' \in 0 .. MaxFaults,
           status' \in Terminal => owed' # -1,
           owed' # -1 /\ reaper' = "idle" => status' \in Terminal /\ pc' # "body",
           reaper' = "idle" => reaper = "idle",
           Lines'
    PROVE  IInv'
<1>1. /\ TypeOK /\ lines \in Nat /\ MaxLines \in Nat /\ owed \in -1 .. lines
  BY Typed
<1>2. lines' \in Nat /\ lines' <= MaxLines + 3 /\ lines <= lines' /\ owed' \in -1 .. lines'
  BY <1>1 DEF Lines
<1>3. TypeOK'
  BY <1>1, <1>2 DEF TypeOK
<1>4. VerdictGiven'
  <2>1. owed # -1 => owed' # -1
    BY <1>1
  <2> QED BY <2>1 DEF IInv, VerdictGiven
<1>5. DoneTellsTheVerdict'
  BY DEF IInv, DoneTellsTheVerdict
<1>6. ASSUME NEW v \in Viewers, at[v] = "watching"
      PROVE  Following(v)'
  <2>1. PICK a \in 0 .. lines : \E b \in a .. lines : Follows(v, a, b)
    BY <1>6 DEF IInv, Following
  <2>2. PICK b \in a .. lines : Follows(v, a, b)
    BY <2>1
  <2>3. a \in 0 .. lines' /\ b \in a .. lines' /\ (a + Cap <= lines => a + Cap <= lines')
    BY <1>1, <1>2, LogAssumption
  <2>4. Closes(queue[v], b)'
    BY <1>1, <2>2 DEF Follows, Closes
  <2>5. Follows(v, a, b)'
    BY <2>2, <2>3, <2>4 DEF Follows, View!LastOf, Runs
  <2> QED BY <2>3, <2>5 DEF Following
<1>7. \A v \in Viewers : at'[v] = "away" => got'[v] = <<>>
  BY DEF IInv
<1> QED BY <1>3, <1>4, <1>5, <1>6, <1>7 DEF IInv

LEMMA JobInv == IInv /\ (JobLog \/ JobStep \/ JobOn \/ ReapLine \/ ReapVerdict) => IInv'
<1> SUFFICES ASSUME IInv, JobLog \/ JobStep \/ JobOn \/ ReapLine \/ ReapVerdict
             PROVE  IInv'
  OBVIOUS
<1>1. /\ TypeOK /\ lines \in Nat /\ MaxLines \in Nat /\ owed \in -1 .. lines
      /\ Lines /\ VerdictGiven
  BY Typed DEF IInv
<1>2. tail' = tail /\ queue' = queue /\ at' = at /\ got' = got /\ saw' = saw
  BY DEF JobLog, JobStep, JobOn, JobSucceeds, JobCloses, JobFails, JobFailed, ReapLine,
         ReapVerdict, Writing, view
<1>3. CASE JobLog
  <2>1. /\ pc = "body" /\ lines < MaxLines /\ lines' = lines + 1
        /\ step' = step /\ status' = status /\ owed' = owed
        /\ pc' = pc /\ reaper' = reaper /\ faults' = faults
    BY <1>3 DEF JobLog, AddLog, writers
  <2>2. Lines'
    BY <1>1, <2>1 DEF Lines
  <2> QED BY <1>1, <1>2, <2>1, <2>2, WritersKeep DEF TypeOK, VerdictGiven
<1>4. CASE JobStep
  <2>1. /\ pc = "body" /\ lines' = lines /\ step' \in step + 1 .. MaxSteps
        /\ status' = "running" /\ owed' = owed
        /\ pc' = pc /\ reaper' = reaper /\ faults' = faults
    BY <1>4 DEF JobStep, writers
  <2>2. Lines'
    BY <1>1, <2>1 DEF Lines
  <2>3. step' \in 0 .. MaxSteps
    BY <1>1, <2>1 DEF TypeOK
  <2> QED BY <1>1, <1>2, <2>1, <2>2, <2>3, WritersKeep
          DEF TypeOK, VerdictGiven, Statuses, Terminal
<1>5. ASSUME NEW verdict \in Terminal, Finish(verdict),
             pc' \in {"body", "closing", "failing", "over"},
             reaper' \in {"idle", "verdict", "done"},
             reaper' = "idle" => reaper = "idle" /\ pc' # "body",
             faults' = faults, Lines'
      PROVE  IInv'
  <2>1. /\ status' = verdict /\ lines' = lines /\ step' = step
        /\ owed' = owed \/ (owed = -1 /\ owed' = lines')
        /\ owed' # -1
    BY <1>1, <1>5 DEF Finish
  <2> QED BY <1>1, <1>2, <1>5, <2>1, WritersKeep DEF TypeOK, Statuses
<1>6. CASE JobSucceeds
  <2>1. Finish("success") /\ pc' = "closing" /\ reaper' = reaper /\ faults' = faults
        /\ pc = "body"
    BY <1>6 DEF JobSucceeds
  <2>2. Lines'
    BY <1>1, <2>1 DEF Lines, Finish
  <2> QED BY <1>1, <1>5, <2>1, <2>2 DEF Terminal, TypeOK
<1>7. CASE JobFailed
  <2>1. Finish("failed") /\ pc' = "over" /\ reaper' = reaper /\ faults' = faults
        /\ pc = "failing"
    BY <1>7 DEF JobFailed
  <2>2. Lines'
    BY <1>1, <2>1 DEF Lines, Finish
  <2> QED BY <1>1, <1>5, <2>1, <2>2 DEF Terminal, TypeOK
<1>8. CASE ReapVerdict
  <2>1. Finish("failed") /\ pc' = pc /\ reaper' = "done" /\ faults' = faults
        /\ reaper = "verdict"
    BY <1>8 DEF ReapVerdict
  <2>2. Lines'
    BY <1>1, <2>1 DEF Lines, Finish
  <2> QED BY <1>1, <1>5, <2>1, <2>2 DEF Terminal, TypeOK
<1>9. CASE JobCloses \/ JobFails
  <2>1. /\ lines' = lines + 1 /\ step' = step /\ status' = status /\ owed' = owed
        /\ pc \in {"body", "closing"} /\ pc' \in {"failing", "over"} /\ reaper' = reaper
    BY <1>9 DEF JobCloses, JobFails, AddLog
  <2>2. faults' \in 0 .. MaxFaults
    <3>1. faults' = faults \/ (faults < MaxFaults /\ faults' = faults + 1)
      BY <1>9 DEF JobCloses, JobFails
    <3> QED BY <1>1, <3>1, LogAssumption DEF TypeOK
  <2>3. Lines'
    BY <1>1, <2>1 DEF Lines
  <2>4. pc' # "body" /\ pc' \in {"body", "closing", "failing", "over"}
    BY <2>1
  <2> QED BY <1>1, <1>2, <2>1, <2>2, <2>3, <2>4, WritersKeep DEF TypeOK, VerdictGiven
<1>10. CASE ReapLine
  <2>1. /\ lines' = lines + 1 /\ step' = step /\ status' = status /\ owed' = owed
        /\ pc' = pc /\ reaper = "idle" /\ reaper' = "verdict" /\ faults' = faults
    BY <1>10 DEF ReapLine, AddLog
  <2>2. Lines'
    BY <1>1, <2>1 DEF Lines
  <2> QED BY <1>1, <1>2, <2>1, <2>2, WritersKeep DEF TypeOK, VerdictGiven
<1> QED BY <1>3, <1>4, <1>6, <1>7, <1>8, <1>9, <1>10 DEF JobOn

-----------------------------------------------------------------------------
(* Viewers                                                                  *)

\* A step of one viewer's tailer or handler leaves the others alone.
LEMMA ViewerKeeps ==
    ASSUME IInv, NEW v \in Viewers,
           lines' = lines, step' = step, status' = status, owed' = owed,
           pc' = pc, reaper' = reaper, faults' \in 0 .. MaxFaults,
           ViewTyped',
           \A w \in Viewers \ {v} : /\ tail'[w] = tail[w] /\ queue'[w] = queue[w]
                                    /\ at'[w] = at[w] /\ got'[w] = got[w]
                                    /\ saw'[w] = saw[w],
           at'[v] # "away",
           at'[v] # "watching" => tail'[v] = NoTail /\ queue'[v] = <<>>,
           at'[v] = "watching" => Following(v)',
           at'[v] = "ended" /\ reaper = "idle" => saw'[v][2] \in Terminal,
           tail'[v].status \in Terminal \/ tail'[v].pc = "drain" => owed # -1,
           tail'[v].pc \in Reading => \A w \in Viewers \ {v} : tail[w].pc \notin Reading
    PROVE  IInv'
<1>1. TypeOK /\ ViewTyped
  BY Typed
<1>2. ASSUME NEW u \in Viewers, NEW w \in Viewers, tail'[u].pc \in Reading, tail'[w].pc \in Reading
      PROVE  u = w
  BY ZenonT(40), <1>1, <1>2 DEF TypeOK, Reading
<1>3. TypeOK'
  <2>1. \A w \in Viewers : at'[w] # "watching" => tail'[w] = NoTail /\ queue'[w] = <<>>
    BY <1>1 DEF TypeOK
  <2> QED BY <1>1, <1>2, <2>1 DEF TypeOK, ViewTyped, Tailers, Sights, Reading
<1>4. VerdictGiven' /\ Lines'
  BY DEF IInv, VerdictGiven, Lines
<1>5. DoneTellsTheVerdict'
  BY DEF IInv, DoneTellsTheVerdict
<1>6. ASSUME NEW w \in Viewers, at'[w] = "watching"
      PROVE  Following(w)'
  <2>1. CASE w = v
    BY <1>6, <2>1
  <2>2. CASE w # v
    <3>1. Following(w)
      BY <1>6, <2>2 DEF IInv
    <3>2. /\ tail'[w] = tail[w] /\ queue'[w] = queue[w] /\ got'[w] = got[w]
      BY <2>2
    <3>3. PICK a \in 0 .. lines : \E b \in a .. lines : Follows(w, a, b)
      BY <3>1 DEF Following
    <3>4. PICK b \in a .. lines : Follows(w, a, b)
      BY <3>3
    <3>5. Runs(queue[w], a, b)' /\ Closes(queue[w], b)'
      BY ZenonT(40), <3>2, <3>4 DEF Follows, Runs, Closes
    <3>6. Follows(w, a, b)'
      BY <3>2, <3>4, <3>5 DEF Follows, View!LastOf
    <3> QED BY <3>6 DEF Following
  <2> QED BY <2>1, <2>2
<1>7. \A w \in Viewers : at'[w] = "away" => got'[w] = <<>>
  BY DEF IInv
<1> QED BY <1>3, <1>4, <1>5, <1>6, <1>7 DEF IInv

\* What a tailer pushes continues what the viewer has.
LEMMA Pushed ==
    ASSUME IInv, NEW v \in Viewers, NEW a \in 0 .. lines, NEW b \in a .. lines,
           NEW c \in b .. lines, NEW frames \in Seq(Frames),
           Runs(queue[v], a, b), NoDone(queue[v]), Runs(frames, b, c), Closes(frames, c),
           got[v] # <<>> => a = View!LastOf(got[v]),
           got[v] = <<>> => a = 0 \/ (a + Cap <= lines /\ a < c),
           lines' = lines, owed' = owed, got'[v] = got[v],
           queue'[v] = queue[v] \o frames,
           tail'[v].pc # "replay",
           tail'[v].pc \in {"poll", "row", "drain"} => c = tail'[v].last,
           tail'[v].pc # "off" => NoDone(frames)
    PROVE  Following(v)'
<1>1. /\ lines \in Nat /\ queue[v] \in Seq(Frames)
  BY Typed DEF ViewTyped
<1>2. a \in Nat /\ b \in Nat /\ c \in Nat /\ a <= b /\ b <= c /\ c \in a .. lines
  BY <1>1
<1> DEFINE all == queue[v] \o frames
<1>3. Runs(all, a, c)
  BY <1>1, <1>2, RunsConcat
<1>4. Closes(all, c)
  BY <1>1, ClosesConcat
<1>5. tail'[v].pc # "off" => NoDone(all)
  BY <1>1, NoDoneConcat
<1>6. queue'[v] = all
  OBVIOUS
<1> HIDE DEF all
<1>7. Follows(v, a, c)'
  <2>1. Runs(queue'[v], a, c) /\ Closes(queue'[v], c)
    BY <1>3, <1>4, <1>6
  <2>2. Runs(queue[v], a, c)' /\ Closes(queue[v], c)'
    BY <2>1 DEF Runs, Closes
  <2> QED BY <1>5, <1>6, <2>2 DEF Follows, NoDone, View!LastOf
<1> QED BY <1>2, <1>7 DEF Following

LEMMA ConnectInv == ASSUME IInv, NEW v \in Viewers, Connect(v) PROVE IInv'
<1> DEFINE new == [pc |-> "replay", last |-> 0, step |-> step, status |-> status]
           frame == StepFrame(step, status)
<1>1. /\ TypeOK /\ ViewTyped /\ lines \in Nat
      /\ queue[v] = <<>> /\ tail[v] = NoTail /\ at[v] = "away"
  BY Typed DEF Connect
<1>2. /\ tail' = [tail EXCEPT ![v] = new] /\ at' = [at EXCEPT ![v] = "watching"]
      /\ queue' = [queue EXCEPT ![v] = @ \o <<frame>>]
      /\ lines' = lines /\ step' = step /\ status' = status /\ owed' = owed
      /\ pc' = pc /\ reaper' = reaper /\ faults' = faults /\ got' = got /\ saw' = saw
  BY DEF Connect, Push, task, writers
<1>3. frame \in Frames /\ frame[1] = "step" /\ new \in Tailers
  BY <1>1, FramesTyped DEF TypeOK, Tailers
<1> HIDE DEF frame
<1>4. queue'[v] = <<frame>> /\ <<frame>> \in Seq(Frames)
  <2>1. queue'[v] = <<>> \o <<frame>>
    BY <1>1, <1>2 DEF ViewTyped
  <2> QED BY <1>3, <2>1
<1>5. ViewTyped'
  <2>1. queue' = [queue EXCEPT ![v] = <<frame>>]
    BY <1>1, <1>2, <1>4 DEF ViewTyped
  <2> QED BY <1>1, <1>2, <1>3, <1>4, <2>1 DEF ViewTyped
<1>6. tail'[v] = new /\ at'[v] = "watching" /\ got'[v] = <<>>
  BY <1>1, <1>2 DEF ViewTyped, IInv
<1>7. Following(v)'
  <2>1. Runs(<<frame>>, 0, 0) /\ NoDone(<<frame>>)
    BY <1>3 DEF Runs, NoDone
  <2>2. Follows(v, 0, 0)'
    BY <1>4, <1>6, <2>1 DEF Follows, Runs, Closes, NoDone
  <2>3. 0 \in 0 .. lines' /\ 0 \in 0 .. 0
    BY <1>1, <1>2
  <2> QED BY <2>2, <2>3 DEF Following
<1>8. status \in Terminal => owed # -1
  BY DEF IInv, VerdictGiven
<1>9. \A w \in Viewers \ {v} : tail[w].pc \notin Reading
  BY DEF Connect, Turn, Reading
<1>10. \A w \in Viewers \ {v} : /\ tail'[w] = tail[w] /\ queue'[w] = queue[w]
                                /\ at'[w] = at[w] /\ got'[w] = got[w] /\ saw'[w] = saw[w]
  BY <1>1, <1>2 DEF ViewTyped
<1> QED BY <1>1, <1>2, <1>5, <1>6, <1>7, <1>8, <1>9, <1>10, ViewerKeeps DEF TypeOK

\* A poll pushes frames and moves its tailer.
LEMMA PollKeeps ==
    ASSUME IInv, NEW v \in Viewers, tail[v].pc # "off",
           NEW frames \in Seq(Frames), NEW new \in Tailers,
           queue' = [queue EXCEPT ![v] = @ \o frames],
           tail' = [tail EXCEPT ![v] = new],
           lines' = lines, step' = step, status' = status, owed' = owed,
           pc' = pc, reaper' = reaper, faults' \in 0 .. MaxFaults,
           at' = at, got' = got, saw' = saw,
           new.status \in Terminal \/ new.pc = "drain" => owed # -1,
           new.pc \in Reading => tail[v].pc \in Reading \/ Turn,
           Following(v)'
    PROVE  IInv'
<1>1. TypeOK /\ ViewTyped /\ at[v] = "watching"
  BY Typed
<1>2. queue[v] \o frames \in Seq(Frames)
  BY <1>1, Joined DEF ViewTyped
<1>3. ViewTyped'
  BY <1>1, <1>2 DEF ViewTyped
<1>4. new.pc \in Reading => \A w \in Viewers \ {v} : tail[w].pc \notin Reading
  BY <1>1 DEF TypeOK, Reading, Turn
<1>5. tail'[v] = new /\ at'[v] = "watching"
  BY <1>1 DEF ViewTyped
<1>6. \A w \in Viewers \ {v} : /\ tail'[w] = tail[w] /\ queue'[w] = queue[w]
                               /\ at'[w] = at[w] /\ got'[w] = got[w] /\ saw'[w] = saw[w]
  BY <1>1 DEF ViewTyped
<1> QED BY <1>3, <1>4, <1>5, <1>6, ViewerKeeps

LEMMA BatchEnds ==
    ASSUME IInv, NEW last \in 0 .. lines
    PROVE  BatchEnd(last) \in last .. lines /\ (BatchEnd(last) = last => last = lines)
<1>1. lines \in Nat /\ last \in Nat /\ last <= lines /\ Batch \in Nat \ {0}
  BY Typed, LogAssumption
<1> QED BY <1>1 DEF BatchEnd

\* Where an open tailer's viewer stands.
LEMMA Standing ==
    ASSUME IInv, NEW v \in Viewers, tail[v].pc # "off"
    PROVE  /\ lines \in Nat /\ queue[v] \in Seq(Frames) /\ tail[v] \in Tailers
           /\ NoDone(queue[v])
           /\ tail[v].pc = "replay" => got[v] = <<>> /\ Runs(queue[v], 0, 0)
           /\ tail[v].pc # "replay" =>
                 /\ tail[v].last \in 0 .. lines
                 /\ \E a \in 0 .. tail[v].last :
                       /\ Runs(queue[v], a, tail[v].last)
                       /\ got[v] # <<>> => a = View!LastOf(got[v])
                       /\ got[v] = <<>> => a = 0 \/ (a + Cap <= lines /\ a < tail[v].last)
<1>1. /\ lines \in Nat /\ queue[v] \in Seq(Frames) /\ tail[v] \in Tailers
      /\ at[v] = "watching"
  BY Typed DEF ViewTyped
<1>2. PICK a \in 0 .. lines : \E b \in a .. lines : Follows(v, a, b)
  BY <1>1 DEF IInv, Following
<1>3. PICK b \in a .. lines : Follows(v, a, b)
  BY <1>2
<1>4. NoDone(queue[v])
  BY <1>3 DEF Follows, NoDone
<1>5. ASSUME tail[v].pc = "replay"
      PROVE  got[v] = <<>> /\ Runs(queue[v], 0, 0)
  <2>1. got[v] = <<>> /\ b = 0 /\ Runs(queue[v], a, b)
    BY <1>3, <1>5 DEF Follows
  <2>2. a = 0
    BY <2>1
  <2> QED BY <2>1, <2>2
<1>6. ASSUME tail[v].pc # "replay"
      PROVE  b = tail[v].last
  BY <1>1, <1>3, <1>6 DEF Follows, Tailers
<1>7. /\ Runs(queue[v], a, b) /\ b \in 0 .. lines /\ a \in 0 .. b
      /\ got[v] # <<>> => a = View!LastOf(got[v])
      /\ got[v] = <<>> => a = 0 \/ (a + Cap <= lines /\ a < b)
  BY <1>1, <1>3 DEF Follows
<1> QED BY <1>1, <1>4, <1>5, <1>6, <1>7

LEMMA ReplayInv == ASSUME IInv, NEW v \in Viewers, Replay(v) PROVE IInv'
<1> DEFINE open == tail[v].status \notin Terminal
           F == LogFrames(Oldest, lines)
           D == IF open THEN <<>> ELSE <<Done>>
           frames == F \o D
           o == Oldest - 1
           new == IF open THEN [tail[v] EXCEPT !.pc = "poll", !.last = lines] ELSE NoTail
<1>0. tail[v].pc = "replay"
  BY DEF Replay
<1>1. /\ lines \in Nat /\ lines <= MaxLines + 3 /\ MaxLines \in Nat
      /\ owed \in -1 .. lines /\ ViewTyped /\ TypeOK
      /\ queue[v] \in Seq(Frames) /\ tail[v] \in Tailers /\ NoDone(queue[v])
      /\ got[v] = <<>> /\ Runs(queue[v], 0, 0)
  BY <1>0, Typed, Standing
<1>2. /\ queue' = [queue EXCEPT ![v] = @ \o frames]
      /\ tail' = [tail EXCEPT ![v] = new]
      /\ lines' = lines /\ step' = step /\ status' = status /\ owed' = owed
      /\ pc' = pc /\ reaper' = reaper /\ faults' = faults
      /\ at' = at /\ got' = got /\ saw' = saw
  <2>1. tail' = [tail EXCEPT ![v] = IF open THEN [@ EXCEPT !.pc = "poll", !.last = lines]
                                            ELSE NoTail]
    BY DEF Replay
  <2>2. tail' = [tail EXCEPT ![v] = new]
    BY <1>1, <2>1 DEF ViewTyped
  <2> QED BY <2>2 DEF Replay, Push, task, writers, view
<1>3. o \in 0 .. lines /\ Oldest = o + 1 /\ (o = 0 \/ (o + Cap <= lines /\ o < lines))
  BY <1>1, LogAssumption DEF Oldest
<1>4. F \in Seq(Frames) /\ Runs(F, o, lines) /\ NoDone(F)
  <2>1. o \in Nat /\ lines \in o .. MaxLines + 3
    BY <1>1, <1>3
  <2>2. F = LogFrames(o + 1, lines)
    BY <1>3
  <2> HIDE DEF F, o
  <2>3. F \in Seq(Frames) /\ Runs(F, o, lines) /\ Len(F) = lines - o
        /\ \A i \in 1 .. lines - o : F[i] = <<"log", o + i>>
    BY <2>1, <2>2, LogFramesAre, RunsLog
  <2>4. NoDone(F)
    BY <2>3 DEF NoDone
  <2> QED BY <2>3, <2>4
<1>5. ~open => owed # -1 /\ lines >= owed
  BY <1>1 DEF IInv, VerdictGiven
<1>6. /\ D \in Seq(Frames) /\ Runs(D, lines, lines) /\ Closes(D, lines)
      /\ open => NoDone(D)
  <2>1. CASE open
    <3>1. D = <<>>
      BY <2>1
    <3> HIDE DEF D
    <3> QED BY <1>1, <3>1, NoFrames DEF Runs, Closes
  <2>2. CASE ~open
    <3>1. D = <<Done>>
      BY <2>2
    <3> HIDE DEF D, open
    <3>2. D \in Seq(Frames) /\ Len(D) = 1 /\ D[1] = Done
      BY <3>1, FramesTyped
    <3>3. Done[1] = "done"
      BY FramesTyped
    <3>4. Runs(D, lines, lines)
      BY <1>1, <3>2, <3>3 DEF Runs
    <3>5. Closes(D, lines)
      BY <1>5, <2>2, <3>2 DEF Closes
    <3> QED BY <2>2, <3>2, <3>4, <3>5
  <2> QED BY <2>1, <2>2
<1>7. /\ frames \in Seq(Frames) /\ Runs(frames, o, lines) /\ Closes(frames, lines)
      /\ open => NoDone(frames)
  <2> HIDE DEF F, D, o, open
  <2>1. o \in Nat /\ o <= lines
    BY <1>1, <1>3
  <2>2. Runs(F \o D, o, lines)
    BY <1>1, <1>4, <1>6, <2>1, RunsConcat
  <2> QED BY <1>4, <1>6, <2>2, Joined, ClosesConcat, NoDoneConcat
<1>8. Runs(queue[v], o, o)
  <2>1. \A i \in 1 .. Len(queue[v]) : queue[v][i][1] # "log"
    BY <1>1 DEF Runs
  <2> HIDE DEF o
  <2> QED BY <1>3, <2>1, RunsNothing
<1>9. new \in Tailers
  <2>1. lines \in {0} \cup LineIds
    BY <1>1 DEF LineIds
  <2>2. [tail[v] EXCEPT !.pc = "poll", !.last = lines] \in Tailers
    BY <1>1, <2>1 DEF Tailers
  <2> QED BY <2>2, NoTailTyped
<1>10. /\ tail'[v] = new /\ new.pc = (IF open THEN "poll" ELSE "off")
       /\ open => new.last = lines
       /\ new.status \in Terminal => owed # -1
  <2>1. tail'[v] = new
    BY <1>1, <1>2 DEF ViewTyped
  <2>2. new.pc = (IF open THEN "poll" ELSE "off") /\ (open => new.last = lines)
    BY <1>1, NoTailTyped DEF Tailers
  <2>3. new.status = IF open THEN tail[v].status ELSE "none"
    BY <1>1, NoTailTyped DEF Tailers
  <2> QED BY <2>1, <2>2, <2>3 DEF Terminal
<1>11. queue'[v] = queue[v] \o frames
  BY <1>1, <1>2 DEF ViewTyped
<1> HIDE DEF frames, new, o, open
<1>12. o \in o .. lines /\ lines \in o .. lines
  BY <1>1, <1>3
<1>13. Following(v)'
  BY <1>1, <1>2, <1>3, <1>7, <1>8, <1>10, <1>11, <1>12, Pushed
<1> QED BY <1>0, <1>1, <1>2, <1>7, <1>9, <1>10, <1>13, PollKeeps DEF Reading, TypeOK

LEMMA TailLogsInv == ASSUME IInv, NEW v \in Viewers, TailLogs(v) PROVE IInv'
<1> DEFINE last == tail[v].last
           end == BatchEnd(last)
           frames == LogFrames(last + 1, end)
           new == [tail[v] EXCEPT !.pc = "row", !.last = end]
<1>0. tail[v].pc = "poll" /\ Turn
  BY DEF TailLogs
<1>1. /\ lines \in Nat /\ lines <= MaxLines + 3 /\ MaxLines \in Nat /\ ViewTyped /\ TypeOK
      /\ queue[v] \in Seq(Frames) /\ tail[v] \in Tailers /\ NoDone(queue[v])
      /\ last \in 0 .. lines
  BY <1>0, Typed, Standing
<1>2. PICK a \in 0 .. last :
        /\ Runs(queue[v], a, last)
        /\ got[v] # <<>> => a = View!LastOf(got[v])
        /\ got[v] = <<>> => a = 0 \/ (a + Cap <= lines /\ a < last)
  BY <1>0, Standing
<1>3. end \in last .. lines /\ end \in Nat /\ last \in Nat
  BY <1>1, BatchEnds
<1>4. /\ queue' = [queue EXCEPT ![v] = @ \o frames]
      /\ tail' = [tail EXCEPT ![v] = new]
      /\ lines' = lines /\ step' = step /\ status' = status /\ owed' = owed
      /\ pc' = pc /\ reaper' = reaper /\ faults' = faults
      /\ at' = at /\ got' = got /\ saw' = saw
  BY DEF TailLogs, Push, task, writers, view
<1>5. frames \in Seq(Frames) /\ Runs(frames, last, end) /\ NoDone(frames)
  <2>1. last \in Nat /\ end \in last .. MaxLines + 3
    BY <1>1, <1>3
  <2> HIDE DEF end, last
  <2>2. frames \in Seq(Frames) /\ Runs(frames, last, end) /\ Len(frames) = end - last
        /\ \A i \in 1 .. end - last : frames[i] = <<"log", last + i>>
    BY <2>1, LogFramesAre, RunsLog
  <2> HIDE DEF frames
  <2>3. NoDone(frames)
    BY <2>2 DEF NoDone
  <2> QED BY <2>2, <2>3
<1>6. new \in Tailers /\ tail'[v] = new /\ new.pc = "row" /\ new.last = end
      /\ new.status = tail[v].status
  <2>1. end \in {0} \cup LineIds
    BY <1>1, <1>3 DEF LineIds
  <2>2. tail'[v] = new
    BY <1>1, <1>4 DEF ViewTyped
  <2> HIDE DEF end
  <2>3. /\ new \in Tailers /\ new.pc = "row" /\ new.last = end
        /\ new.status = tail[v].status
    BY <1>1, <2>1 DEF Tailers
  <2> QED BY <2>2, <2>3
<1>7. queue'[v] = queue[v] \o frames
  BY <1>1, <1>4 DEF ViewTyped
<1> HIDE DEF end, last, frames, new
<1>8. Closes(frames, end)
  BY <1>5 DEF NoDone, Closes
<1>9. a \in 0 .. lines /\ last \in a .. lines /\ (a < last => a < end)
  BY <1>1, <1>2, <1>3
<1>10. Following(v)'
  BY <1>1, <1>2, <1>3, <1>4, <1>5, <1>6, <1>7, <1>8, <1>9, Pushed
<1>11. new.status \in Terminal \/ new.pc = "drain" => owed # -1
  BY <1>6 DEF IInv, VerdictGiven
<1> QED BY <1>0, <1>1, <1>4, <1>5, <1>6, <1>10, <1>11, PollKeeps DEF TypeOK

LEMMA TailRowInv == ASSUME IInv, NEW v \in Viewers, TailRow(v) PROVE IInv'
<1> DEFINE last == tail[v].last
           changed == <<step, status>> # <<tail[v].step, tail[v].status>>
           frames == IF changed THEN <<StepFrame(step, status)>> ELSE <<>>
           new == [tail[v] EXCEPT !.pc = IF status \in Terminal THEN "drain" ELSE "poll",
                                  !.step = step, !.status = status]
<1>0. tail[v].pc = "row"
  BY DEF TailRow
<1>1. /\ lines \in Nat /\ ViewTyped /\ TypeOK
      /\ queue[v] \in Seq(Frames) /\ tail[v] \in Tailers /\ NoDone(queue[v])
      /\ last \in 0 .. lines
  BY <1>0, Typed, Standing
<1>2. PICK a \in 0 .. last :
        /\ Runs(queue[v], a, last)
        /\ got[v] # <<>> => a = View!LastOf(got[v])
        /\ got[v] = <<>> => a = 0 \/ (a + Cap <= lines /\ a < last)
  BY <1>0, Standing
<1>3. /\ queue' = [queue EXCEPT ![v] = @ \o frames]
      /\ tail' = [tail EXCEPT ![v] = new]
      /\ lines' = lines /\ step' = step /\ status' = status /\ owed' = owed
      /\ pc' = pc /\ reaper' = reaper /\ faults' = faults
      /\ at' = at /\ got' = got /\ saw' = saw
  BY DEF TailRow, Push, task, writers, view
<1>4. frames \in Seq(Frames) /\ Runs(frames, last, last) /\ NoDone(frames)
  <2>1. CASE changed
    <3>1. frames = <<StepFrame(step, status)>>
      BY <2>1
    <3>2. StepFrame(step, status) \in Frames /\ StepFrame(step, status)[1] = "step"
      BY <1>1, FramesTyped DEF TypeOK
    <3> HIDE DEF frames, last
    <3>3. frames \in Seq(Frames) /\ Len(frames) = 1 /\ frames[1][1] = "step"
      BY <3>1, <3>2
    <3> QED BY <1>1, <3>3 DEF NoDone, Runs
  <2>2. CASE ~changed
    <3>1. frames = <<>>
      BY <2>2
    <3> HIDE DEF frames, last
    <3> QED BY <1>1, <3>1, NoFrames DEF Runs
  <2> QED BY <2>1, <2>2
<1>5. /\ new \in Tailers /\ new.pc = (IF status \in Terminal THEN "drain" ELSE "poll")
      /\ new.last = last /\ new.status = status
  BY <1>1 DEF Tailers, TypeOK
<1>6. tail'[v] = new /\ queue'[v] = queue[v] \o frames
  BY <1>1, <1>3 DEF ViewTyped
<1> HIDE DEF last, changed, frames, new
<1>7. Closes(frames, last)
  BY <1>4 DEF NoDone, Closes
<1>8. a \in 0 .. lines /\ last \in a .. lines /\ last \in last .. lines
  BY <1>1, <1>2
<1>9. Following(v)'
  BY <1>1, <1>2, <1>3, <1>4, <1>5, <1>6, <1>7, <1>8, Pushed
<1>10. new.status \in Terminal \/ new.pc = "drain" => owed # -1
  BY <1>5 DEF IInv, VerdictGiven
<1> QED BY <1>0, <1>1, <1>3, <1>4, <1>5, <1>9, <1>10, PollKeeps DEF TypeOK, Reading

LEMMA TailDrainInv == ASSUME IInv, NEW v \in Viewers, TailDrain(v) PROVE IInv'
<1> DEFINE last == tail[v].last
           end == BatchEnd(last)
<1>0. tail[v].pc = "drain"
  BY DEF TailDrain
<1>1. /\ lines \in Nat /\ lines <= MaxLines + 3 /\ MaxLines \in Nat /\ ViewTyped /\ TypeOK
      /\ queue[v] \in Seq(Frames) /\ tail[v] \in Tailers /\ NoDone(queue[v])
      /\ last \in 0 .. lines /\ owed \in -1 .. lines /\ owed # -1
  BY <1>0, Typed, Standing DEF IInv, VerdictGiven
<1>2. PICK a \in 0 .. last :
        /\ Runs(queue[v], a, last)
        /\ got[v] # <<>> => a = View!LastOf(got[v])
        /\ got[v] = <<>> => a = 0 \/ (a + Cap <= lines /\ a < last)
  BY <1>0, Standing
<1>3. end \in last .. lines /\ end \in Nat /\ last \in Nat /\ (end = last => last = lines)
  BY <1>1, BatchEnds
<1>4. /\ lines' = lines /\ step' = step /\ status' = status /\ owed' = owed
      /\ pc' = pc /\ reaper' = reaper /\ faults' = faults
      /\ at' = at /\ got' = got /\ saw' = saw
  BY DEF TailDrain, task, writers, view
<1>5. CASE end = last
  <2>1. queue' = [queue EXCEPT ![v] = @ \o <<Done>>] /\ tail' = [tail EXCEPT ![v] = NoTail]
    BY <1>5 DEF TailDrain, Push
  <2>2. tail'[v] = NoTail /\ queue'[v] = queue[v] \o <<Done>>
    BY <1>1, <2>1 DEF ViewTyped
  <2>3. /\ <<Done>> \in Seq(Frames) /\ Len(<<Done>>) = 1 /\ <<Done>>[1] = Done
        /\ Done[1] = "done"
    BY FramesTyped
  <2> HIDE DEF end, last
  <2>4. Runs(<<Done>>, last, last) /\ Closes(<<Done>>, last)
    <3>1. Runs(<<Done>>, last, last)
      BY <1>3, <2>3 DEF Runs
    <3>2. last >= owed
      BY <1>1, <1>3, <1>5
    <3> QED BY <1>1, <2>3, <3>1, <3>2 DEF Closes
  <2>5. a \in 0 .. lines /\ last \in a .. lines /\ last \in last .. lines
    BY <1>1, <1>2
  <2>6. Following(v)'
    BY <1>1, <1>2, <1>4, <2>2, <2>3, <2>4, <2>5, NoTailTyped, Pushed
  <2> QED BY <1>0, <1>1, <1>4, <2>1, <2>3, <2>6, NoTailTyped, PollKeeps
          DEF TypeOK, Reading, Terminal
<1>6. CASE end # last
  <2> DEFINE frames == LogFrames(last + 1, end)
             new == [tail[v] EXCEPT !.last = end]
  <2>1. /\ queue' = [queue EXCEPT ![v] = @ \o frames]
        /\ tail' = [tail EXCEPT ![v] = new]
    <3>1. queue' = [queue EXCEPT ![v] = @ \o frames] /\ tail' = [tail EXCEPT ![v].last = end]
      BY <1>6 DEF TailDrain, Push
    <3> QED BY <1>1, <3>1 DEF ViewTyped
  <2>2. frames \in Seq(Frames) /\ Runs(frames, last, end) /\ NoDone(frames)
    <3>1. last \in Nat /\ end \in last .. MaxLines + 3
      BY <1>1, <1>3
    <3> HIDE DEF end, last
    <3>2. frames \in Seq(Frames) /\ Runs(frames, last, end) /\ Len(frames) = end - last
          /\ \A i \in 1 .. end - last : frames[i] = <<"log", last + i>>
      BY <3>1, LogFramesAre, RunsLog
    <3> HIDE DEF frames
    <3>3. NoDone(frames)
      BY <3>2 DEF NoDone
    <3> QED BY <3>2, <3>3
  <2>3. /\ new \in Tailers /\ new.pc = "drain" /\ new.last = end
        /\ new.status = tail[v].status
    <3>1. end \in {0} \cup LineIds
      BY <1>1, <1>3 DEF LineIds
    <3> HIDE DEF end
    <3> QED BY <1>0, <1>1, <3>1 DEF Tailers
  <2>4. tail'[v] = new /\ queue'[v] = queue[v] \o frames
    BY <1>1, <2>1 DEF ViewTyped
  <2> HIDE DEF end, last, frames, new
  <2>5. Closes(frames, end)
    BY <2>2 DEF NoDone, Closes
  <2>6. a \in 0 .. lines /\ last \in a .. lines /\ (a < last => a < end)
    BY <1>1, <1>2, <1>3
  <2>7. Following(v)'
    BY <1>1, <1>2, <1>3, <1>4, <2>2, <2>3, <2>4, <2>5, <2>6, Pushed
  <2> QED BY <1>0, <1>1, <1>4, <2>1, <2>2, <2>3, <2>7, PollKeeps DEF TypeOK, Reading
<1> QED BY <1>5, <1>6

\* A tailer that raised leaves a queue that ends without done.
LEMMA TailRaisesInv == ASSUME IInv, NEW v \in Viewers, TailRaises(v) PROVE IInv'
<1>0. tail[v].pc \in {"row", "drain", "poll"} /\ faults < MaxFaults /\ faults' = faults + 1
  BY DEF TailRaises
<1>1. /\ lines \in Nat /\ ViewTyped /\ TypeOK
      /\ queue[v] \in Seq(Frames) /\ NoDone(queue[v]) /\ tail[v].last \in 0 .. lines
      /\ at[v] = "watching"
  BY <1>0, Typed, Standing
<1>2. PICK a \in 0 .. tail[v].last :
        /\ Runs(queue[v], a, tail[v].last)
        /\ got[v] # <<>> => a = View!LastOf(got[v])
        /\ got[v] = <<>> => a = 0 \/ (a + Cap <= lines /\ a < tail[v].last)
  BY <1>0, Standing
<1>3. /\ queue' = queue /\ tail' = [tail EXCEPT ![v] = NoTail]
      /\ lines' = lines /\ step' = step /\ status' = status /\ owed' = owed
      /\ pc' = pc /\ reaper' = reaper /\ at' = at /\ got' = got /\ saw' = saw
  BY DEF TailRaises, task, writers, view
<1>4. tail'[v] = NoTail /\ ViewTyped'
  BY <1>1, <1>3, NoTailTyped DEF ViewTyped
<1>5. Following(v)'
  <2>0. PICK b \in 0 .. lines : b = tail[v].last
    BY <1>1
  <2>1. a \in 0 .. lines /\ b \in a .. lines
    BY <1>1, <1>2, <2>0
  <2>2. Runs(queue[v], a, b)' /\ Closes(queue[v], b)'
    BY <1>1, <1>2, <1>3, <2>0 DEF NoDone, Closes, Runs
  <2>3. Follows(v, a, b)'
    BY <1>2, <1>3, <1>4, <2>0, <2>2, NoTailTyped DEF Follows, View!LastOf
  <2> QED BY <1>3, <2>1, <2>3 DEF Following
<1>6. faults' \in 0 .. MaxFaults
  BY <1>0, <1>1, LogAssumption DEF TypeOK
<1>7. \A w \in Viewers \ {v} : tail'[w] = tail[w]
  BY <1>1, <1>3 DEF ViewTyped
<1> QED BY <1>1, <1>3, <1>4, <1>5, <1>6, <1>7, NoTailTyped, ViewerKeeps DEF Reading, Terminal

\* What a handler knows of the frame it sends next.
LEMMA NextFrame ==
    ASSUME IInv, NEW v \in Viewers, at[v] = "watching", queue[v] # <<>>
    PROVE  LET f == Head(queue[v]) IN
           /\ f \in Frames /\ Tail(queue[v]) \in Seq(Frames)
           /\ f[1] = "log" =>
                /\ f[2] \in 1 .. lines
                /\ got[v] # <<>> => f[2] = View!LastOf(got[v]) + 1
                /\ got[v] = <<>> => f[2] = 1 \/ f[2] + Cap <= lines + 1
           /\ f[1] = "done" => owed # -1 /\ View!LastOf(got[v]) >= owed
<1> DEFINE f == Head(queue[v])
<1>1. /\ lines \in Nat /\ queue[v] \in Seq(Frames) /\ got[v] \in Seq(LineIds) /\ owed \in Int
      /\ Cap \in Nat
  BY Typed, LogAssumption DEF ViewTyped
<1>2. PICK a \in 0 .. lines : \E b \in a .. lines : Follows(v, a, b)
  BY DEF IInv, Following
<1>3. PICK b \in a .. lines : Follows(v, a, b)
  BY <1>2
<1>4. /\ Runs(queue[v], a, b) /\ Closes(queue[v], b)
      /\ got[v] # <<>> => a = View!LastOf(got[v])
      /\ got[v] = <<>> => a = 0 \/ (a + Cap <= lines /\ a < b)
  BY <1>3 DEF Follows
<1>5. f \in Frames /\ Tail(queue[v]) \in Seq(Frames) /\ f = queue[v][1]
      /\ Len(queue[v]) \in Nat \ {0}
  BY <1>1, HeadTailProperties, EmptySeq
<1>6. f[1] = "log" => f[2] = a + 1 /\ a + 1 <= b
  BY <1>1, <1>2, <1>3, <1>4, RunsTail
<1>7. ASSUME f[1] = "done"
      PROVE  owed # -1 /\ View!LastOf(got[v]) >= owed
  <2>1. Len(queue[v]) = 1 /\ owed # -1 /\ b >= owed
    <3>1. 1 \in 1 .. Len(queue[v])
      BY <1>5
    <3>2. queue[v][1][1] = "done"
      BY <1>5, <1>7
    <3> QED BY <1>4, <3>1, <3>2 DEF Closes
  <2>2. a = b
    <3>1. CASE a < b
      <4>1. a + 1 \in a + 1 .. b
        BY <1>1, <3>1
      <4>2. PICK i \in 1 .. Len(queue[v]) : queue[v][i] = <<"log", a + 1>>
        BY <1>4, <4>1 DEF Runs
      <4>3. i = 1
        BY <2>1
      <4> QED BY <1>5, <1>7, <4>2, <4>3
    <3> QED BY <1>1, <3>1
  <2>3. a = View!LastOf(got[v])
    <3>1. CASE got[v] = <<>>
      <4>1. a = 0
        BY <1>1, <1>4, <2>2, <3>1
      <4> QED BY <3>1, <4>1 DEF View!LastOf
    <3> QED BY <1>4, <3>1
  <2> QED BY <2>1, <2>2, <2>3
<1> HIDE DEF f
<1>8. f[1] = "log" =>
        /\ f[2] \in 1 .. lines
        /\ got[v] # <<>> => f[2] = View!LastOf(got[v]) + 1
        /\ got[v] = <<>> => f[2] = 1 \/ f[2] + Cap <= lines + 1
  BY <1>1, <1>4, <1>6
<1> QED BY <1>5, <1>7, <1>8 DEF f

LEMMA SendInv == ASSUME IInv, NEW v \in Viewers, Send(v) PROVE IInv'
<1> DEFINE f == Head(queue[v])
<1>1. /\ at[v] = "watching" /\ queue[v] # <<>> /\ Turn
      /\ lines' = lines /\ step' = step /\ status' = status /\ owed' = owed
      /\ pc' = pc /\ reaper' = reaper /\ faults' = faults
  BY DEF Send, task, writers
<1>2. /\ f \in Frames /\ Tail(queue[v]) \in Seq(Frames) /\ f[1] \in {"log", "step", "done"}
      /\ f[1] = "log" => f[2] \in LineIds
      /\ f[1] = "step" => f[2] \in 0 .. MaxSteps /\ f[3] \in Statuses
  BY <1>1, NextFrame, FrameKinds
<1>3. /\ TypeOK /\ ViewTyped /\ lines \in Nat /\ queue[v] \in Seq(Frames)
      /\ got[v] \in Seq(LineIds)
  BY Typed DEF ViewTyped
<1>4. tail[v].pc # "replay" /\ tail[v].pc \notin Reading
  BY <1>1 DEF Turn, Reading
<1>5. /\ tail[v].status \in Terminal \/ tail[v].pc = "drain" => owed # -1
      /\ owed # -1 /\ reaper = "idle" => status \in Terminal
  BY DEF IInv, VerdictGiven
<1>6. PICK a \in 0 .. lines : \E b \in a .. lines : Follows(v, a, b)
  BY <1>1 DEF IInv, Following
<1>7. PICK b \in a .. lines : Follows(v, a, b)
  BY <1>6
<1>8. /\ Runs(queue[v], a, b) /\ Closes(queue[v], b) /\ a \in Nat /\ b \in Nat
      /\ tail[v].pc \in {"poll", "row", "drain"} => b = tail[v].last
      /\ tail[v].pc # "off" => NoDone(queue[v])
      /\ got[v] # <<>> => a = View!LastOf(got[v])
      /\ got[v] = <<>> => a = 0 \/ (a + Cap <= lines /\ a < b)
  BY <1>3, <1>6, <1>7 DEF Follows, NoDone
<1>9. /\ Closes(Tail(queue[v]), b)
      /\ tail[v].pc # "off" => NoDone(Tail(queue[v]))
  BY <1>1, <1>3, <1>8, ClosesTail
<1>10. CASE f[1] = "log"
  <2>1. /\ got' = [got EXCEPT ![v] = Append(@, f[2])] /\ queue' = [queue EXCEPT ![v] = Tail(@)]
        /\ at' = at /\ saw' = saw /\ tail' = tail
    BY <1>10 DEF Send
  <2>2. f[2] = a + 1 /\ a + 1 <= b /\ Runs(Tail(queue[v]), a + 1, b)
    BY <1>1, <1>3, <1>8, <1>10, RunsTail
  <2>3. /\ Append(got[v], f[2]) \in Seq(LineIds) /\ Append(got[v], f[2]) # <<>>
        /\ View!LastOf(Append(got[v], f[2])) = f[2]
    BY SMTT(20), <1>2, <1>3, <1>10, AppendProperties DEF View!LastOf
  <2>4. queue'[v] = Tail(queue[v]) /\ got'[v] = Append(got[v], f[2])
    BY <1>3, <2>1 DEF ViewTyped
  <2> HIDE DEF f
  <2>5. ViewTyped'
    BY <1>2, <1>3, <2>1, <2>3 DEF ViewTyped
  <2>6. Following(v)'
    <3>1. Runs(queue[v], a + 1, b)' /\ Closes(queue[v], b)'
      BY <1>1, <1>9, <2>2, <2>4 DEF Runs, Closes
    <3>2. (got[v] # <<>> => a + 1 = View!LastOf(got[v]))'
      BY <2>2, <2>3, <2>4 DEF View!LastOf
    <3>3. got'[v] # <<>>
      BY <2>3, <2>4
    <3>4. Follows(v, a + 1, b)'
      BY <1>4, <1>8, <1>9, <2>1, <2>4, <3>1, <3>2, <3>3 DEF Follows, NoDone
    <3>5. a + 1 \in 0 .. lines' /\ b \in a + 1 .. lines'
      BY <1>1, <1>3, <1>6, <1>7, <2>2
    <3> QED BY <3>4, <3>5 DEF Following
  <2>7. \A w \in Viewers \ {v} : queue'[w] = queue[w] /\ got'[w] = got[w]
    BY <1>3, <2>1 DEF ViewTyped
  <2> QED BY <1>1, <1>3, <1>4, <1>5, <2>1, <2>5, <2>6, <2>7, ViewerKeeps DEF TypeOK
<1>11. CASE f[1] = "step"
  <2>1. /\ saw' = [saw EXCEPT ![v] = <<f[2], f[3]>>] /\ queue' = [queue EXCEPT ![v] = Tail(@)]
        /\ at' = at /\ got' = got /\ tail' = tail
    BY <1>11 DEF Send
  <2>2. Runs(Tail(queue[v]), a, b)
    BY <1>1, <1>3, <1>8, <1>11, RunsTail
  <2>3. queue'[v] = Tail(queue[v])
    BY <1>3, <2>1 DEF ViewTyped
  <2>4. <<f[2], f[3]>> \in Sights
    BY <1>2, <1>11 DEF Sights
  <2> HIDE DEF f
  <2>5. ViewTyped'
    BY <1>2, <1>3, <2>1, <2>4 DEF ViewTyped
  <2>6. Following(v)'
    <3>1. Runs(queue[v], a, b)' /\ Closes(queue[v], b)'
      BY <1>1, <1>9, <2>2, <2>3 DEF Runs, Closes
    <3>2. Follows(v, a, b)'
      BY <1>1, <1>4, <1>8, <1>9, <2>1, <2>3, <3>1 DEF Follows, NoDone, View!LastOf
    <3> QED BY <1>1, <3>2 DEF Following
  <2>7. \A w \in Viewers \ {v} : queue'[w] = queue[w] /\ saw'[w] = saw[w]
    BY <1>3, <2>1 DEF ViewTyped
  <2> QED BY <1>1, <1>3, <1>4, <1>5, <2>1, <2>5, <2>6, <2>7, ViewerKeeps DEF TypeOK
<1>12. CASE f[1] = "done"
  <2>1. /\ at' = [at EXCEPT ![v] = "ended"] /\ saw' = [saw EXCEPT ![v] = <<@[1], status>>]
        /\ tail' = [tail EXCEPT ![v] = NoTail] /\ queue' = [queue EXCEPT ![v] = <<>>]
        /\ got' = got
    BY <1>12 DEF Send, Unsubscribe
  <2>2. owed # -1
    BY <1>1, <1>12, NextFrame
  <2>3. saw[v] \in Sights /\ <<saw[v][1], status>> \in Sights
    BY <1>3 DEF ViewTyped, TypeOK, Sights
  <2>4. ViewTyped'
    BY <1>3, <2>1, <2>3, NoTailTyped, NoFrames DEF ViewTyped
  <2>5. /\ tail'[v] = NoTail /\ queue'[v] = <<>> /\ at'[v] = "ended"
        /\ saw'[v] = <<saw[v][1], status>>
    BY <1>3, <2>1 DEF ViewTyped
  <2>6. \A w \in Viewers \ {v} : /\ tail'[w] = tail[w] /\ queue'[w] = queue[w]
                                 /\ at'[w] = at[w] /\ got'[w] = got[w] /\ saw'[w] = saw[w]
    BY <1>3, <2>1 DEF ViewTyped
  <2>7. reaper = "idle" => saw'[v][2] \in Terminal
    BY <1>5, <2>2, <2>5
  <2>8. ~(tail'[v].status \in Terminal \/ tail'[v].pc = "drain") /\ tail'[v].pc \notin Reading
    BY <2>5, NoTailTyped DEF Terminal, Reading
  <2>9. faults' \in 0 .. MaxFaults /\ at'[v] # "away" /\ at'[v] # "watching"
    BY <1>1, <1>3, <2>5 DEF TypeOK
  <2> HIDE DEF f
  <2> QED BY <1>1, <2>4, <2>5, <2>6, <2>7, <2>8, <2>9, ViewerKeeps
<1> QED BY <1>2, <1>10, <1>11, <1>12

LEMMA DisconnectInv == ASSUME IInv, NEW v \in Viewers, Disconnect(v) PROVE IInv'
<1>1. /\ lines' = lines /\ step' = step /\ status' = status /\ owed' = owed
      /\ pc' = pc /\ reaper' = reaper /\ faults' = faults /\ got' = got /\ saw' = saw
      /\ tail' = [tail EXCEPT ![v] = NoTail] /\ queue' = [queue EXCEPT ![v] = <<>>]
      /\ at' = [at EXCEPT ![v] = "left"]
  BY DEF Disconnect, Unsubscribe, task, writers
<1>2. TypeOK /\ ViewTyped
  BY Typed
<1>3. ViewTyped'
  BY <1>1, <1>2, NoTailTyped, NoFrames DEF ViewTyped
<1>4. /\ tail'[v] = NoTail /\ queue'[v] = <<>> /\ at'[v] = "left"
      /\ \A w \in Viewers \ {v} : /\ tail'[w] = tail[w] /\ queue'[w] = queue[w]
                                  /\ at'[w] = at[w] /\ got'[w] = got[w] /\ saw'[w] = saw[w]
  BY <1>1, <1>2 DEF ViewTyped
<1> QED BY <1>1, <1>2, <1>3, <1>4, NoTailTyped, ViewerKeeps DEF TypeOK, Reading, Terminal

-----------------------------------------------------------------------------
(* The invariant                                                            *)

LEMMA InitInv == Init => IInv
<1> SUFFICES ASSUME Init PROVE IInv
  OBVIOUS
<1>1. /\ lines = 0 /\ step = 0 /\ status = "pending" /\ owed = -1
      /\ pc = "body" /\ reaper = "idle" /\ faults = 0
  BY DEF Init
<1>2. \A v \in Viewers : /\ tail[v] = NoTail /\ queue[v] = <<>> /\ at[v] = "away"
                         /\ got[v] = <<>>
  BY DEF Init
<1>3. ViewTyped
  <2>1. <<0, "none">> \in Sights /\ <<>> \in Seq(LineIds)
    BY LogAssumption DEF Sights
  <2> QED BY <2>1, NoTailTyped, NoFrames DEF Init, ViewTyped
<1>4. TypeOK
  <2>1. /\ lines \in Nat /\ lines <= MaxLines + 3 /\ step \in 0 .. MaxSteps
        /\ owed \in -1 .. lines /\ faults \in 0 .. MaxFaults
    BY <1>1, LogAssumption
  <2> QED BY <1>1, <1>2, <1>3, <2>1, NoTailTyped
          DEF TypeOK, ViewTyped, Tailers, Sights, Statuses
<1>5. VerdictGiven
  BY <1>1, <1>2, NoTailTyped DEF VerdictGiven, Terminal
<1>6. Lines
  BY <1>1, LogAssumption DEF Lines
<1>7. DoneTellsTheVerdict
  BY <1>2 DEF DoneTellsTheVerdict
<1> QED BY <1>2, <1>4, <1>5, <1>6, <1>7 DEF IInv

LEMMA NextInv == IInv /\ [Next]_vars => IInv'
<1> SUFFICES ASSUME IInv, [Next]_vars PROVE IInv'
  OBVIOUS
<1>1. CASE JobLog \/ JobStep \/ JobOn \/ ReapLine \/ ReapVerdict
  BY <1>1, JobInv
<1>2. ASSUME NEW v \in Viewers,
             Connect(v) \/ Poll(v) \/ TailRaises(v) \/ Send(v) \/ Disconnect(v)
      PROVE  IInv'
  BY <1>2, ConnectInv, ReplayInv, TailLogsInv, TailRowInv, TailDrainInv, TailRaisesInv,
     SendInv, DisconnectInv DEF Poll
<1>3. CASE UNCHANGED vars
  <2>1. /\ lines' = lines /\ step' = step /\ status' = status /\ owed' = owed
        /\ pc' = pc /\ reaper' = reaper /\ faults' = faults /\ tail' = tail
        /\ queue' = queue /\ at' = at /\ got' = got /\ saw' = saw
    BY <1>3 DEF vars, task, writers, view
  <2>2. Lines' /\ TypeOK /\ VerdictGiven
    BY <2>1 DEF IInv, Lines
  <2> QED BY <2>1, <2>2, WritersKeep DEF TypeOK, VerdictGiven
<1> QED BY <1>1, <1>2, <1>3 DEF Next

LEMMA InvariantHolds == Spec => []IInv
  BY InitInv, NextInv, PTL DEF Spec

-----------------------------------------------------------------------------
\* Every variable of the rows, the tailers and the WebSocket handlers keeps its
\* type; a tailer belongs to an open handler and no two are inside a poll.
THEOREM TypeCorrect == Spec => []TypeOK
<1>1. IInv => TypeOK
  BY DEF IInv
<1> QED BY <1>1, InvariantHolds, PTL

\* A stream that ends tells success or failure, whatever lands between the reads
\* of subscribe and _tail, unless the reaper took part (services/job_runner.py:
\* the job it took for an orphan may write "running" over its verdict).
THEOREM DoneTellsTheVerdictHolds == Spec => []DoneTellsTheVerdict
<1>1. IInv => DoneTellsTheVerdict
  BY DEF IInv
<1> QED BY <1>1, InvariantHolds, PTL

\* Whatever falls between two reads of a poll, a viewer is shown every line once
\* and in order, from line 1 or from Cap lines back, and the end only after the
\* lines the first verdict came with (SharedTask.subscribe and _tail).
THEOREM LogViewImplemented == Spec => ImplementsLogView
<1>1. Init => View!Init
  BY DEF Init, View!Init
<1>2. IInv /\ [Next]_vars => [View!Next]_View!vars
  <2> SUFFICES ASSUME IInv, [Next]_vars PROVE [View!Next]_View!vars
    OBVIOUS
  <2>1. lines \in Nat /\ owed \in -1 .. lines
    BY Typed
  <2>2. CASE JobLog \/ JobStep \/ JobOn \/ ReapLine \/ ReapVerdict
    <3>1. got' = got /\ at' = at
      BY <2>2 DEF JobLog, JobStep, JobOn, JobSucceeds, JobCloses, JobFails, JobFailed,
             ReapLine, ReapVerdict, Writing, view
    <3>2. /\ lines' = lines \/ lines' = lines + 1
          /\ owed' = owed \/ (owed = -1 /\ owed' = lines /\ lines' = lines)
      BY <2>2 DEF JobLog, JobStep, JobOn, JobSucceeds, JobCloses, JobFails, JobFailed,
             ReapLine, ReapVerdict, AddLog, Finish
    <3>3. lines' \in lines .. lines + 2
      BY <2>1, <3>2
    <3>4. owed' \in IF owed = -1 THEN {-1} \cup lines .. lines' ELSE {owed}
      BY <2>1, <3>2
    <3>5. View!Produce
      BY <3>1, <3>3, <3>4 DEF View!Produce
    <3> QED BY <3>5 DEF View!Next
  <2>3. ASSUME NEW v \in Viewers, Connect(v)
        PROVE  View!Next
    <3>1. View!Attach(v)
      BY <2>3 DEF Connect, task, View!Attach
    <3> QED BY <3>1 DEF View!Next
  <2>4. ASSUME NEW v \in Viewers, Poll(v) \/ TailRaises(v)
        PROVE  UNCHANGED View!vars
    BY <2>4 DEF Poll, Replay, TailLogs, TailRow, TailDrain, TailRaises, task, view, View!vars
  <2>5. ASSUME NEW v \in Viewers, Send(v)
        PROVE  View!Next \/ UNCHANGED View!vars
    <3> DEFINE f == Head(queue[v])
    <3>1. at[v] = "watching" /\ queue[v] # <<>> /\ UNCHANGED <<lines, owed>>
      BY <2>5 DEF Send, task
    <3>2. f \in Frames /\ f[1] \in {"log", "step", "done"}
      BY <3>1, NextFrame, FrameKinds
    <3>3. CASE f[1] = "log"
      <4>1. /\ f[2] \in 1 .. lines
            /\ got[v] # <<>> => f[2] = View!LastOf(got[v]) + 1
            /\ got[v] = <<>> => f[2] = 1 \/ f[2] + Cap <= lines + 1
        BY <3>1, <3>3, NextFrame
      <4>2. f[2] \in View!NextLine(v) /\ f[2] <= lines
        BY <4>1, <2>1 DEF View!NextLine
      <4>3. got' = [got EXCEPT ![v] = Append(@, f[2])] /\ at' = at
        BY <2>5, <3>3 DEF Send
      <4>4. View!Show(v)
        BY <3>1, <4>2, <4>3 DEF View!Show
      <4> QED BY <4>4 DEF View!Next
    <3>4. CASE f[1] = "step"
      BY <2>5, <3>1, <3>4 DEF Send, View!vars
    <3>5. CASE f[1] = "done"
      <4>1. owed # -1 /\ View!LastOf(got[v]) >= owed
        BY <3>1, <3>5, NextFrame
      <4>2. at' = [at EXCEPT ![v] = "ended"] /\ got' = got
        BY <2>5, <3>5 DEF Send
      <4>3. View!End(v)
        BY <3>1, <4>1, <4>2 DEF View!End
      <4> QED BY <4>3 DEF View!Next
    <3> QED BY <3>2, <3>3, <3>4, <3>5
  <2>6. ASSUME NEW v \in Viewers, Disconnect(v)
        PROVE  View!Next
    <3>1. View!Leave(v)
      BY <2>6 DEF Disconnect, task, View!Leave
    <3> QED BY <3>1 DEF View!Next
  <2>7. CASE UNCHANGED vars
    BY <2>7 DEF vars, task, view, View!vars
  <2> QED BY <2>2, <2>3, <2>4, <2>5, <2>6, <2>7 DEF Next
<1> QED BY <1>1, <1>2, InvariantHolds, PTL DEF Spec, ImplementsLogView, View!Spec
=============================================================================
