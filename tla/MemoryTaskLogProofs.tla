------------------------- MODULE MemoryTaskLogProofs -------------------------
(***************************************************************************)
(* The log of an in-process task, for any number of viewers, lines and     *)
(* steps and a ring buffer of any length: types, CaughtUp, and that it     *)
(* implements LogView.                                                     *)
(*                                                                         *)
(* What a viewer has been sent, followed by what waits in its queue, is    *)
(* the log from some line on.  Carries says it of a queue by itself, so    *)
(* that it can be put together from the pieces the code appends.           *)
(***************************************************************************)
EXTENDS MemoryTaskLog, SequenceTheorems, TLAPS

\* Whoever was sent line a last, and is sent frames, is sent the lines to b, one
\* after the other, and done no earlier than line due (-1: not at all). shown[i]
\* is the line sent last when i of the frames are sent.
Carries(frames, shown, a, b, due) ==
    /\ shown \in [0 .. Len(frames) -> Nat]
    /\ shown[0] = a /\ shown[Len(frames)] = b
    /\ \A i, j \in 0 .. Len(frames) : i <= j => shown[i] <= shown[j]
    /\ \A i \in 1 .. Len(frames) :
          /\ frames[i][1] = "log" => /\ shown[i] = shown[i - 1] + 1
                                     /\ frames[i] = <<"log", shown[i]>>
          /\ frames[i][1] # "log" => shown[i] = shown[i - 1]
          /\ frames[i][1] = "done" => due # -1 /\ shown[i] >= due

Carried(frames, a, b, due) == \E shown : Carries(frames, shown, a, b, due)

\* Whoever saw s last, and is sent frames, has then seen t last.
Tells(frames, s, t) ==
    /\ \A i \in 1 .. Len(frames) :
          /\ frames[i][1] = "step"
          /\ \A j \in i + 1 .. Len(frames) : frames[j][1] # "step"
          => frames[i] = StepFrame(t[1], t[2])
    /\ (\A i \in 1 .. Len(frames) : frames[i][1] # "step") => s = t

-----------------------------------------------------------------------------
(* Frames                                                                   *)

LEMMA FrameKinds ==
    ASSUME NEW f \in Frames
    PROVE  /\ f[1] \in {"log", "step", "done"}
           /\ f[1] = "log" => f = <<"log", f[2]>> /\ f[2] \in 1 .. MaxLines + 1
           /\ f[1] = "step" => /\ f = StepFrame(f[2], f[3]) /\ f[2] \in 0 .. MaxSteps
                               /\ f[3] \in {"pending", "running"} \cup Terminal
           /\ f[1] = "done" <=> f = Done
  BY DEF Frames, StepFrame, Done

LEMMA FramesTyped ==
    /\ Done \in Frames
    /\ \A s \in 0 .. MaxSteps, st \in {"pending", "running"} \cup Terminal :
          StepFrame(s, st) \in Frames
    /\ \A k \in 1 .. MaxLines + 1 : <<"log", k>> \in Frames
  BY DEF Frames

LEMMA Joined ==
    ASSUME NEW q \in Seq(Frames), NEW r \in Seq(Frames)
    PROVE  /\ q \o r \in Seq(Frames) /\ Len(q \o r) = Len(q) + Len(r)
           /\ Len(q) \in Nat /\ Len(r) \in Nat
           /\ \A i \in 1 .. Len(q) : (q \o r)[i] = q[i] /\ i \in 1 .. Len(q \o r)
           /\ \A i \in 1 .. Len(r) : /\ (q \o r)[Len(q) + i] = r[i]
                                     /\ Len(q) + i \in 1 .. Len(q \o r)
  BY ConcatProperties, LenProperties

LEMMA LogFramesAre ==
    ASSUME NEW a \in Nat, NEW b \in a .. MaxLines + 1
    PROVE  /\ LogFrames(a + 1, b) \in Seq(Frames)
           /\ Len(LogFrames(a + 1, b)) = b - a
           /\ \A i \in 1 .. b - a : LogFrames(a + 1, b)[i] = <<"log", a + i>>
           /\ \A i \in 1 .. Len(LogFrames(a + 1, b)) : LogFrames(a + 1, b)[i][1] = "log"
<1> DEFINE f == [i \in 1 .. b - a |-> <<"log", a + i>>]
<1>1. LogFrames(a + 1, b) = f
  BY LogAssumption DEF LogFrames
<1>2. \A i \in 1 .. b - a : <<"log", a + i>> \in Frames
  BY FramesTyped, LogAssumption
<1>3. f \in [1 .. b - a -> Frames] /\ b - a \in Nat
  BY <1>2, LogAssumption
<1>4. f \in Seq(Frames) /\ Len(f) = b - a
  BY <1>3
<1>5. \A i \in 1 .. Len(f) : f[i][1] = "log"
  BY <1>4
<1> QED BY <1>1, <1>4, <1>5

-----------------------------------------------------------------------------
(* Carried                                                                  *)

LEMMA CarriedLog ==
    ASSUME NEW a \in Nat, NEW b \in a .. MaxLines + 1, NEW due \in Int
    PROVE  Carried(LogFrames(a + 1, b), a, b, due)
<1> DEFINE f == LogFrames(a + 1, b)
           shown == [i \in 0 .. b - a |-> a + i]
<1>1. b \in Nat /\ b - a \in Nat
  BY LogAssumption
<1>2. shown \in [0 .. b - a -> Nat] /\ \A i \in 0 .. b - a : shown[i] = a + i
  BY <1>1
<1>3. Len(f) = b - a /\ \A i \in 1 .. b - a : f[i] = <<"log", a + i>>
  BY LogFramesAre
<1> HIDE DEF f, shown
<1>4. shown[0] = a /\ shown[b - a] = b
  BY <1>1, <1>2
<1>5. ASSUME NEW i \in 1 .. b - a
      PROVE  shown[i] = shown[i - 1] + 1 /\ f[i] = <<"log", shown[i]>> /\ f[i][1] = "log"
  BY <1>1, <1>2, <1>3
<1>6. \A i, j \in 0 .. b - a : i <= j => shown[i] <= shown[j]
  BY <1>1, <1>2
<1>7. Carries(f, shown, a, b, due)
  BY <1>2, <1>3, <1>4, <1>5, <1>6 DEF Carries
<1> QED BY <1>7 DEF Carried, f

LEMMA CarriedOther ==
    ASSUME NEW a \in Nat, NEW due \in Int, NEW f \in Frames, f[1] # "log",
           f = Done => due \in 0 .. a
    PROVE  Carried(<<f>>, a, a, due)
<1> DEFINE shown == [i \in 0 .. 1 |-> a]
<1>1. Carries(<<f>>, shown, a, a, due)
  BY FrameKinds DEF Carries
<1> QED BY <1>1 DEF Carried

LEMMA CarriedConcat ==
    ASSUME NEW q \in Seq(Frames), NEW r \in Seq(Frames),
           NEW a \in Nat, NEW b \in Nat, NEW c \in Nat, a <= b, b <= c,
           NEW due \in Int, NEW later \in Int, due = later \/ due = -1,
           Carried(q, a, b, due), Carried(r, b, c, later)
    PROVE  Carried(q \o r, a, c, later)
<1>1. PICK m : Carries(q, m, a, b, due)
  BY DEF Carried
<1>2. PICK n : Carries(r, n, b, c, later)
  BY DEF Carried
<1> DEFINE all == q \o r
           shown == [i \in 0 .. Len(q) + Len(r) |->
                        IF i <= Len(q) THEN m[i] ELSE n[i - Len(q)]]
<1>3. /\ all \in Seq(Frames) /\ Len(all) = Len(q) + Len(r)
      /\ Len(q) \in Nat /\ Len(r) \in Nat
      /\ \A i \in 1 .. Len(q) : all[i] = q[i]
      /\ \A i \in 1 .. Len(r) : all[Len(q) + i] = r[i]
  BY Joined
<1>4. /\ \A i \in 0 .. Len(q) : m[i] \in Nat /\ m[i] <= b
      /\ \A i \in 0 .. Len(r) : n[i] \in Nat /\ b <= n[i]
      /\ m[0] = a /\ m[Len(q)] = b /\ n[0] = b /\ n[Len(r)] = c
  <2>1. \A i \in 0 .. Len(q) : m[i] \in Nat /\ m[i] <= m[Len(q)]
    BY <1>1, <1>3 DEF Carries
  <2>2. \A i \in 0 .. Len(r) : n[i] \in Nat /\ n[0] <= n[i]
    BY <1>2, <1>3 DEF Carries
  <2> QED BY <2>1, <2>2, <1>1, <1>2 DEF Carries
<1>5. shown \in [0 .. Len(all) -> Nat]
  <2> SUFFICES ASSUME NEW i \in 0 .. Len(q) + Len(r)
               PROVE  (IF i <= Len(q) THEN m[i] ELSE n[i - Len(q)]) \in Nat
    BY <1>3
  <2>1. CASE i <= Len(q)
    BY <2>1, <1>3, <1>4
  <2>2. CASE i > Len(q)
    <3>1. i - Len(q) \in 0 .. Len(r)
      BY <2>2, <1>3
    <3> QED BY <3>1, <2>2, <1>4
  <2> QED BY <2>1, <2>2, <1>3
<1>6. \A i \in 0 .. Len(q) : shown[i] = m[i]
  BY <1>3
<1>7. ASSUME NEW i \in 0 .. Len(r)
      PROVE  shown[Len(q) + i] = n[i]
  <2>1. Len(q) + i \in 0 .. Len(q) + Len(r) /\ (Len(q) + i) - Len(q) = i
    BY <1>3
  <2>2. CASE i = 0
    BY <2>1, <2>2, <1>3, <1>4
  <2>3. CASE i # 0
    <3>1. ~(Len(q) + i <= Len(q))
      BY <2>3, <1>3
    <3> QED BY <2>1, <3>1
  <2> QED BY <2>2, <2>3
<1> HIDE DEF all, shown
<1>8. shown[0] = a /\ shown[Len(all)] = c
  <2>1. shown[0] = m[0] /\ shown[Len(q) + Len(r)] = n[Len(r)]
    BY <1>3, <1>6, <1>7
  <2> QED BY <2>1, <1>3, <1>4
<1>9. ASSUME NEW i \in 1 .. Len(all)
      PROVE  /\ all[i][1] = "log" => /\ shown[i] = shown[i - 1] + 1
                                     /\ all[i] = <<"log", shown[i]>>
             /\ all[i][1] # "log" => shown[i] = shown[i - 1]
             /\ all[i][1] = "done" => later # -1 /\ shown[i] >= later
  <2>1. CASE i <= Len(q)
    <3>1. i \in 1 .. Len(q) /\ i \in 0 .. Len(q) /\ i - 1 \in 0 .. Len(q)
      BY <2>1, <1>3
    <3>2. all[i] = q[i] /\ shown[i] = m[i] /\ shown[i - 1] = m[i - 1]
      BY <3>1, <1>3, <1>6
    <3> QED BY <3>1, <3>2, <1>1 DEF Carries
  <2>2. CASE i > Len(q)
    <3> DEFINE j == i - Len(q)
    <3>1. /\ j \in 1 .. Len(r) /\ j \in 0 .. Len(r) /\ j - 1 \in 0 .. Len(r)
          /\ i = Len(q) + j /\ i - 1 = Len(q) + (j - 1)
      BY SMTT(20), <2>2, <1>3
    <3>2. all[i] = r[j] /\ shown[i] = n[j] /\ shown[i - 1] = n[j - 1]
      BY <3>1, <1>3, <1>7
    <3> HIDE DEF j
    <3> QED BY <3>1, <3>2, <1>2 DEF Carries
  <2> QED BY <2>1, <2>2, <1>3
<1>10. ASSUME NEW i \in 0 .. Len(all), NEW j \in 0 .. Len(all), i <= j
       PROVE  shown[i] <= shown[j]
  <2>1. CASE j <= Len(q)
    <3>1. i \in 0 .. Len(q) /\ j \in 0 .. Len(q)
      BY <2>1, <1>3, <1>10
    <3> QED BY <3>1, <1>1, <1>6, <1>10 DEF Carries
  <2>2. CASE i > Len(q)
    <3> DEFINE k == i - Len(q)
               l == j - Len(q)
    <3>1. /\ k \in 0 .. Len(r) /\ l \in 0 .. Len(r) /\ k <= l
          /\ i = Len(q) + k /\ j = Len(q) + l
      BY <2>2, <1>3, <1>10
    <3>2. shown[i] = n[k] /\ shown[j] = n[l]
      BY <3>1, <1>7
    <3> HIDE DEF k, l
    <3> QED BY <3>1, <3>2, <1>2 DEF Carries
  <2>3. CASE i <= Len(q) /\ j > Len(q)
    <3> DEFINE l == j - Len(q)
    <3>1. i \in 0 .. Len(q) /\ l \in 0 .. Len(r) /\ j = Len(q) + l
      BY <2>3, <1>3
    <3>2. shown[i] = m[i] /\ shown[j] = n[l]
      BY <3>1, <1>6, <1>7
    <3> HIDE DEF l
    <3> QED BY <3>1, <3>2, <1>4
  <2> QED BY <2>1, <2>2, <2>3, <1>3
<1>11. Carries(all, shown, a, c, later)
  BY <1>5, <1>8, <1>9, <1>10 DEF Carries
<1> QED BY <1>11 DEF Carried, all

\* What is sent first, and what is left.
LEMMA CarriedTail ==
    ASSUME NEW q \in Seq(Frames), q # <<>>, NEW a \in Nat, NEW b \in Nat,
           NEW due \in Int, Carried(q, a, b, due)
    PROVE  /\ Head(q)[1] = "log" => /\ Head(q)[2] = a + 1 /\ a + 1 <= b
                                    /\ Carried(Tail(q), a + 1, b, due)
           /\ Head(q)[1] # "log" => Carried(Tail(q), a, b, due)
           /\ Head(q)[1] = "done" => due # -1 /\ a >= due
<1>1. PICK m : Carries(q, m, a, b, due)
  BY DEF Carried
<1> DEFINE tail == Tail(q)
           shown == [i \in 0 .. Len(q) - 1 |-> m[i + 1]]
           first == IF q[1][1] = "log" THEN a + 1 ELSE a
<1>2. /\ Len(q) \in Nat \ {0} /\ Head(q) = q[1] /\ Len(tail) = Len(q) - 1
      /\ \A i \in 1 .. Len(q) - 1 : tail[i] = q[i + 1]
  BY HeadTailProperties, EmptySeq
<1>3. /\ \A i \in 0 .. Len(q) : m[i] \in Nat /\ a <= m[i] /\ m[i] <= b
      /\ m[0] = a /\ m[Len(q)] = b
  BY <1>1, <1>2 DEF Carries
<1>4. ASSUME NEW i \in 1 .. Len(q)
      PROVE  /\ q[i][1] = "log" => m[i] = m[i - 1] + 1 /\ q[i] = <<"log", m[i]>>
             /\ q[i][1] # "log" => m[i] = m[i - 1]
             /\ q[i][1] = "done" => due # -1 /\ m[i] >= due
             /\ i - 1 \in 0 .. Len(q) /\ i \in 0 .. Len(q)
  BY <1>1, <1>2 DEF Carries
<1>5. m[1] = first /\ 1 \in 1 .. Len(q)
  BY <1>2, <1>3, <1>4
<1>6. shown \in [0 .. Len(tail) -> Nat]
  BY <1>2, <1>3
<1>7. \A i \in 0 .. Len(tail) : shown[i] = m[i + 1]
  BY <1>2
<1> HIDE DEF first, shown, tail
<1>8. shown[0] = first /\ shown[Len(tail)] = b
  BY <1>2, <1>3, <1>5, <1>7
<1>9. ASSUME NEW i \in 1 .. Len(tail)
      PROVE  /\ tail[i][1] = "log" => /\ shown[i] = shown[i - 1] + 1
                                      /\ tail[i] = <<"log", shown[i]>>
             /\ tail[i][1] # "log" => shown[i] = shown[i - 1]
             /\ tail[i][1] = "done" => due # -1 /\ shown[i] >= due
  <2>1. /\ i + 1 \in 1 .. Len(q) /\ tail[i] = q[i + 1] /\ (i + 1) - 1 = i
        /\ shown[i] = m[i + 1] /\ shown[i - 1] = m[i]
    BY SMTT(20), <1>2, <1>7
  <2> QED BY <2>1, <1>4
<1>10. ASSUME NEW i \in 0 .. Len(tail), NEW j \in 0 .. Len(tail), i <= j
       PROVE  shown[i] <= shown[j]
  <2>1. i + 1 \in 0 .. Len(q) /\ j + 1 \in 0 .. Len(q) /\ i + 1 <= j + 1
    BY <1>2, <1>10
  <2> QED BY <2>1, <1>1, <1>7 DEF Carries
<1>11. Carries(tail, shown, first, b, due)
  BY <1>6, <1>8, <1>9, <1>10 DEF Carries
<1>12. Carried(tail, first, b, due)
  BY <1>11 DEF Carried
<1>13. ASSUME q[1][1] = "log"
       PROVE  q[1][2] = a + 1 /\ a + 1 <= b
  BY SMTT(20), <1>13, <1>3, <1>4, <1>5 DEF first
<1>14. ASSUME q[1][1] = "done"
       PROVE  due # -1 /\ a >= due
  BY <1>14, <1>3, <1>4, <1>5 DEF first
<1> QED BY <1>2, <1>12, <1>13, <1>14 DEF first, tail
-----------------------------------------------------------------------------
(* Tells                                                                    *)

LEMMA TellsStep ==
    ASSUME NEW s, NEW n, NEW st
    PROVE  Tells(<<StepFrame(n, st)>>, s, <<n, st>>)
  BY DEF Tells, StepFrame

LEMMA TellsNothing ==
    ASSUME NEW q, \A i \in 1 .. Len(q) : q[i][1] # "step", NEW s
    PROVE  Tells(q, s, s)
  BY DEF Tells

LEMMA TellsConcat ==
    ASSUME NEW q \in Seq(Frames), NEW r \in Seq(Frames), NEW s, NEW t, NEW u,
           Tells(q, s, t), Tells(r, t, u)
    PROVE  Tells(q \o r, s, u)
<1> DEFINE all == q \o r
<1>1. /\ all \in Seq(Frames) /\ Len(all) = Len(q) + Len(r)
      /\ Len(q) \in Nat /\ Len(r) \in Nat
      /\ \A i \in 1 .. Len(q) : all[i] = q[i]
      /\ \A i \in 1 .. Len(r) : all[Len(q) + i] = r[i]
  BY Joined
<1> HIDE DEF all
<1>2. \A i \in 1 .. Len(q) : i \in 1 .. Len(all)
  BY <1>1
<1>3. \A i \in 1 .. Len(r) : Len(q) + i \in 1 .. Len(all)
  BY <1>1
<1>4. \A i \in 1 .. Len(all) :
        i \in 1 .. Len(q) \/ (i - Len(q) \in 1 .. Len(r) /\ i = Len(q) + (i - Len(q)))
  BY <1>1
<1>5. ASSUME NEW i \in 1 .. Len(all), all[i][1] = "step",
             \A j \in i + 1 .. Len(all) : all[j][1] # "step"
      PROVE  all[i] = StepFrame(u[1], u[2])
  <2>1. CASE i \in 1 .. Len(q)
    <3>1. \A j \in 1 .. Len(r) : Len(q) + j \in i + 1 .. Len(all)
      BY <2>1, <1>1
    <3>2. \A j \in 1 .. Len(r) : r[j][1] # "step"
      BY <3>1, <1>1, <1>5
    <3>3. \A j \in i + 1 .. Len(q) : j \in 1 .. Len(q) /\ j \in i + 1 .. Len(all)
      BY <2>1, <1>1
    <3>4. \A j \in i + 1 .. Len(q) : q[j][1] # "step"
      BY <3>3, <1>1, <1>5
    <3>5. q[i] = StepFrame(t[1], t[2])
      BY <2>1, <3>4, <1>1, <1>5 DEF Tells
    <3>6. t = u
      BY <3>2 DEF Tells
    <3> QED BY <2>1, <3>5, <3>6, <1>1
  <2>2. CASE i - Len(q) \in 1 .. Len(r)
    <3> DEFINE k == i - Len(q)
    <3>1. i = Len(q) + k /\ all[i] = r[k]
      BY <2>2, <1>1
    <3>2. \A j \in k + 1 .. Len(r) : j \in 1 .. Len(r) /\ Len(q) + j \in i + 1 .. Len(all)
      BY <2>2, <1>1
    <3>3. \A j \in k + 1 .. Len(r) : r[j][1] # "step"
      BY <3>2, <1>1, <1>5
    <3> QED BY <2>2, <3>1, <3>3, <1>5 DEF Tells
  <2> QED BY <2>1, <2>2, <1>4
<1>6. ASSUME \A i \in 1 .. Len(all) : all[i][1] # "step"
      PROVE  s = u
  <2>1. \A i \in 1 .. Len(q) : q[i][1] # "step"
    BY <1>1, <1>2, <1>6
  <2>2. \A i \in 1 .. Len(r) : r[i][1] # "step"
    BY <1>1, <1>3, <1>6
  <2> QED BY <2>1, <2>2 DEF Tells
<1> QED BY <1>5, <1>6 DEF Tells, all

LEMMA TellsTail ==
    ASSUME NEW q \in Seq(Frames), q # <<>>, NEW s, NEW n, NEW st,
           Tells(q, s, <<n, st>>)
    PROVE  /\ Head(q)[1] = "step" =>
                Tells(Tail(q), <<Head(q)[2], Head(q)[3]>>, <<n, st>>)
           /\ Head(q)[1] # "step" => Tells(Tail(q), s, <<n, st>>)
<1> DEFINE tail == Tail(q)
<1>1. /\ Len(q) \in Nat \ {0} /\ Head(q) = q[1] /\ Len(tail) = Len(q) - 1
      /\ \A i \in 1 .. Len(q) - 1 : tail[i] = q[i + 1]
  BY HeadTailProperties, EmptySeq
<1> HIDE DEF tail
<1>2. ASSUME NEW i \in 1 .. Len(tail), tail[i][1] = "step",
             \A j \in i + 1 .. Len(tail) : tail[j][1] # "step"
      PROVE  tail[i] = StepFrame(n, st)
  <2>1. i + 1 \in 1 .. Len(q) /\ tail[i] = q[i + 1]
    BY <1>1
  <2>2. \A j \in (i + 1) + 1 .. Len(q) :
          j - 1 \in i + 1 .. Len(tail) /\ tail[j - 1] = q[j]
    BY <1>1
  <2>3. \A j \in (i + 1) + 1 .. Len(q) : q[j][1] # "step"
    BY <2>2, <1>2
  <2> QED BY <2>1, <2>3, <1>2 DEF Tells
<1>3. ASSUME \A i \in 1 .. Len(tail) : tail[i][1] # "step"
      PROVE  \A j \in 2 .. Len(q) : q[j][1] # "step"
  <2>1. \A j \in 2 .. Len(q) : j - 1 \in 1 .. Len(tail) /\ tail[j - 1] = q[j]
    BY <1>1
  <2> QED BY <2>1, <1>3
<1>4. ASSUME q[1][1] = "step", \A i \in 1 .. Len(tail) : tail[i][1] # "step"
      PROVE  <<q[1][2], q[1][3]>> = <<n, st>>
  <2>1. q[1] = StepFrame(n, st)
    BY <1>1, <1>3, <1>4 DEF Tells
  <2> QED BY <2>1 DEF StepFrame
<1>5. ASSUME q[1][1] # "step", \A i \in 1 .. Len(tail) : tail[i][1] # "step"
      PROVE  s = <<n, st>>
  <2>1. \A j \in 1 .. Len(q) : j = 1 \/ j \in 2 .. Len(q)
    BY <1>1
  <2> QED BY <2>1, <1>3, <1>5 DEF Tells
<1> QED BY <1>1, <1>2, <1>4, <1>5 DEF Tells, tail
-----------------------------------------------------------------------------
(* The inductive invariant                                                  *)

\* The first frame that is not a status is a line.
Opens(frames) ==
    \E j \in 1 .. Len(frames) :
        frames[j][1] = "log" /\ \A i \in 1 .. j - 1 : frames[i][1] = "step"

\* What waits for a viewer that was sent the lines sent and saw the status saying
\* last brings it to line last and status now, and to the end if the task is over.
\* Its first line may be a later one than 1 only if the ring buffer lost line 1.
Follows(frames, sent, saying, last, due, now) ==
    /\ \E from \in 0 .. last :
          /\ Carried(frames, from, last, due)
          /\ sent # <<>> => from = View!LastOf(sent)
          /\ sent = <<>> => from = 0 \/ (from + Cap <= last /\ Opens(frames))
    /\ Tells(frames, saying, now)
    /\ now[2] \in Terminal => \E i \in 1 .. Len(frames) : frames[i] = Done

Following(v) == Follows(queue[v], got[v], saw[v], lines, owed, <<step, status>>)

VerdictOnce ==
    /\ status \notin Terminal => lines <= MaxLines /\ owed = -1
    /\ status \in Terminal => owed # -1

IInv ==
    /\ TypeOK
    /\ VerdictOnce
    /\ \A v \in Viewers : at[v] = "away" => got[v] = <<>>
    /\ \A v \in subs : Following(v)

-----------------------------------------------------------------------------
(* Follows, when frames are broadcast, sent, or put into a new queue        *)

LEMMA OpensConcat ==
    ASSUME NEW q \in Seq(Frames), NEW r \in Seq(Frames), Opens(q)
    PROVE  Opens(q \o r)
<1> DEFINE all == q \o r
<1>1. /\ Len(all) = Len(q) + Len(r) /\ Len(q) \in Nat /\ Len(r) \in Nat
      /\ \A i \in 1 .. Len(q) : all[i] = q[i] /\ i \in 1 .. Len(all)
  BY Joined
<1> HIDE DEF all
<1>2. PICK j \in 1 .. Len(q) : q[j][1] = "log" /\ \A i \in 1 .. j - 1 : q[i][1] = "step"
  BY DEF Opens
<1>3. \A i \in 1 .. j - 1 : i \in 1 .. Len(q)
  BY <1>1
<1>4. all[j][1] = "log" /\ \A i \in 1 .. j - 1 : all[i][1] = "step"
  BY <1>1, <1>2, <1>3
<1> QED BY <1>1, <1>4 DEF Opens, all

LEMMA FollowsMore ==
    ASSUME NEW q \in Seq(Frames), NEW r \in Seq(Frames), NEW sent, NEW saying,
           NEW n \in Nat, NEW m \in Nat, n <= m,
           NEW due \in Int, NEW later \in Int, due = later \/ due = -1,
           NEW now, NEW new,
           Follows(q, sent, saying, n, due, now),
           Carried(r, n, m, later), Tells(r, now, new),
           new[2] \in Terminal =>
               now[2] \in Terminal \/ \E i \in 1 .. Len(r) : r[i] = Done
    PROVE  Follows(q \o r, sent, saying, m, later, new)
<1> DEFINE all == q \o r
<1>1. /\ all \in Seq(Frames) /\ Len(all) = Len(q) + Len(r)
      /\ Len(q) \in Nat /\ Len(r) \in Nat
      /\ \A i \in 1 .. Len(q) : all[i] = q[i] /\ i \in 1 .. Len(all)
      /\ \A i \in 1 .. Len(r) : all[Len(q) + i] = r[i] /\ Len(q) + i \in 1 .. Len(all)
  BY Joined
<1> HIDE DEF all
<1>2. PICK from \in 0 .. n :
          /\ Carried(q, from, n, due)
          /\ sent # <<>> => from = View!LastOf(sent)
          /\ sent = <<>> => from = 0 \/ (from + Cap <= n /\ Opens(q))
  BY DEF Follows
<1>3. Carried(all, from, m, later) /\ from \in 0 .. m
  BY <1>2, CarriedConcat DEF all
<1>4. Opens(q) => Opens(all)
  BY OpensConcat DEF all
<1>5. from + Cap <= n => from + Cap <= m
  BY <1>2, LogAssumption
<1>6. Tells(all, saying, new)
  BY TellsConcat DEF Follows, all
<1>7. new[2] \in Terminal => \E i \in 1 .. Len(all) : all[i] = Done
  BY <1>1 DEF Follows
<1> QED BY <1>2, <1>3, <1>4, <1>5, <1>6, <1>7 DEF Follows, all

LEMMA FollowsLess ==
    ASSUME NEW q \in Seq(Frames), q # <<>>, NEW sent \in Seq(Nat), NEW saying,
           NEW n \in Nat, NEW due \in Int, NEW a, NEW st,
           Follows(q, sent, saying, n, due, <<a, st>>)
    PROVE  /\ Head(q)[1] = "log" =>
                /\ Follows(Tail(q), Append(sent, Head(q)[2]), saying, n, due, <<a, st>>)
                /\ Head(q)[2] \in 1 .. n
                /\ sent # <<>> => Head(q)[2] = View!LastOf(sent) + 1
                /\ sent = <<>> => Head(q)[2] = 1 \/ Head(q)[2] + Cap <= n + 1
           /\ Head(q)[1] = "step" =>
                Follows(Tail(q), sent, <<Head(q)[2], Head(q)[3]>>, n, due, <<a, st>>)
           /\ Head(q)[1] = "done" => due # -1 /\ View!LastOf(sent) >= due
<1> DEFINE tail == Tail(q)
           head == Head(q)
<1>1. /\ Len(q) \in Nat \ {0} /\ head = q[1] /\ Len(tail) = Len(q) - 1
      /\ \A i \in 1 .. Len(q) - 1 : tail[i] = q[i + 1]
      /\ tail \in Seq(Frames) /\ head \in Frames
  BY HeadTailProperties, EmptySeq
<1> HIDE DEF tail, head
<1>2. PICK from \in 0 .. n :
          /\ Carried(q, from, n, due)
          /\ sent # <<>> => from = View!LastOf(sent)
          /\ sent = <<>> => from = 0 \/ (from + Cap <= n /\ Opens(q))
  BY DEF Follows
<1>3. /\ head[1] = "log" => /\ head[2] = from + 1 /\ from + 1 <= n
                            /\ Carried(tail, from + 1, n, due)
      /\ head[1] # "log" => Carried(tail, from, n, due)
      /\ head[1] = "done" => due # -1 /\ from >= due
  BY <1>2, CarriedTail DEF head, tail
<1>4. /\ head[1] = "step" => Tells(tail, <<head[2], head[3]>>, <<a, st>>)
      /\ head[1] # "step" => Tells(tail, saying, <<a, st>>)
  BY TellsTail DEF Follows, head, tail
<1>5. ASSUME head # Done, st \in Terminal
      PROVE  \E i \in 1 .. Len(tail) : tail[i] = Done
  <2>1. PICK i \in 1 .. Len(q) : q[i] = Done
    BY <1>5 DEF Follows
  <2>2. i - 1 \in 1 .. Len(tail) /\ tail[i - 1] = q[i]
    BY <2>1, <1>1, <1>5
  <2> QED BY <2>1, <2>2
<1>6. CASE head[1] = "log"
  <2>1. head # Done /\ head[1] # "step" /\ head[1] # "done"
    BY <1>6 DEF Done
  <2>2. from + 1 \in 0 .. n /\ from + 1 \in Nat
    BY <1>2, <1>3, <1>6
  <2> DEFINE more == Append(sent, head[2])
  <2>3. /\ Len(more) = Len(sent) + 1 /\ more[Len(sent) + 1] = from + 1
        /\ more # <<>>
    <3>1. head[2] = from + 1 /\ head[2] \in Nat
      BY <1>3, <1>6, <2>2
    <3> QED BY <3>1, AppendProperties
  <2> HIDE DEF more
  <2>4. View!LastOf(more) = from + 1
    BY <2>3 DEF View!LastOf
  <2>5. Follows(tail, more, saying, n, due, <<a, st>>)
    BY <1>3, <1>4, <1>5, <1>6, <2>1, <2>2, <2>3, <2>4 DEF Follows
  <2>6. /\ head[2] \in 1 .. n
        /\ sent # <<>> => head[2] = View!LastOf(sent) + 1
        /\ sent = <<>> => head[2] = 1 \/ head[2] + Cap <= n + 1
    BY SMTT(20), <1>2, <1>3, <1>6, LogAssumption
  <2> QED BY <1>6, <2>1, <2>5, <2>6 DEF more, head, tail
<1>7. CASE head[1] = "step"
  <2>1. head # Done /\ head[1] # "log" /\ head[1] # "done"
    BY <1>7 DEF Done
  <2>2. ASSUME Opens(q)
        PROVE  Opens(tail)
    <3>1. PICK j \in 1 .. Len(q) :
              q[j][1] = "log" /\ \A i \in 1 .. j - 1 : q[i][1] = "step"
      BY <2>2 DEF Opens
    <3>2. j # 1
      BY <3>1, <1>1, <1>7
    <3>3. j - 1 \in 1 .. Len(tail) /\ tail[j - 1] = q[j]
      BY <3>1, <3>2, <1>1
    <3>4. \A i \in 1 .. (j - 1) - 1 : i + 1 \in 1 .. j - 1 /\ tail[i] = q[i + 1]
      BY <3>1, <1>1
    <3>5. \A i \in 1 .. (j - 1) - 1 : tail[i][1] = "step"
      BY <3>1, <3>4
    <3> QED BY <3>1, <3>3, <3>5 DEF Opens
  <2>3. Follows(tail, sent, <<head[2], head[3]>>, n, due, <<a, st>>)
    BY <1>2, <1>3, <1>4, <1>5, <1>7, <2>1, <2>2 DEF Follows
  <2> QED BY <1>7, <2>1, <2>3 DEF head, tail
<1>8. CASE head[1] = "done"
  <2>1. ~Opens(q)
    <3> SUFFICES ASSUME Opens(q) PROVE FALSE
      OBVIOUS
    <3>1. PICK j \in 1 .. Len(q) :
              q[j][1] = "log" /\ \A i \in 1 .. j - 1 : q[i][1] = "step"
      BY DEF Opens
    <3>2. j = 1 \/ 1 \in 1 .. j - 1
      BY <3>1
    <3>3. q[1][1] = "log" \/ q[1][1] = "step"
      BY <3>1, <3>2
    <3> QED BY <3>3, <1>1, <1>8
  <2>2. sent = <<>> => from = 0 /\ View!LastOf(sent) = 0
    BY <2>1, <1>2 DEF View!LastOf
  <2>3. View!LastOf(sent) = from
    BY <2>2, <1>2
  <2> QED BY <1>3, <1>8, <2>3 DEF head
<1> QED BY <1>1, <1>6, <1>7, <1>8, FrameKinds DEF head

LEMMA FollowsReplay ==
    ASSUME TypeOK, VerdictOnce, NEW saying
    PROVE  /\ Replay \in Seq(Frames)
           /\ Follows(Replay, <<>>, saying, lines, owed, <<step, status>>)
<1> DEFINE s == <<StepFrame(step, status)>>
           l == LogFrames(Oldest, lines)
           d == IF status \in Terminal THEN <<Done>> ELSE <<>>
           from == Oldest - 1
           now == <<step, status>>
<1>1. from \in Nat /\ from <= lines /\ Oldest = from + 1 /\ lines \in Nat /\ owed \in Int
      /\ lines \in from .. MaxLines + 1
  BY LogAssumption DEF TypeOK, Oldest
<1>2. from = 0 \/ (from + Cap <= lines /\ from < lines)
  BY LogAssumption DEF TypeOK, Oldest
<1> HIDE DEF from
<1>3. StepFrame(step, status) \in Frames /\ s \in Seq(Frames) /\ d \in Seq(Frames)
  BY FramesTyped DEF TypeOK
<1>4. /\ l \in Seq(Frames) /\ Len(l) = lines - from
      /\ \A i \in 1 .. lines - from : l[i] = <<"log", from + i>>
  BY <1>1, LogFramesAre
<1>5. Carried(s, from, from, owed)
  BY <1>1, <1>3, CarriedOther DEF StepFrame, Done
<1>6. Carried(l, from, lines, owed)
  BY <1>1, CarriedLog
<1>7. Carried(d, lines, lines, owed)
  <2>1. CASE status \in Terminal
    <3>1. owed \in 0 .. lines
      BY <2>1 DEF TypeOK, VerdictOnce
    <3> QED BY <2>1, <3>1, <1>1, FramesTyped, CarriedOther DEF Done
  <2>2. CASE status \notin Terminal
    <3>1. Carries(<<>>, [i \in 0 .. 0 |-> lines], lines, lines, owed)
      BY <1>1 DEF Carries
    <3> QED BY <2>2, <3>1 DEF Carried
  <2> QED BY <2>1, <2>2
<1>8. Tells(s, saying, now) /\ Tells(l, now, now) /\ Tells(d, now, now)
  <2>1. Tells(s, saying, now)
    BY TellsStep
  <2>2. \A i \in 1 .. Len(l) : l[i][1] # "step"
    BY <1>4
  <2>3. \A i \in 1 .. Len(d) : d[i][1] # "step"
    BY DEF Done
  <2> HIDE DEF s, l, d, now
  <2> QED BY <2>1, <2>2, <2>3, TellsNothing
<1>9. Opens(s \o l) \/ from = 0
  <2>1. SUFFICES ASSUME from # 0 PROVE Opens(s \o l)
    OBVIOUS
  <2>2. Len(s) = 1 /\ s[1] = StepFrame(step, status)
    OBVIOUS
  <2>3. 1 \in 1 .. Len(l) /\ l[1] = <<"log", from + 1>>
    BY <2>1, <1>1, <1>2, <1>4
  <2> HIDE DEF s, l
  <2> DEFINE sl == s \o l
  <2>4. /\ Len(sl) = Len(s) + Len(l)
        /\ \A i \in 1 .. Len(s) : sl[i] = s[i]
        /\ \A i \in 1 .. Len(l) : sl[Len(s) + i] = l[i]
    BY <1>3, <1>4, Joined
  <2> HIDE DEF sl
  <2>5. 2 \in 1 .. Len(sl) /\ sl[1] = s[1] /\ sl[2] = l[1]
    BY <2>2, <2>3, <2>4
  <2>6. sl[2][1] = "log" /\ \A i \in 1 .. 2 - 1 : sl[i][1] = "step"
    BY <2>2, <2>3, <2>5 DEF StepFrame
  <2> QED BY <2>5, <2>6 DEF Opens, sl
<1> DEFINE sl == s \o l
<1>10. sl \in Seq(Frames)
  BY <1>3, <1>4, Joined
<1>11. Carried(sl, from, lines, owed)
  <2> HIDE DEF s, l
  <2> QED BY <1>1, <1>3, <1>4, <1>5, <1>6, CarriedConcat
<1>12. Tells(sl, saying, now)
  <2> HIDE DEF s, l, now
  <2> QED BY <1>3, <1>4, <1>8, TellsConcat
<1> HIDE DEF sl
<1>13. sl \o d \in Seq(Frames) /\ Carried(sl \o d, from, lines, owed)
  <2> HIDE DEF d
  <2>1. sl \o d \in Seq(Frames)
    BY <1>3, <1>10, Joined
  <2> QED BY <2>1, <1>1, <1>3, <1>7, <1>10, <1>11, CarriedConcat
<1>14. Tells(sl \o d, saying, now)
  <2> HIDE DEF d, now
  <2> QED BY <1>3, <1>8, <1>10, <1>12, TellsConcat
<1>15. from = 0 \/ (from + Cap <= lines /\ Opens(sl \o d))
  <2> HIDE DEF d
  <2> QED BY <1>2, <1>3, <1>9, <1>10, OpensConcat DEF sl
<1>16. ASSUME status \in Terminal
       PROVE  \E i \in 1 .. Len(sl \o d) : (sl \o d)[i] = Done
  <2>1. d = <<Done>> /\ Len(d) = 1 /\ d[1] = Done
    BY <1>16
  <2> HIDE DEF d
  <2> DEFINE all == sl \o d
  <2>2. /\ Len(all) = Len(sl) + Len(d) /\ Len(sl) \in Nat
        /\ \A i \in 1 .. Len(d) : all[Len(sl) + i] = d[i]
    BY <1>3, <1>10, Joined
  <2> HIDE DEF all
  <2>3. Len(sl) + 1 \in 1 .. Len(all) /\ all[Len(sl) + 1] = Done
    BY <2>1, <2>2
  <2> QED BY <2>3 DEF all
<1>17. Replay = sl \o d
  BY DEF Replay, sl
<1> HIDE DEF d
<1>18. from \in 0 .. lines
  BY <1>1
<1> QED BY <1>13, <1>14, <1>15, <1>16, <1>17, <1>18 DEF Follows

-----------------------------------------------------------------------------
(* The invariant is inductive                                               *)

LEMMA InitInv == Init => IInv
<1> SUFFICES ASSUME Init PROVE IInv
  OBVIOUS
<1>1. /\ lines = 0 /\ step = 0 /\ status = "pending" /\ owed = -1 /\ subs = {}
      /\ \A v \in Viewers : queue[v] = <<>> /\ at[v] = "away" /\ got[v] = <<>>
  BY DEF Init
<1>2. /\ queue \in [Viewers -> Seq(Frames)]
      /\ got \in [Viewers -> Seq(1 .. MaxLines + 1)]
      /\ at \in [Viewers -> {"away", "watching", "ended", "left"}]
      /\ saw \in [Viewers -> (0 .. MaxSteps)
                             \X ({"none", "pending", "running"} \cup Terminal)]
  BY LogAssumption DEF Init
<1>3. TypeOK
  BY <1>1, <1>2, LogAssumption DEF TypeOK
<1> QED BY <1>1, <1>3, LogAssumption DEF IInv, VerdictOnce, Terminal

\* What is broadcast by a step that takes the task from one status to the next.
LEMMA BroadcastInv ==
    ASSUME IInv, NEW r \in Seq(Frames), Broadcast(r),
           UNCHANGED <<subs, at, got, saw>>,
           lines' \in lines .. MaxLines + 1, step' \in 0 .. MaxSteps,
           status' \in {"pending", "running"} \cup Terminal,
           owed' \in -1 .. lines', owed' = owed \/ owed = -1, VerdictOnce',
           Carried(r, lines, lines', owed'),
           Tells(r, <<step, status>>, <<step', status'>>),
           status' \in Terminal =>
               status \in Terminal \/ \E i \in 1 .. Len(r) : r[i] = Done
    PROVE  IInv'
<1>1. lines \in Nat /\ lines' \in Nat /\ lines <= lines' /\ owed \in Int /\ owed' \in Int
  BY LogAssumption DEF IInv, TypeOK
<1>2. \A v \in Viewers : queue[v] \in Seq(Frames)
  BY DEF IInv, TypeOK
<1>3. \A v \in Viewers : queue'[v] = IF v \in subs THEN queue[v] \o r ELSE queue[v]
  BY DEF Broadcast
<1>4. TypeOK'
  <2>1. queue' \in [Viewers -> Seq(Frames)]
    BY <1>2, Joined DEF Broadcast
  <2>2. /\ lines' \in 0 .. MaxLines + 1
        /\ subs' = {v \in Viewers : at'[v] = "watching"}
        /\ \A v \in Viewers \ subs' : queue'[v] = <<>>
    BY <1>1, <1>3, LogAssumption DEF IInv, TypeOK
  <2>3. /\ at' \in [Viewers -> {"away", "watching", "ended", "left"}]
        /\ got' \in [Viewers -> Seq(1 .. MaxLines + 1)]
        /\ saw' \in [Viewers -> (0 .. MaxSteps)
                             \X ({"none", "pending", "running"} \cup Terminal)]
    BY DEF IInv, TypeOK
  <2> QED BY <2>1, <2>2, <2>3 DEF TypeOK
<1>5. ASSUME NEW v \in subs'
      PROVE  Following(v)'
  <2>1. v \in subs /\ v \in Viewers /\ queue'[v] = queue[v] \o r
    BY <1>3 DEF IInv, TypeOK
  <2>2. Follows(queue[v], got[v], saw[v], lines, owed, <<step, status>>)
    BY <2>1 DEF IInv, Following
  <2>3. <<step, status>>[2] = status /\ <<step', status'>>[2] = status'
    OBVIOUS
  <2>4. Follows(queue[v] \o r, got[v], saw[v], lines', owed', <<step', status'>>)
    BY <1>1, <1>2, <2>1, <2>2, <2>3, FollowsMore
  <2> QED BY <2>1, <2>4 DEF Following
<1> QED BY <1>4, <1>5 DEF IInv

LEMMA AddLogInv == IInv /\ AddLog => IInv'
<1> SUFFICES ASSUME IInv, AddLog PROVE IInv'
  OBVIOUS
<1> DEFINE r == LogFrames(lines + 1, lines + 1)
<1>1. lines \in Nat /\ lines + 1 \in lines .. MaxLines /\ owed = -1 /\ owed' = -1
      /\ lines' = lines + 1
  BY LogAssumption DEF IInv, TypeOK, AddLog, VerdictOnce
<1>2. r \in Seq(Frames) /\ Len(r) = 1 /\ r[1] = <<"log", lines + 1>>
  <2>1. lines + 1 \in lines .. MaxLines + 1 /\ (lines + 1) - lines = 1
    BY <1>1, LogAssumption
  <2>2. /\ r \in Seq(Frames) /\ Len(r) = (lines + 1) - lines
        /\ \A i \in 1 .. (lines + 1) - lines : r[i] = <<"log", lines + i>>
    BY <1>1, <2>1, LogFramesAre
  <2> HIDE DEF r
  <2> QED BY <2>1, <2>2
<1>3. Carried(r, lines, lines', owed')
  <2>1. lines + 1 \in lines .. MaxLines + 1
    BY <1>1, LogAssumption
  <2> QED BY <1>1, <2>1, CarriedLog
<1> HIDE DEF r
<1>4. Tells(r, <<step, status>>, <<step', status'>>)
  BY <1>2, TellsNothing DEF AddLog
<1>5. VerdictOnce'
  BY <1>1 DEF AddLog, IInv, VerdictOnce
<1>6. Broadcast(r) /\ UNCHANGED <<step, status, subs, at, got, saw>>
  BY DEF AddLog, view, r
<1>7. /\ lines' \in lines .. MaxLines + 1 /\ owed' \in -1 .. lines' /\ owed' = owed
      /\ step' \in 0 .. MaxSteps /\ status' \in {"pending", "running"} \cup Terminal
  BY <1>1, <1>6, LogAssumption DEF IInv, TypeOK
<1> QED BY <1>2, <1>3, <1>4, <1>5, <1>6, <1>7, BroadcastInv

LEMMA SetStepInv == ASSUME NEW s \in 1 .. MaxSteps PROVE IInv /\ SetStep(s) => IInv'
<1> SUFFICES ASSUME IInv, SetStep(s) PROVE IInv'
  OBVIOUS
<1> DEFINE r == <<StepFrame(s, "running")>>
<1>1. /\ lines \in Nat /\ owed = -1 /\ owed' = -1 /\ lines' = lines /\ lines \in lines .. MaxLines
      /\ s \in 0 .. MaxSteps /\ step' = s /\ status' = "running"
  BY LogAssumption DEF IInv, TypeOK, SetStep, VerdictOnce
<1>2. r \in Seq(Frames) /\ Carried(r, lines, lines', owed')
  BY <1>1, FramesTyped, CarriedOther DEF StepFrame, Done
<1>3. Tells(r, <<step, status>>, <<step', status'>>)
  BY <1>1, TellsStep
<1>4. VerdictOnce' /\ status' \notin Terminal
  BY <1>1 DEF VerdictOnce, Terminal
<1> HIDE DEF r
<1>5. Broadcast(r) /\ UNCHANGED <<subs, at, got, saw>>
  BY DEF SetStep, view, r
<1>6. lines' \in lines .. MaxLines + 1 /\ owed' \in -1 .. lines' /\ owed' = owed
  BY <1>1, LogAssumption
<1> QED BY <1>1, <1>2, <1>3, <1>4, <1>5, <1>6, BroadcastInv

LEMMA FinishInv ==
    ASSUME NEW verdict \in Terminal, NEW before \in {0, 1}, NEW after \in {0, 1},
           before + after <= 1, IInv, Finish(verdict, before, after)
    PROVE  IInv'
<1> DEFINE p == LogFrames(lines + 1, lines + before)
           d == <<StepFrame(step, verdict), Done>>
           r == LogFrames(lines + before + 1, lines + before + after)
           t == lines + before
           now == <<step, status>>
           new == <<step, verdict>>
<1>1. /\ lines \in Nat /\ lines <= MaxLines /\ owed = -1 /\ owed' = t
      /\ lines' = t + after /\ step' = step /\ status' = verdict
      /\ t \in Nat /\ t \in lines .. MaxLines + 1 /\ lines' \in t .. MaxLines + 1
      /\ lines' \in Nat
  BY SMTT(20), LogAssumption DEF IInv, TypeOK, Finish, VerdictOnce
<1>2. /\ p \in Seq(Frames) /\ \A i \in 1 .. Len(p) : p[i][1] = "log"
      /\ Carried(p, lines, t, -1)
  <2>1. p = LogFrames(lines + 1, t) /\ -1 \in Int
    OBVIOUS
  <2> HIDE DEF t, p
  <2>2. p \in Seq(Frames) /\ \A i \in 1 .. Len(p) : p[i][1] = "log"
    BY <1>1, <2>1, LogFramesAre
  <2>3. Carried(p, lines, t, -1)
    BY <1>1, <2>1, CarriedLog
  <2> QED BY <2>2, <2>3
<1>3. /\ r \in Seq(Frames) /\ \A i \in 1 .. Len(r) : r[i][1] = "log"
      /\ Carried(r, t, lines', t)
  <2>1. r = LogFrames(t + 1, lines')
    BY <1>1
  <2> HIDE DEF r, t
  <2>2. r \in Seq(Frames) /\ \A i \in 1 .. Len(r) : r[i][1] = "log"
    BY <1>1, <2>1, LogFramesAre
  <2>3. Carried(r, t, lines', t)
    BY <1>1, <2>1, CarriedLog
  <2> QED BY <2>2, <2>3
<1>4. /\ d \in Seq(Frames) /\ Len(d) = 2 /\ d[2] = Done
      /\ Carried(d, t, t, t) /\ Tells(d, now, new)
  <2>1. StepFrame(step, verdict) \in Frames /\ Done \in Frames
    BY FramesTyped DEF IInv, TypeOK
  <2>2. d \in Seq(Frames) /\ Len(d) = 2 /\ d[1] = StepFrame(step, verdict) /\ d[2] = Done
    BY <2>1
  <2>3. Carries(d, [i \in 0 .. 2 |-> t], t, t, t)
    BY <1>1, <2>2 DEF Carries, StepFrame, Done
  <2>4. Tells(d, now, new)
    BY <2>2 DEF Tells, StepFrame, Done
  <2> QED BY <2>2, <2>3, <2>4 DEF Carried
<1> DEFINE pd == p \o d
           all == pd \o r
<1> HIDE DEF p, d, r, t, now, new
<1>5. pd \in Seq(Frames) /\ Carried(pd, lines, t, t)
  BY <1>1, <1>2, <1>4, CarriedConcat, Joined
<1>6. Tells(pd, now, new)
  <2>1. Tells(p, now, now)
    BY <1>2, TellsNothing
  <2> QED BY <2>1, <1>2, <1>4, TellsConcat
<1>7. \E i \in 1 .. Len(pd) : pd[i] = Done
  <2>1. /\ Len(pd) = Len(p) + Len(d) /\ Len(p) \in Nat
        /\ \A i \in 1 .. Len(d) : pd[Len(p) + i] = d[i]
    BY <1>2, <1>4, Joined
  <2> HIDE DEF pd
  <2>2. Len(p) + 2 \in 1 .. Len(pd) /\ pd[Len(p) + 2] = Done
    BY <2>1, <1>4
  <2> QED BY <2>2
<1> HIDE DEF pd
<1>8. all \in Seq(Frames) /\ Carried(all, lines, lines', t)
  <2>1. all \in Seq(Frames)
    BY <1>3, <1>5, Joined
  <2>2. lines <= t /\ t <= lines' /\ t \in Int
    BY <1>1
  <2> QED BY <2>1, <2>2, <1>1, <1>3, <1>5, CarriedConcat
<1>9. Tells(all, now, new)
  <2>1. Tells(r, new, new)
    BY <1>3, TellsNothing
  <2> QED BY <2>1, <1>3, <1>5, <1>6, TellsConcat
<1>10. \E i \in 1 .. Len(all) : all[i] = Done
  <2>1. /\ Len(all) = Len(pd) + Len(r) /\ Len(pd) \in Nat /\ Len(r) \in Nat
        /\ \A i \in 1 .. Len(pd) : all[i] = pd[i]
    BY <1>3, <1>5, Joined
  <2> HIDE DEF all
  <2> QED BY <2>1, <1>7
<1>11. Broadcast(all)
  BY DEF Finish, all, pd, p, d, r
<1>12. VerdictOnce'
  BY <1>1 DEF VerdictOnce
<1> HIDE DEF all
<1>13. /\ owed' \in -1 .. lines' /\ lines' \in lines .. MaxLines + 1 /\ owed' = t
  BY <1>1, LogAssumption
<1>14. /\ step' \in 0 .. MaxSteps /\ status' \in {"pending", "running"} \cup Terminal
       /\ UNCHANGED <<subs, at, got, saw>>
  BY <1>1 DEF Finish, view, IInv, TypeOK
<1>15. Tells(all, <<step, status>>, <<step', status'>>)
  BY <1>1, <1>9 DEF now, new
<1> QED
  BY <1>1, <1>8, <1>10, <1>11, <1>12, <1>13, <1>14, <1>15, BroadcastInv

LEMMA ConnectInv == ASSUME NEW v \in Viewers PROVE IInv /\ Connect(v) => IInv'
<1> SUFFICES ASSUME IInv, Connect(v) PROVE IInv'
  OBVIOUS
<1>1. Replay \in Seq(Frames) /\ Follows(Replay, <<>>, saw[v], lines, owed, <<step, status>>)
  BY FollowsReplay DEF IInv
<1>2. /\ UNCHANGED <<lines, step, status, owed, got, saw>>
      /\ got[v] = <<>> /\ v \notin subs /\ subs' = subs \cup {v}
      /\ queue'[v] = Replay /\ \A w \in Viewers \ {v} : queue'[w] = queue[w]
      /\ at'[v] = "watching" /\ \A w \in Viewers \ {v} : at'[w] = at[w]
  BY DEF Connect, task, IInv, TypeOK
<1>3. TypeOK'
  <2>1. /\ queue' \in [Viewers -> Seq(Frames)]
        /\ at' \in [Viewers -> {"away", "watching", "ended", "left"}]
    BY <1>1 DEF Connect, IInv, TypeOK
  <2>2. subs' = {w \in Viewers : at'[w] = "watching"}
    BY <1>2 DEF IInv, TypeOK
  <2>3. \A w \in Viewers \ subs' : queue'[w] = <<>>
    BY <1>2 DEF IInv, TypeOK
  <2> QED BY <1>2, <2>1, <2>2, <2>3 DEF IInv, TypeOK
<1>4. VerdictOnce' /\ \A w \in Viewers : at'[w] = "away" => got'[w] = <<>>
  BY <1>2 DEF IInv, VerdictOnce
<1>5. ASSUME NEW w \in subs'
      PROVE  Following(w)'
  <2>1. CASE w = v
    BY <2>1, <1>1, <1>2 DEF Following
  <2>2. CASE w # v
    <3>1. w \in subs /\ w \in Viewers /\ queue'[w] = queue[w]
      BY <2>2, <1>2 DEF IInv, TypeOK
    <3>2. Following(w)
      BY <3>1 DEF IInv
    <3> QED BY <3>1, <3>2, <1>2 DEF Following
  <2> QED BY <2>1, <2>2
<1> QED BY <1>3, <1>4, <1>5 DEF IInv

\* A handler whose queue goes: its frames no longer count.
LEMMA GoneInv ==
    ASSUME IInv, NEW v \in Viewers, Unsubscribe(v), UNCHANGED <<task, got>>,
           NEW how \in {"ended", "left"}, at' = [at EXCEPT ![v] = how],
           saw' \in [Viewers -> (0 .. MaxSteps)
                             \X ({"none", "pending", "running"} \cup Terminal)],
           \A w \in Viewers \ {v} : saw'[w] = saw[w]
    PROVE  IInv'
<1>1. /\ UNCHANGED <<lines, step, status, owed, got>> /\ subs' = subs \ {v}
      /\ queue'[v] = <<>> /\ \A w \in Viewers \ {v} : queue'[w] = queue[w]
      /\ at'[v] = how /\ \A w \in Viewers \ {v} : at'[w] = at[w]
  BY DEF Unsubscribe, task, IInv, TypeOK
<1>2. TypeOK'
  <2>1. /\ queue' \in [Viewers -> Seq(Frames)]
        /\ at' \in [Viewers -> {"away", "watching", "ended", "left"}]
    BY DEF Unsubscribe, IInv, TypeOK
  <2>2. subs' = {w \in Viewers : at'[w] = "watching"}
    BY <1>1 DEF IInv, TypeOK
  <2>3. \A w \in Viewers \ subs' : queue'[w] = <<>>
    BY <1>1 DEF IInv, TypeOK
  <2> QED BY <1>1, <2>1, <2>2, <2>3 DEF IInv, TypeOK
<1>3. VerdictOnce' /\ \A w \in Viewers : at'[w] = "away" => got'[w] = <<>>
  BY <1>1 DEF IInv, VerdictOnce
<1>4. ASSUME NEW w \in subs'
      PROVE  Following(w)'
  <2>1. w \in subs /\ w \in Viewers /\ queue'[w] = queue[w] /\ saw'[w] = saw[w]
    BY <1>1 DEF IInv, TypeOK
  <2>2. Following(w)
    BY <2>1 DEF IInv
  <2> QED BY <2>1, <2>2, <1>1 DEF Following
<1> QED BY <1>2, <1>3, <1>4 DEF IInv

LEMMA DisconnectInv == ASSUME NEW v \in Viewers PROVE IInv /\ Disconnect(v) => IInv'
  BY GoneInv DEF Disconnect, IInv, TypeOK

\* What a handler knows of the frame it sends next.
LEMMA NextFrame ==
    ASSUME IInv, NEW v \in Viewers, at[v] = "watching", queue[v] # <<>>
    PROVE  LET f == Head(queue[v]) IN
           /\ v \in subs /\ f \in Frames /\ Tail(queue[v]) \in Seq(Frames)
           /\ f[1] = "log" =>
                /\ Follows(Tail(queue[v]), Append(got[v], f[2]), saw[v], lines, owed,
                           <<step, status>>)
                /\ f[2] \in 1 .. lines
                /\ got[v] # <<>> => f[2] = View!LastOf(got[v]) + 1
                /\ got[v] = <<>> => f[2] = 1 \/ f[2] + Cap <= lines + 1
           /\ f[1] = "step" =>
                Follows(Tail(queue[v]), got[v], <<f[2], f[3]>>, lines, owed,
                        <<step, status>>)
           /\ f[1] = "done" => owed # -1 /\ View!LastOf(got[v]) >= owed
<1>1. v \in subs /\ queue[v] \in Seq(Frames) /\ Following(v)
  BY DEF IInv, TypeOK
<1>2. got[v] \in Seq(Nat)
  <2>1. got[v] \in Seq(1 .. MaxLines + 1) /\ 1 .. MaxLines + 1 \subseteq Nat
    BY LogAssumption DEF IInv, TypeOK
  <2>2. Len(got[v]) \in Nat /\ got[v] \in [1 .. Len(got[v]) -> 1 .. MaxLines + 1]
    BY <2>1, LenProperties
  <2>3. got[v] \in [1 .. Len(got[v]) -> Nat]
    BY <2>1, <2>2
  <2> QED BY <2>2, <2>3
<1>3. lines \in Nat /\ owed \in Int
  BY LogAssumption DEF IInv, TypeOK
<1>4. Head(queue[v]) \in Frames /\ Tail(queue[v]) \in Seq(Frames)
  BY <1>1, HeadTailProperties
<1> QED BY <1>1, <1>2, <1>3, <1>4, FollowsLess DEF Following

LEMMA SendInv == ASSUME NEW v \in Viewers PROVE IInv /\ Send(v) => IInv'
<1> SUFFICES ASSUME IInv, Send(v) PROVE IInv'
  OBVIOUS
<1> DEFINE f == Head(queue[v])
<1>1. at[v] = "watching" /\ queue[v] # <<>> /\ UNCHANGED <<lines, step, status, owed>>
  BY DEF Send, task
<1>2. /\ v \in subs /\ f \in Frames /\ Tail(queue[v]) \in Seq(Frames)
      /\ f[1] \in {"log", "step", "done"}
  BY <1>1, NextFrame, FrameKinds
<1>3. CASE f[1] \in {"log", "step"}
  <2>1. /\ queue' = [queue EXCEPT ![v] = Tail(@)] /\ UNCHANGED <<at, subs>>
        /\ f[1] = "log" => got' = [got EXCEPT ![v] = Append(@, f[2])] /\ saw' = saw
        /\ f[1] = "step" => got' = got /\ saw' = [saw EXCEPT ![v] = <<f[2], f[3]>>]
    BY <1>3 DEF Send
  <2>2. /\ queue'[v] = Tail(queue[v])
        /\ f[1] = "log" => got'[v] = Append(got[v], f[2]) /\ saw'[v] = saw[v]
        /\ f[1] = "step" => got'[v] = got[v] /\ saw'[v] = <<f[2], f[3]>>
        /\ \A w \in Viewers \ {v} :
              queue'[w] = queue[w] /\ got'[w] = got[w] /\ saw'[w] = saw[w]
    BY <1>3, <2>1 DEF IInv, TypeOK
  <2>3. TypeOK'
    <3>1. queue' \in [Viewers -> Seq(Frames)]
      BY <1>2, <2>1 DEF IInv, TypeOK
    <3>2. \A w \in Viewers \ subs' : queue'[w] = <<>>
      BY <1>2, <2>1, <2>2 DEF IInv, TypeOK
    <3>3. got' \in [Viewers -> Seq(1 .. MaxLines + 1)]
      <4>1. f[1] = "log" => f[2] \in 1 .. MaxLines + 1
        BY <1>2, FrameKinds
      <4>2. got[v] \in Seq(1 .. MaxLines + 1)
        BY DEF IInv, TypeOK
      <4>3. f[1] = "log" => Append(got[v], f[2]) \in Seq(1 .. MaxLines + 1)
        BY <4>1, <4>2, AppendProperties
      <4> QED BY <1>3, <2>1, <4>3 DEF IInv, TypeOK
    <3>4. saw' \in [Viewers -> (0 .. MaxSteps)
                             \X ({"none", "pending", "running"} \cup Terminal)]
      <4>1. f[1] = "step" => f[2] \in 0 .. MaxSteps
                             /\ f[3] \in {"pending", "running"} \cup Terminal
        BY <1>2, FrameKinds
      <4> DEFINE T == (0 .. MaxSteps) \X ({"none", "pending", "running"} \cup Terminal)
      <4>2. f[1] = "step" => <<f[2], f[3]>> \in T
        BY <4>1
      <4>3. saw \in [Viewers -> T]
        BY DEF IInv, TypeOK
      <4> HIDE DEF T
      <4>4. saw' \in [Viewers -> T]
        BY <1>3, <2>1, <4>2, <4>3
      <4> QED BY <4>4 DEF T
    <3> QED BY <1>1, <2>1, <3>1, <3>2, <3>3, <3>4 DEF IInv, TypeOK
  <2>4. VerdictOnce' /\ \A w \in Viewers : at'[w] = "away" => got'[w] = <<>>
    BY <1>1, <2>1, <2>2 DEF IInv, VerdictOnce
  <2>5. ASSUME NEW w \in subs'
        PROVE  Following(w)'
    <3>1. CASE w = v
      <4>1. Follows(queue'[v], got'[v], saw'[v], lines, owed, <<step, status>>)
        BY <1>1, <1>3, <2>2, NextFrame
      <4> QED BY <3>1, <4>1, <1>1 DEF Following
    <3>2. CASE w # v
      <4>1. w \in Viewers \ {v} /\ Following(w)
        BY <3>2, <2>1 DEF IInv, TypeOK
      <4> QED BY <4>1, <1>1, <2>2 DEF Following
    <3> QED BY <3>1, <3>2
  <2> QED BY <2>3, <2>4, <2>5 DEF IInv
<1>4. CASE f[1] = "done"
  <2>1. /\ at' = [at EXCEPT ![v] = "ended"] /\ Unsubscribe(v) /\ UNCHANGED <<task, got>>
        /\ saw' = [saw EXCEPT ![v] = <<@[1], status>>]
    BY <1>4 DEF Send
  <2>2. saw' \in [Viewers -> (0 .. MaxSteps)
                             \X ({"none", "pending", "running"} \cup Terminal)]
    BY <2>1 DEF IInv, TypeOK
  <2>3. \A w \in Viewers \ {v} : saw'[w] = saw[w]
    BY <2>1 DEF IInv, TypeOK
  <2> QED BY <2>1, <2>2, <2>3, GoneInv
<1> QED BY <1>2, <1>3, <1>4

LEMMA NextInv == IInv /\ [Next]_vars => IInv'
<1> SUFFICES ASSUME IInv, [Next]_vars PROVE IInv'
  OBVIOUS
<1>1. CASE AddLog
  BY <1>1, AddLogInv
<1>2. CASE \E s \in 1 .. MaxSteps : SetStep(s)
  BY <1>2, SetStepInv
<1>3. CASE Succeed
  <2>1. PICK after \in {0, 1} : Finish("success", 0, after)
    BY <1>3 DEF Succeed
  <2> QED BY <2>1, FinishInv DEF Terminal
<1>4. CASE Fail
  <2>1. PICK before \in {0, 1} : Finish("failed", before, 0)
    BY <1>4 DEF Fail
  <2> QED BY <2>1, FinishInv DEF Terminal
<1>5. CASE \E v \in Viewers : Connect(v) \/ Send(v) \/ Disconnect(v)
  BY <1>5, ConnectInv, SendInv, DisconnectInv
<1>6. CASE UNCHANGED vars
  BY <1>6 DEF vars, task, view, IInv, TypeOK, VerdictOnce, Following
<1> QED BY <1>1, <1>2, <1>3, <1>4, <1>5, <1>6 DEF Next

LEMMA InvariantHolds == Spec => []IInv
  BY InitInv, NextInv, PTL DEF Spec

-----------------------------------------------------------------------------
\* Every variable of the task store and of the WebSocket handlers keeps its type,
\* and only open handlers are broadcast to (services/task_store.py, api/ws.py).
THEOREM TypeCorrect == Spec => []TypeOK
<1>1. IInv => TypeOK
  BY DEF IInv
<1> QED BY <1>1, InvariantHolds, PTL

\* An open handler with nothing to send has shown the current status and the last
\* line of a task that still runs: no line or verdict was broadcast past it, however
\* subscribe's replay and the broadcasts interleave and whatever the ring forgot.
THEOREM CaughtUpHolds == Spec => []CaughtUp
<1>1. IInv => CaughtUp
  <2> SUFFICES ASSUME IInv, NEW v \in subs, queue[v] = <<>>
               PROVE  /\ saw[v] = <<step, status>>
                      /\ View!LastOf(got[v]) = lines
                      /\ status \notin Terminal
    BY DEF CaughtUp
  <2>1. Follows(<<>>, got[v], saw[v], lines, owed, <<step, status>>)
    BY DEF IInv, Following
  <2>2. saw[v] = <<step, status>>
    BY <2>1 DEF Follows, Tells
  <2>3. status \notin Terminal
    BY <2>1 DEF Follows
  <2>4. PICK from \in 0 .. lines :
            /\ Carried(<<>>, from, lines, owed)
            /\ got[v] # <<>> => from = View!LastOf(got[v])
            /\ got[v] = <<>> => from = 0 \/ (from + Cap <= lines /\ Opens(<<>>))
    BY <2>1 DEF Follows
  <2>5. from = lines
    BY <2>4 DEF Carried, Carries
  <2>6. ~Opens(<<>>)
    BY DEF Opens
  <2>7. got[v] = <<>> => View!LastOf(got[v]) = 0
    BY DEF View!LastOf
  <2> QED BY <2>2, <2>3, <2>4, <2>5, <2>6, <2>7
<1> QED BY <1>1, InvariantHolds, PTL

\* The log a WebSocket viewer is shown is the one its handler promises (api/ws.py):
\* every line once and in order from some line on, line 1 unless the ring buffer
\* (services/task_store.py) lost it, and the end after the lines the verdict came
\* with.
THEOREM LogViewImplemented == Spec => ImplementsLogView
<1>1. Init => View!Init
  BY DEF Init, View!Init
<1>2. IInv /\ [Next]_vars => [View!Next]_View!vars
  <2> SUFFICES ASSUME IInv, [Next]_vars PROVE [View!Next]_View!vars
    OBVIOUS
  <2>1. lines \in Nat /\ owed \in Int
    BY LogAssumption DEF IInv, TypeOK
  <2>2. CASE AddLog
    <3>1. lines' = lines + 1 /\ owed = -1 /\ UNCHANGED <<owed, got, at>>
      BY <2>2 DEF AddLog, IInv, VerdictOnce, view
    <3>2. View!Produce
      BY <2>1, <3>1 DEF View!Produce
    <3> QED BY <3>2 DEF View!Next
  <2>3. CASE \E s \in 1 .. MaxSteps : SetStep(s)
    BY <2>3 DEF SetStep, view, View!vars
  <2>4. ASSUME NEW verdict \in Terminal, NEW before \in {0, 1}, NEW after \in {0, 1},
               before + after <= 1, Finish(verdict, before, after)
        PROVE  View!Next
    <3>1. /\ lines' = lines + before + after /\ owed = -1 /\ owed' = lines + before
          /\ UNCHANGED <<got, at>>
      BY <2>4 DEF Finish, IInv, VerdictOnce, view
    <3>2. lines' \in lines .. lines + 2 /\ owed' \in lines .. lines'
      BY <2>1, <2>4, <3>1
    <3>3. View!Produce
      BY <3>1, <3>2 DEF View!Produce
    <3> QED BY <3>3 DEF View!Next
  <2>5. CASE Succeed
    <3>1. PICK after \in {0, 1} : Finish("success", 0, after)
      BY <2>5 DEF Succeed
    <3> QED BY <3>1, <2>4 DEF Terminal
  <2>6. CASE Fail
    <3>1. PICK before \in {0, 1} : Finish("failed", before, 0)
      BY <2>6 DEF Fail
    <3> QED BY <3>1, <2>4 DEF Terminal
  <2>7. ASSUME NEW v \in Viewers, Connect(v)
        PROVE  View!Next
    <3>1. View!Attach(v)
      BY <2>7 DEF Connect, task, View!Attach
    <3> QED BY <3>1 DEF View!Next
  <2>8. ASSUME NEW v \in Viewers, Send(v)
        PROVE  View!Next \/ UNCHANGED View!vars
    <3> DEFINE f == Head(queue[v])
    <3>1. at[v] = "watching" /\ queue[v] # <<>> /\ UNCHANGED <<lines, owed>>
      BY <2>8 DEF Send, task
    <3>2. f \in Frames /\ f[1] \in {"log", "step", "done"}
      BY <3>1, NextFrame, FrameKinds
    <3>3. CASE f[1] = "log"
      <4>1. /\ f[2] \in 1 .. lines
            /\ got[v] # <<>> => f[2] = View!LastOf(got[v]) + 1
            /\ got[v] = <<>> => f[2] = 1 \/ f[2] + Cap <= lines + 1
        BY <3>1, <3>3, NextFrame
      <4>2. f[2] \in View!NextLine(v) /\ f[2] <= lines
        BY <4>1, <2>1 DEF View!NextLine
      <4>3. got' = [got EXCEPT ![v] = Append(@, f[2])] /\ at' = at
        BY <2>8, <3>3 DEF Send
      <4>4. View!Show(v)
        BY <3>1, <4>2, <4>3 DEF View!Show
      <4> QED BY <4>4 DEF View!Next
    <3>4. CASE f[1] = "step"
      BY <2>8, <3>1, <3>4 DEF Send, View!vars
    <3>5. CASE f[1] = "done"
      <4>1. owed # -1 /\ View!LastOf(got[v]) >= owed
        BY <3>1, <3>5, NextFrame
      <4>2. at' = [at EXCEPT ![v] = "ended"] /\ got' = got
        BY <2>8, <3>5 DEF Send
      <4>3. View!End(v)
        BY <3>1, <4>1, <4>2 DEF View!End
      <4> QED BY <4>3 DEF View!Next
    <3> QED BY <3>2, <3>3, <3>4, <3>5
  <2>9. ASSUME NEW v \in Viewers, Disconnect(v)
        PROVE  View!Next
    <3>1. View!Leave(v)
      BY <2>9 DEF Disconnect, task, View!Leave
    <3> QED BY <3>1 DEF View!Next
  <2>10. CASE UNCHANGED vars
    BY <2>10 DEF vars, task, view, View!vars
  <2> QED BY <2>2, <2>3, <2>5, <2>6, <2>7, <2>8, <2>9, <2>10 DEF Next
<1> QED BY <1>1, <1>2, InvariantHolds, PTL DEF Spec, ImplementsLogView, View!Spec
=============================================================================
