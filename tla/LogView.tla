------------------------------- MODULE LogView -------------------------------
(***************************************************************************)
(* What api/ws.py promises a browser that watches a task: "the full log    *)
(* replay immediately, then live updates as they arrive; the stream ends   *)
(* with done".  MemoryTaskLog and SharedTaskLog implement it.              *)
(*                                                                         *)
(* A log line is its rank in the task's log.                               *)
(***************************************************************************)
EXTENDS Integers, Sequences

CONSTANTS
    Viewers,  \* WebSocket connections
    Cap       \* lines a replay reaches back at most

VARIABLES
    written,  \* lines in the task's log
    owed,     \* lines written when the first verdict was given, -1 before
    got,      \* per viewer, the lines it was shown
    at        \* per viewer: "away", "watching", "ended" or "left"

vars == <<written, owed, got, at>>

LastOf(s) == IF s = <<>> THEN 0 ELSE s[Len(s)]

Init == /\ written = 0
        /\ owed = -1
        /\ got = [v \in Viewers |-> <<>>]
        /\ at = [v \in Viewers |-> "away"]

\* The task goes on: a handler may write lines and give a verdict without letting
\* go of the log in between. Only the first verdict counts.
Produce == /\ written' \in written .. written + 2
           /\ owed' \in IF owed = -1 THEN {-1} \cup written .. written' ELSE {owed}
           /\ UNCHANGED <<got, at>>

Attach(v) == /\ at[v] = "away"
             /\ at' = [at EXCEPT ![v] = "watching"]
             /\ UNCHANGED <<written, owed, got>>

\* No line twice, no line skipped; a replay may only start after line 1 when
\* there are more lines than it reaches back.
NextLine(v) == IF got[v] # <<>> THEN {LastOf(got[v]) + 1}
               ELSE {1} \cup {k \in 1 .. written : k + Cap <= written + 1}

Show(v) == /\ at[v] = "watching"
           /\ \E k \in NextLine(v) : /\ k <= written
                                     /\ got' = [got EXCEPT ![v] = Append(@, k)]
           /\ UNCHANGED <<written, owed, at>>

\* The stream ends only with a verdict, and after every line that came before.
End(v) == /\ at[v] = "watching"
          /\ owed # -1 /\ LastOf(got[v]) >= owed
          /\ at' = [at EXCEPT ![v] = "ended"]
          /\ UNCHANGED <<written, owed, got>>

Leave(v) == /\ at[v] \in {"away", "watching"}
            /\ at' = [at EXCEPT ![v] = "left"]
            /\ UNCHANGED <<written, owed, got>>

Next == \/ Produce
        \/ \E v \in Viewers : Attach(v) \/ Show(v) \/ End(v) \/ Leave(v)

Spec == Init /\ [][Next]_vars
=============================================================================
