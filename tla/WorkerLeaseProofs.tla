-------------------------- MODULE WorkerLeaseProofs --------------------------
(***************************************************************************)
(* Proofs about WorkerLease, for every set of processes and all times.     *)
(*                                                                         *)
(* The type invariant comes first.  HolderNeverLapses and GatewayYields    *)
(* follow from Covered (what is left of the lease covers the time to the   *)
(* holder's next short turn) and WorkerHolds; TakeoverInTime from a bound  *)
(* on dark per situation (WorkerSoon, LeaseRunsOut, GatewaySoon).          *)
(***************************************************************************)
EXTENDS WorkerLease, TLAPS

\* A container runs one process at a time.
OneEach == \A p, q \in up : Peers(p) = Peers(q) => p = q

ShortTurns == \A p \in Procs : <<p, "poll">> \notin busy

Covered ==
    ~faulted => \A p \in told : lease.holder = p =>
                   lease.left >= TTL - PollEvery + wait[p]["poll"]

WorkerHolds == ~faulted => \A w \in Workers \cap told : lease.holder = w

\* While somebody evaluates, and while nobody could, no time is dark.
DarkStarts ==
    /\ Gateways \cap up = {} => dark = 0
    /\ \A p \in up : <<p, "rules">> \in busy => dark = 0

\* A worker that is up evaluates after one period at the latest.
WorkerSoon ==
    \A w \in Workers \cap up :
        <<w, "rules">> \notin busy => dark + wait[w]["rules"] <= RulesEvery

\* Alone, the gateway waits for the lease of a dead process to run out ...
LeaseRunsOut ==
    \A g \in Gateways \cap up :
        (Workers \cap up = {} /\ ~MayTake(g)) => dark + lease.left <= TTL

\* ... and then for its own next turn.
GatewaySoon ==
    \A g \in Gateways \cap up :
        (Workers \cap up = {} /\ <<g, "rules">> \notin busy)
            => dark + wait[g]["rules"] <= TTL + RulesEvery

-----------------------------------------------------------------------------
(* Facts about single updates                                               *)

LEMMA EveryIsNat == \A l \in Loops : Every(l) \in Nat
BY TimesAssumption DEF Every, Loops

\* A changed sleep keeps the type of wait and touches one loop only.
LEMMA SleepType ==
    ASSUME TypeOK, NEW p \in Procs, NEW l \in Loops, Sleep(p, l)
    PROVE  /\ wait' \in [Procs -> [Loops -> Int]]
           /\ \A q \in Procs : \A m \in Loops : -Lag <= wait'[q][m] /\ wait'[q][m] <= Every(m)
           /\ wait'[p][l] = Every(l)
           /\ \A q \in Procs : \A m \in Loops : <<q, m>> # <<p, l>> => wait'[q][m] = wait[q][m]
<1>1. wait' = [wait EXCEPT ![p] = [wait[p] EXCEPT ![l] = Every(l)]]
  BY DEF Sleep
<1>2. wait \in [Procs -> [Loops -> Int]] /\ wait[p] \in [Loops -> Int]
  BY DEF TypeOK
<1>3. Every(l) \in Int /\ -Lag <= Every(l)
  BY EveryIsNat, TimesAssumption
<1>4. [wait[p] EXCEPT ![l] = Every(l)] \in [Loops -> Int]
  BY <1>2, <1>3
<1>5. wait' \in [Procs -> [Loops -> Int]]
  BY <1>1, <1>2, <1>4
<1>6. wait'[p] = [wait[p] EXCEPT ![l] = Every(l)]
  BY <1>1, <1>2
<1>7. \A q \in Procs : q # p => wait'[q] = wait[q]
  BY <1>1, <1>2
<1>8. wait'[p][l] = Every(l) /\ \A m \in Loops : m # l => wait'[p][m] = wait[p][m]
  BY <1>2, <1>6
<1>9. \A q \in Procs : \A m \in Loops : <<q, m>> # <<p, l>> => wait'[q][m] = wait[q][m]
  BY <1>7, <1>8
<1>10. \A q \in Procs : \A m \in Loops : -Lag <= wait'[q][m] /\ wait'[q][m] <= Every(m)
  <2> SUFFICES ASSUME NEW q \in Procs, NEW m \in Loops
               PROVE  -Lag <= wait'[q][m] /\ wait'[q][m] <= Every(m)
    OBVIOUS
  <2>1. CASE <<q, m>> = <<p, l>>
    BY <2>1, <1>8, <1>3, EveryIsNat
  <2>2. CASE <<q, m>> # <<p, l>>
    BY <2>2, <1>9 DEF TypeOK
  <2> QED BY <2>1, <2>2
<1> QED BY <1>5, <1>8, <1>9, <1>10

\* A restart or an end sets the loops of one process to be due.
LEMMA ResetType ==
    ASSUME TypeOK, NEW p \in Procs, wait' = [wait EXCEPT ![p] = [l \in Loops |-> 0]]
    PROVE  /\ wait' \in [Procs -> [Loops -> Int]]
           /\ \A q \in Procs : \A m \in Loops : -Lag <= wait'[q][m] /\ wait'[q][m] <= Every(m)
           /\ \A m \in Loops : wait'[p][m] = 0
           /\ \A q \in Procs : q # p => wait'[q] = wait[q]
<1>1. wait \in [Procs -> [Loops -> Int]]
  BY DEF TypeOK
<1>2. wait'[p] = [l \in Loops |-> 0] /\ \A q \in Procs : q # p => wait'[q] = wait[q]
  BY <1>1
<1>3. wait' \in [Procs -> [Loops -> Int]]
  BY <1>1
<1>4. \A q \in Procs : \A m \in Loops : -Lag <= wait'[q][m] /\ wait'[q][m] <= Every(m)
  <2> SUFFICES ASSUME NEW q \in Procs, NEW m \in Loops
               PROVE  -Lag <= wait'[q][m] /\ wait'[q][m] <= Every(m)
    OBVIOUS
  <2>1. CASE q = p
    BY <2>1, <1>2, EveryIsNat, TimesAssumption
  <2>2. CASE q # p
    BY <2>2, <1>2 DEF TypeOK
  <2> QED BY <2>1, <2>2
<1> QED BY <1>2, <1>3, <1>4

\* What a second does to the sleeping loops.
LEMMA SecondWaits ==
    ASSUME TypeOK, Second
    PROVE  /\ wait' \in [Procs -> [Loops -> Int]]
           /\ \A q \in Procs : \A m \in Loops :
                /\ -Lag <= wait'[q][m] /\ wait'[q][m] <= Every(m)
                /\ (q \in up /\ m \in LoopsOf(q) /\ <<q, m>> \notin busy)
                      => wait'[q][m] = wait[q][m] - 1
<1>1. wait' = [p \in Procs |-> [l \in Loops |->
                  IF p \in up /\ l \in LoopsOf(p) /\ <<p, l>> \notin busy
                  THEN wait[p][l] - 1 ELSE wait[p][l]]]
  BY DEF Second
<1>2. \A q \in Procs : \A m \in Loops : wait[q][m] \in Int
  BY DEF TypeOK
<1>3. wait' \in [Procs -> [Loops -> Int]]
  BY <1>1, <1>2
<1>4. SUFFICES ASSUME NEW q \in Procs, NEW m \in Loops
               PROVE  /\ -Lag <= wait'[q][m] /\ wait'[q][m] <= Every(m)
                      /\ (q \in up /\ m \in LoopsOf(q) /\ <<q, m>> \notin busy)
                            => wait'[q][m] = wait[q][m] - 1
  BY <1>3
<1>5. wait'[q][m] = IF q \in up /\ m \in LoopsOf(q) /\ <<q, m>> \notin busy
                    THEN wait[q][m] - 1 ELSE wait[q][m]
  BY <1>1
<1>6. -Lag <= wait[q][m] /\ wait[q][m] <= Every(m) /\ wait[q][m] \in Int /\ Every(m) \in Nat
  BY <1>2, EveryIsNat DEF TypeOK
<1>7. (q \in up /\ m \in LoopsOf(q) /\ <<q, m>> \notin busy) => wait[q][m] > -Lag
  BY DEF Second
<1> QED BY <1>5, <1>6, <1>7, TimesAssumption

-----------------------------------------------------------------------------
(* Types                                                                    *)

LEMMA TypeInit == Init => TypeOK
<1> SUFFICES ASSUME Init PROVE TypeOK
  OBVIOUS
<1>1. \A p \in Procs : \A l \in Loops : -Lag <= wait[p][l] /\ wait[p][l] <= Every(l)
  BY EveryIsNat, TimesAssumption DEF Init
<1>2. /\ lease \in [holder: Procs \cup {NoProc}, left: -1 .. TTL]
      /\ wait \in [Procs -> [Loops -> Int]]
      /\ dark \in Nat
  BY TimesAssumption DEF Init, NoLease
<1>3. up = {} /\ told = {} /\ busy = {}
  BY DEF Init
<1>4. faulted \in BOOLEAN
  BY DEF Init
<1> QED BY <1>1, <1>2, <1>3, <1>4 DEF TypeOK

LEMMA WorkType ==
    ASSUME TypeOK, NEW p \in Procs, NEW l \in Loops, Due(p, l), Work(p, l), UNCHANGED up,
           faulted' \in BOOLEAN, lease' \in [holder: Procs \cup {NoProc}, left: -1 .. TTL]
    PROVE  TypeOK'
<1>1. told' \subseteq up' /\ up' \subseteq Procs /\ dark' \in Nat
  BY DEF Work, Due, TypeOK
<1>2. CASE l = "poll"
  <2>1. Sleep(p, l) /\ UNCHANGED busy
    BY <1>2 DEF Work
  <2> QED BY <1>1, <2>1, SleepType DEF TypeOK
<1>3. CASE l # "poll"
  <2>1. busy' = busy \cup {<<p, l>>} /\ UNCHANGED wait
    BY <1>3 DEF Work
  <2>2. p \in up /\ l \in LoopsOf(p)
    BY DEF Due
  <2>3. l \in LoopsOf(p) /\ <<p, l>> \in Procs \X Loops
    BY <2>2
  <2>4. busy' \subseteq Procs \X Loops /\ \A b \in busy' : b[1] \in up' /\ b[2] \in LoopsOf(b[1])
    BY <2>1, <2>2, <2>3 DEF TypeOK
  <2> QED BY <1>1, <2>1, <2>4 DEF TypeOK
<1> QED BY <1>2, <1>3

LEMMA TakenType == \A p \in Procs : Taken(p) \in [holder: Procs \cup {NoProc}, left: -1 .. TTL]
BY TimesAssumption DEF Taken

LEMMA TypeNext == TypeOK /\ [Next]_vars => TypeOK'
<1> SUFFICES ASSUME TypeOK, [Next]_vars PROVE TypeOK'
  OBVIOUS
<1>1. CASE Second
  <2>1. lease' \in [holder: Procs \cup {NoProc}, left: -1 .. TTL]
    <3>1. lease' = [lease EXCEPT !.left = IF @ < 0 THEN @ ELSE @ - 1]
      BY <1>1 DEF Second
    <3>2. lease \in [holder: Procs \cup {NoProc}, left: -1 .. TTL]
      BY DEF TypeOK
    <3>3. (IF lease.left < 0 THEN lease.left ELSE lease.left - 1) \in -1 .. TTL
      BY <3>2, TimesAssumption
    <3> QED BY <3>1, <3>2, <3>3
  <2>2. dark' \in Nat
    BY <1>1 DEF Second, TypeOK
  <2>3. UNCHANGED <<up, told, busy, faulted>>
    BY <1>1 DEF Second
  <2> QED BY <2>1, <2>2, <2>3, <1>1, SecondWaits DEF TypeOK
<1>2. ASSUME NEW p \in Procs, NEW l \in Loops, TurnOwned(p, l) PROVE TypeOK'
  <2>1. lease' \in [holder: Procs \cup {NoProc}, left: -1 .. TTL]
    BY <1>2, TakenType DEF TurnOwned
  <2>2. Due(p, l) /\ Work(p, l) /\ UNCHANGED <<up, faulted>>
    BY <1>2 DEF TurnOwned
  <2> QED BY <2>1, <2>2, WorkType DEF TypeOK
<1>3. ASSUME NEW p \in Procs, NEW l \in Loops, TurnFailed(p, l) PROVE TypeOK'
  BY <1>3, WorkType DEF TurnFailed, TypeOK
<1>4. ASSUME NEW p \in Procs, NEW l \in Loops, TurnDenied(p, l) PROVE TypeOK'
  BY <1>4, SleepType DEF TurnDenied, TypeOK
<1>5. ASSUME NEW p \in Procs, NEW l \in Loops, TurnOver(p, l) PROVE TypeOK'
  BY <1>5, SleepType DEF TurnOver, TypeOK
<1>6. ASSUME NEW p \in Procs, Start(p) PROVE TypeOK'
  <2>1. wait' = [wait EXCEPT ![p] = [l \in Loops |-> 0]]
    BY <1>6 DEF Start
  <2>2. up' = up \cup {p} /\ dark' = 0 /\ UNCHANGED <<lease, told, busy, faulted>>
    BY <1>6 DEF Start
  <2>3. /\ told' \subseteq up'
        /\ busy' \subseteq Procs \X Loops
        /\ \A b \in busy' : b[1] \in up' /\ b[2] \in LoopsOf(b[1])
    BY <2>2 DEF TypeOK
  <2>4. /\ wait' \in [Procs -> [Loops -> Int]]
        /\ \A q \in Procs : \A m \in Loops : -Lag <= wait'[q][m] /\ wait'[q][m] <= Every(m)
    BY <2>1, ResetType
  <2>5. up' \subseteq Procs /\ dark' \in Nat /\ faulted' \in BOOLEAN /\ lease' \in [holder: Procs \cup {NoProc}, left: -1 .. TTL]
    BY <2>2 DEF TypeOK
  <2> QED BY <2>3, <2>4, <2>5 DEF TypeOK
<1>7. ASSUME NEW p \in Procs, Down(p),
             lease' \in [holder: Procs \cup {NoProc}, left: -1 .. TTL]
      PROVE TypeOK'
  <2>1. wait' = [wait EXCEPT ![p] = [l \in Loops |-> 0]]
    BY <1>7 DEF Down
  <2>2. up' = up \ {p} /\ told' = told \ {p} /\ dark' = 0 /\ busy' = {b \in busy : b[1] # p}
    BY <1>7 DEF Down
  <2>3. busy' \subseteq Procs \X Loops /\ \A b \in busy' : b[1] \in up' /\ b[2] \in LoopsOf(b[1])
    BY <2>2 DEF TypeOK
  <2>4. /\ wait' \in [Procs -> [Loops -> Int]]
        /\ \A q \in Procs : \A m \in Loops : -Lag <= wait'[q][m] /\ wait'[q][m] <= Every(m)
    BY <2>1, ResetType
  <2>5. up' \subseteq Procs /\ told' \subseteq up' /\ dark' \in Nat /\ faulted' \in BOOLEAN
    BY <1>7, <2>2 DEF Down, TypeOK
  <2> QED BY <1>7, <2>3, <2>4, <2>5 DEF TypeOK
<1>8. ASSUME NEW p \in Procs, Kill(p) PROVE TypeOK'
  BY <1>8, <1>7 DEF Kill, TypeOK
<1>9. ASSUME NEW p \in Procs, Stop(p) PROVE TypeOK'
  <2>1. Released(p) \in [holder: Procs \cup {NoProc}, left: -1 .. TTL]
    BY TimesAssumption DEF Released, NoLease, TypeOK
  <2> QED BY <1>9, <1>7, <2>1 DEF Stop
<1>10. CASE UNCHANGED vars
  BY <1>10 DEF vars, TypeOK
<1> QED BY <1>1, <1>2, <1>3, <1>4, <1>5, <1>6, <1>8, <1>9, <1>10 DEF Next, Turn

\* Every reachable state is well-typed: no loop oversleeps, only running
\* processes own the duty or work (TypeOK).
THEOREM TypeCorrect == Spec => []TypeOK
<1>1. Init => TypeOK
  BY TypeInit
<1>2. TypeOK /\ [Next]_vars => TypeOK'
  BY TypeNext
<1> QED BY <1>1, <1>2, PTL DEF Spec

-----------------------------------------------------------------------------
(* The invariant behind HolderNeverLapses and GatewayYields                 *)

HoldInv == TypeOK /\ OneEach /\ ShortTurns /\ Covered /\ WorkerHolds

\* The values of wait are integers and never below the lag.
LEMMA WaitRange ==
    ASSUME TypeOK, NEW p \in Procs, NEW l \in Loops
    PROVE  wait[p][l] \in Int /\ -Lag <= wait[p][l] /\ wait[p][l] <= Every(l)
BY DEF TypeOK

LEMMA PollPeriod == "poll" \in Loops /\ Every("poll") = PollEvery
BY DEF Loops, Every

LEMMA RulesPeriod == "rules" \in Loops /\ Every("rules") = RulesEvery
BY DEF Loops, Every

LEMMA PollIsEverywhere == \A p \in Procs : "poll" \in LoopsOf(p) /\ "rules" \in LoopsOf(p)
BY DEF LoopsOf, Loops

LEMMA OwnPeer == \A p \in Procs : p \in Peers(p)
BY DEF Peers, Procs

\* Only a start adds a process, and only where none of the role runs.
LEMMA OneEachNext == ASSUME TypeOK, OneEach, [Next]_vars PROVE OneEach'
<1>1. CASE up' \subseteq up
  BY <1>1 DEF OneEach
<1>2. ASSUME NEW p \in Procs, Start(p) PROVE OneEach'
  <2>1. up' = up \cup {p} /\ Peers(p) \cap up = {}
    BY <1>2 DEF Start
  <2>2. \A q \in up : Peers(q) # Peers(p)
    BY <2>1, OwnPeer DEF TypeOK
  <2> QED BY <2>1, <2>2 DEF OneEach
<1>3. up' \subseteq up \/ \E p \in Procs : Start(p)
  BY DEF Next, vars, Second, Turn, TurnOwned, TurnFailed, TurnDenied, TurnOver, Kill, Stop, Down
<1> QED BY <1>1, <1>2, <1>3

\* A turn of probes is over within its step.
LEMMA ShortTurnsNext == ASSUME TypeOK, ShortTurns, [Next]_vars PROVE ShortTurns'
<1>1. CASE busy' \subseteq busy
  BY <1>1 DEF ShortTurns
<1>2. ASSUME NEW p \in Procs, NEW l \in Loops, Work(p, l) PROVE ShortTurns'
  <2>1. CASE l = "poll"
    BY <2>1, <1>2, <1>1 DEF Work
  <2>2. CASE l # "poll"
    <3>1. busy' = busy \cup {<<p, l>>}
      BY <2>2, <1>2 DEF Work
    <3> QED BY <3>1, <2>2 DEF ShortTurns
  <2> QED BY <2>1, <2>2
<1>3. busy' \subseteq busy \/ \E p \in Procs, l \in Loops : Work(p, l)
  BY DEF Next, vars, Second, Turn, TurnOwned, TurnFailed, TurnDenied, TurnOver, Start, Kill, Stop, Down
<1> QED BY <1>1, <1>2, <1>3

\* A raised acquire stays on record.
LEMMA FaultedGrows == ASSUME [Next]_vars PROVE faulted => faulted'
BY DEF Next, vars, Second, Turn, TurnOwned, TurnFailed, TurnDenied, TurnOver, Start, Kill, Stop, Down

\* Whoever was told that it owns the duty and still holds the lease has
\* time to spare until its next short turn.
LEMMA CoveredNext == ASSUME HoldInv, [Next]_vars, TypeOK' PROVE Covered'
<1> SUFFICES ASSUME ~faulted', NEW q \in told', lease'.holder = q
             PROVE  lease'.left >= TTL - PollEvery + wait'[q]["poll"]
  BY DEF Covered
<1> USE DEF HoldInv
<1>b. ~faulted
  BY FaultedGrows
<1>0. q \in Procs /\ wait'[q]["poll"] \in Int /\ wait'[q]["poll"] <= PollEvery
  BY PollPeriod DEF TypeOK
<1>a. ASSUME q \in told, lease.holder = q
      PROVE  /\ lease.left >= TTL - PollEvery + wait[q]["poll"]
             /\ q \in up /\ <<q, "poll">> \notin busy
             /\ wait[q]["poll"] \in Int /\ lease.left \in Int
  BY <1>a, <1>b, <1>0, PollPeriod DEF Covered, ShortTurns, TypeOK
<1>1. CASE Second
  <2>1. q \in told /\ lease.holder = q
    BY <1>1 DEF Second, TypeOK
  <2>2. wait'[q]["poll"] = wait[q]["poll"] - 1
    BY <1>1, <1>0, <1>a, <2>1, SecondWaits, PollPeriod, PollIsEverywhere
  <2>3. wait[q]["poll"] > -Lag
    BY <1>1, <1>a, <1>0, <2>1, PollPeriod, PollIsEverywhere DEF Second
  <2>4. lease.left > 0
    BY <2>1, <2>3, <1>a, TimesAssumption
  <2>5. lease'.left = lease.left - 1
    BY <2>4, <1>1, <1>a, <2>1 DEF Second, TypeOK
  <2> QED BY <2>1, <2>2, <2>5, <1>a, TimesAssumption
<1>2. ASSUME NEW p \in Procs, NEW l \in Loops, TurnOwned(p, l)
      PROVE  lease'.left >= TTL - PollEvery + wait'[q]["poll"]
  <2>1. lease'.left = TTL
    BY <1>2 DEF TurnOwned, Taken
  <2> QED BY <2>1, <1>0, TimesAssumption
<1>3. ASSUME NEW p \in Procs, NEW l \in Loops, TurnFailed(p, l)
      PROVE  lease'.left >= TTL - PollEvery + wait'[q]["poll"]
  BY <1>3 DEF TurnFailed
<1>4. ASSUME q \in told, lease.holder = q, lease' = lease, wait'[q]["poll"] = wait[q]["poll"]
      PROVE  lease'.left >= TTL - PollEvery + wait'[q]["poll"]
  BY <1>4, <1>a
<1>5. ASSUME NEW p \in Procs, NEW l \in Loops, TurnDenied(p, l)
      PROVE  lease'.left >= TTL - PollEvery + wait'[q]["poll"]
  <2>1. Sleep(p, l) /\ lease' = lease /\ told' = told \ {p}
    BY <1>5 DEF TurnDenied
  <2>2. wait'[q]["poll"] = wait[q]["poll"]
    BY <2>1, <1>0, SleepType, PollPeriod
  <2> QED BY <2>1, <2>2, <1>4
<1>6. ASSUME NEW p \in Procs, NEW l \in Loops, TurnOver(p, l)
      PROVE  lease'.left >= TTL - PollEvery + wait'[q]["poll"]
  <2>1. Sleep(p, l) /\ lease' = lease /\ told' = told /\ <<p, l>> \in busy
    BY <1>6 DEF TurnOver
  <2>2. <<q, "poll">> # <<p, l>>
    BY <2>1 DEF ShortTurns
  <2>3. wait'[q]["poll"] = wait[q]["poll"]
    BY <2>1, <2>2, <1>0, SleepType, PollPeriod
  <2> QED BY <2>1, <2>3, <1>4
<1>7. ASSUME NEW p \in Procs, Start(p)
      PROVE  lease'.left >= TTL - PollEvery + wait'[q]["poll"]
  <2>1. /\ wait' = [wait EXCEPT ![p] = [l \in Loops |-> 0]]
        /\ lease' = lease /\ told' = told /\ Peers(p) \cap up = {}
    BY <1>7 DEF Start
  <2>2. q # p
    BY <2>1, OwnPeer DEF TypeOK
  <2>3. wait'[q]["poll"] = wait[q]["poll"]
    BY <2>1, <2>2, <1>0, ResetType
  <2> QED BY <2>1, <2>3, <1>4
<1>8. ASSUME NEW p \in Procs, Down(p), lease' = lease \/ lease' = Released(p)
      PROVE  lease'.left >= TTL - PollEvery + wait'[q]["poll"]
  <2>1. wait' = [wait EXCEPT ![p] = [l \in Loops |-> 0]] /\ told' = told \ {p}
    BY <1>8 DEF Down
  <2>2. q \in told /\ q # p
    BY <2>1
  <2>3. lease' = lease
    BY <1>8, <1>0, ProcsAssumption DEF Released, NoLease
  <2>4. wait'[q]["poll"] = wait[q]["poll"]
    BY <2>1, <2>2, <1>0, ResetType
  <2> QED BY <2>2, <2>3, <2>4, <1>4
<1>9. CASE UNCHANGED vars
  BY <1>9, <1>4 DEF vars
<1> QED BY <1>1, <1>2, <1>3, <1>5, <1>6, <1>7, <1>8, <1>9 DEF Next, Turn, Kill, Stop

\* The lease a running owner holds is fresh.
LEMMA HeldIsFresh ==
    ASSUME HoldInv, ~faulted, NEW p \in told, lease.holder = p
    PROVE  Fresh /\ lease.left \in Int
<1>1. lease.left >= TTL - PollEvery + wait[p]["poll"] /\ lease.left \in Int /\ p \in Procs
  BY DEF HoldInv, Covered, TypeOK
<1>2. wait[p]["poll"] \in Int /\ -Lag <= wait[p]["poll"]
  BY <1>1, WaitRange, PollPeriod DEF HoldInv
<1> QED BY <1>1, <1>2, TimesAssumption DEF Fresh

\* Nobody but a worker may take the lease while a worker owns the duty.
LEMMA WorkerKeepsOut ==
    ASSUME HoldInv, ~faulted, NEW w \in Workers \cap told, NEW p \in Procs, MayTake(p)
    PROVE  p \in Workers
<1>1. lease.holder = w
  BY DEF HoldInv, WorkerHolds
<1>2. Fresh /\ lease.left \in Int
  BY <1>1, HeldIsFresh
<1>3. ~Expired
  BY <1>2 DEF Fresh, Expired
<1> QED BY <1>1, <1>3, ProcsAssumption DEF MayTake, Procs

\* A worker that was told so holds the lease until it goes down.
LEMMA WorkerHoldsNext == ASSUME HoldInv, [Next]_vars PROVE WorkerHolds'
<1> SUFFICES ASSUME ~faulted', NEW w \in Workers, w \in told'
             PROVE  lease'.holder = w
  BY DEF WorkerHolds
<1>b. ~faulted
  BY FaultedGrows
<1>0. w \in Procs
  BY DEF Procs
<1>a. w \in told => lease.holder = w /\ w \in up
  BY <1>b DEF HoldInv, WorkerHolds, TypeOK
<1>1. CASE Second
  BY <1>1, <1>a DEF Second, HoldInv, TypeOK
<1>2. ASSUME NEW p \in Procs, NEW l \in Loops, TurnOwned(p, l) PROVE lease'.holder = w
  <2>1. /\ lease'.holder = p /\ told' = told \cup {p} /\ MayTake(p) /\ p \in up
    BY <1>2 DEF TurnOwned, Taken, Work, Due
  <2>2. CASE w \in told
    <3>1. p \in Workers
      BY <1>b, <2>1, <2>2, WorkerKeepsOut
    <3>2. Peers(p) = Peers(w)
      BY <3>1, ProcsAssumption DEF Peers
    <3> QED BY <3>2, <2>1, <2>2, <1>a DEF HoldInv, OneEach
  <2> QED BY <2>1, <2>2
<1>3. ASSUME NEW p \in Procs, NEW l \in Loops, TurnFailed(p, l) PROVE lease'.holder = w
  BY <1>3 DEF TurnFailed
<1>4. ASSUME NEW p \in Procs, Down(p), lease' = lease \/ lease' = Released(p)
      PROVE  lease'.holder = w
  <2>1. w \in told /\ w # p
    BY <1>4 DEF Down
  <2> QED BY <2>1, <1>4, <1>a DEF Released
<1>5. CASE lease' = lease /\ told' \subseteq told
  BY <1>5, <1>a
<1>6. ASSUME NEW p \in Procs, NEW l \in Loops, TurnDenied(p, l) \/ TurnOver(p, l)
      PROVE  lease' = lease /\ told' \subseteq told
  BY <1>6 DEF TurnDenied, TurnOver
<1>7. ASSUME NEW p \in Procs, Start(p) PROVE lease' = lease /\ told' \subseteq told
  BY <1>7 DEF Start
<1>8. CASE UNCHANGED vars
  BY <1>8, <1>5 DEF vars
<1> QED BY <1>1, <1>2, <1>3, <1>4, <1>5, <1>6, <1>7, <1>8 DEF Next, Turn, Kill, Stop

LEMMA HoldInvInvariant == Spec => []HoldInv
<1>1. Init => HoldInv
  <2> SUFFICES ASSUME Init PROVE HoldInv
    OBVIOUS
  <2>1. OneEach /\ ShortTurns /\ Covered /\ WorkerHolds
    BY DEF Init, OneEach, ShortTurns, Covered, WorkerHolds
  <2> QED BY <2>1, TypeInit DEF HoldInv
<1>2. HoldInv /\ [Next]_vars => HoldInv'
  <2> SUFFICES ASSUME HoldInv, [Next]_vars PROVE HoldInv'
    OBVIOUS
  <2>1. TypeOK /\ OneEach /\ ShortTurns
    BY DEF HoldInv
  <2>2. TypeOK'
    BY <2>1, TypeNext
  <2> QED BY <2>1, <2>2, OneEachNext, ShortTurnsNext, CoveredNext, WorkerHoldsNext DEF HoldInv
<1> QED BY <1>1, <1>2, PTL DEF Spec

\* Until acquire fails, a process that renews never loses the duty by
\* running late (HolderNeverLapses).
THEOREM HolderNeverLapsesHolds == Spec => []HolderNeverLapses
<1>1. HoldInv => HolderNeverLapses
  <2> SUFFICES ASSUME HoldInv, ~faulted, NEW p \in told, lease.holder = p PROVE Fresh
    BY DEF HolderNeverLapses
  <2> QED BY HeldIsFresh
<1> QED BY <1>1, HoldInvInvariant, PTL

\* Until acquire fails, the gateway starts no work as long as a worker
\* owns the duty (GatewayYields).
THEOREM GatewayYieldsHolds == Spec => GatewayYields
<1>1. ASSUME HoldInv, [Next]_vars
      PROVE  [\A g \in Gateways, l \in Loops :
                (<<g, l>> \in busy' /\ <<g, l>> \notin busy /\ ~faulted') => Workers \cap told = {}]_vars
  <2> SUFFICES ASSUME NEW g \in Gateways, NEW l \in Loops,
                      <<g, l>> \in busy', <<g, l>> \notin busy, ~faulted'
               PROVE  Workers \cap told = {}
    OBVIOUS
  <2>1. ASSUME NEW p \in Procs, NEW m \in Loops, TurnOwned(p, m)
        PROVE  Workers \cap told = {}
    <3>1. MayTake(p) /\ Work(p, m)
      BY <2>1 DEF TurnOwned
    <3>2. busy' \subseteq busy \cup {<<p, m>>}
      BY <3>1 DEF Work
    <3>3. p = g
      BY <3>2
    <3>4. \A w \in Workers \cap told : p \in Workers
      BY <3>1, <1>1, FaultedGrows, WorkerKeepsOut
    <3> QED BY <3>3, <3>4, ProcsAssumption
  <2>2. ASSUME NEW p \in Procs, NEW m \in Loops, TurnFailed(p, m)
        PROVE  FALSE
    BY <2>2 DEF TurnFailed
  <2>3. ~(busy' \subseteq busy)
    OBVIOUS
  <2>4. \E p \in Procs, m \in Loops : TurnOwned(p, m) \/ TurnFailed(p, m)
    BY <2>3, <1>1 DEF Next, vars, Second, Turn, TurnDenied, TurnOver, Start, Kill, Stop, Down
  <2> QED BY <2>1, <2>2, <2>4
<1> QED BY <1>1, HoldInvInvariant, PTL DEF Spec, GatewayYields

-----------------------------------------------------------------------------
(* The invariant behind TakeoverInTime                                      *)

DarkInv == TypeOK /\ OneEach /\ DarkStarts /\ WorkerSoon /\ LeaseRunsOut /\ GatewaySoon

\* What a turn that goes to work does to the clock of the rules.
LEMMA WorkEffect ==
    ASSUME TypeOK, NEW p \in Procs, NEW l \in Loops, Work(p, l)
    PROVE  \/ l = "rules" /\ dark' = 0
           \/ /\ l # "rules" /\ dark' = dark
              /\ \A q \in Procs : /\ wait'[q]["rules"] = wait[q]["rules"]
                                  /\ <<q, "rules">> \in busy' <=> <<q, "rules">> \in busy
<1>1. CASE l = "rules"
  BY <1>1 DEF Work
<1>2. CASE l = "poll"
  <2>1. Sleep(p, l) /\ busy' = busy /\ dark' = dark
    BY <1>2 DEF Work
  <2>2. \A q \in Procs : wait'[q]["rules"] = wait[q]["rules"]
    BY <2>1, <1>2, SleepType, RulesPeriod
  <2> QED BY <1>2, <2>1, <2>2
<1>3. CASE l # "rules" /\ l # "poll"
  <2>1. busy' = busy \cup {<<p, l>>} /\ wait' = wait /\ dark' = dark
    BY <1>3 DEF Work
  <2> QED BY <2>1, <1>3
<1> QED BY <1>1, <1>2, <1>3

\* A start or an end of a process begins a new dark time.
LEMMA ChangeEffect ==
    ASSUME DarkInv, NEW p \in Procs, Start(p) \/ Down(p), TypeOK'
    PROVE  DarkStarts' /\ WorkerSoon' /\ LeaseRunsOut' /\ GatewaySoon'
<1>1. dark' = 0
  BY DEF Start, Down
<1>2. \A q \in Procs : wait'[q]["rules"] \in Int /\ wait'[q]["rules"] <= RulesEvery
  BY RulesPeriod DEF TypeOK
<1>3. lease'.left \in Int /\ lease'.left <= TTL
  BY TimesAssumption DEF TypeOK
<1>4. DarkStarts'
  BY <1>1 DEF DarkStarts
<1>5. WorkerSoon'
  BY <1>1, <1>2, TimesAssumption DEF WorkerSoon, Procs
<1>6. LeaseRunsOut'
  BY <1>1, <1>3 DEF LeaseRunsOut
<1>7. GatewaySoon'
  BY <1>1, <1>2, TimesAssumption DEF GatewaySoon, Procs
<1> QED BY <1>4, <1>5, <1>6, <1>7

\* A second more of darkness is a second less to wait for.
LEMMA SecondEffect ==
    ASSUME DarkInv, Second, TypeOK'
    PROVE  DarkStarts' /\ WorkerSoon' /\ LeaseRunsOut' /\ GatewaySoon'
<1> USE DEF DarkInv
<1>0. /\ up' = up /\ busy' = busy
      /\ dark' = IF Working \/ Gateways \cap up = {} THEN 0
                  ELSE IF dark > Longest THEN dark ELSE dark + 1
      /\ lease' = [lease EXCEPT !.left = IF @ < 0 THEN @ ELSE @ - 1]
  BY DEF Second
<1>1. dark \in Nat /\ dark' \in Nat /\ dark' <= dark + 1
  BY <1>0 DEF TypeOK
<1>2. \A q \in up : <<q, "rules">> \notin busy =>
          /\ wait'[q]["rules"] = wait[q]["rules"] - 1
          /\ wait[q]["rules"] \in Int
  BY SecondWaits, RulesPeriod, PollIsEverywhere DEF TypeOK
<1>3. /\ lease.holder = lease'.holder
      /\ lease.left \in Int
      /\ lease'.left = IF lease.left < 0 THEN lease.left ELSE lease.left - 1
  BY <1>0 DEF TypeOK
<1>4. DarkStarts'
  BY <1>0 DEF DarkStarts, Working
<1>5. WorkerSoon'
  BY <1>0, <1>1, <1>2, TimesAssumption DEF WorkerSoon
<1>6. LeaseRunsOut'
  <2> SUFFICES ASSUME NEW g \in Gateways \cap up, Workers \cap up = {}, ~MayTake(g)'
               PROVE  dark' + lease'.left <= TTL
    BY <1>0 DEF LeaseRunsOut
  <2>1. lease'.left >= 0 /\ ~MayTake(g)
    BY <1>3 DEF MayTake, Expired
  <2>2. dark + lease.left <= TTL
    BY <2>1 DEF LeaseRunsOut
  <2> QED BY <2>1, <2>2, <1>1, <1>3, TimesAssumption
<1>7. GatewaySoon'
  BY <1>0, <1>1, <1>2, TimesAssumption DEF GatewaySoon
<1> QED BY <1>4, <1>5, <1>6, <1>7

\* A turn that works either ends the darkness or leaves the rules alone.
LEMMA TurnEffect ==
    ASSUME DarkInv, NEW p \in Procs, NEW l \in Loops,
           Due(p, l), Work(p, l), UNCHANGED up,
           lease' = Taken(p) \/ lease' = lease, TypeOK'
    PROVE  DarkStarts' /\ WorkerSoon' /\ LeaseRunsOut' /\ GatewaySoon'
<1> USE DEF DarkInv
<1>0. /\ dark \in Nat /\ dark' \in Nat /\ dark' <= dark
      /\ \A q \in Procs : wait'[q]["rules"] \in Int /\ wait'[q]["rules"] <= RulesEvery
  BY WorkEffect, RulesPeriod DEF TypeOK
<1>1. \/ dark' = 0
      \/ /\ dark' = dark
         /\ \A q \in Procs : /\ wait'[q]["rules"] = wait[q]["rules"]
                             /\ <<q, "rules">> \in busy' <=> <<q, "rules">> \in busy
  BY WorkEffect
<1>2. DarkStarts'
  BY <1>0, <1>1 DEF DarkStarts, TypeOK
<1>3. WorkerSoon'
  BY <1>0, <1>1, TimesAssumption DEF WorkerSoon, Procs
<1>4. LeaseRunsOut'
  <2> SUFFICES ASSUME NEW g \in Gateways \cap up, Workers \cap up = {}, ~MayTake(g)'
               PROVE  dark' + lease'.left <= TTL
    BY DEF LeaseRunsOut
  <2>1. CASE lease' = lease
    <3>1. ~MayTake(g)
      BY <2>1 DEF MayTake, Expired
    <3>2. dark + lease.left <= TTL /\ lease.left \in Int
      BY <3>1 DEF LeaseRunsOut, TypeOK
    <3> QED BY <3>2, <2>1, <1>0, TimesAssumption
  <2>2. CASE lease' = Taken(p)
    <3>1. p \in up /\ p \in Gateways
      BY DEF Due, Procs
    <3>2. Peers(p) = Peers(g)
      BY <3>1 DEF Peers
    <3>3. p = g
      BY <3>1, <3>2 DEF OneEach
    <3> QED BY <2>2, <3>3 DEF MayTake, Taken
  <2> QED BY <2>1, <2>2
<1>5. GatewaySoon'
  BY <1>0, <1>1, TimesAssumption DEF GatewaySoon, Procs
<1> QED BY <1>2, <1>3, <1>4, <1>5

\* Being denied takes a gateway to the end of the lease at the earliest.
LEMMA DeniedEffect ==
    ASSUME DarkInv, NEW p \in Procs, NEW l \in Loops, TurnDenied(p, l), TypeOK'
    PROVE  DarkStarts' /\ WorkerSoon' /\ LeaseRunsOut' /\ GatewaySoon'
<1> USE DEF DarkInv
<1>0. UNCHANGED <<lease, up, busy, dark>> /\ Sleep(p, l) /\ ~MayTake(p) /\ p \in up /\ dark \in Nat
  BY DEF TurnDenied, Due, TypeOK
<1>1. \A q \in Procs : q # p => wait'[q]["rules"] = wait[q]["rules"]
  BY <1>0, SleepType, RulesPeriod
<1>2. DarkStarts'
  BY <1>0 DEF DarkStarts
<1>3. WorkerSoon'
  <2>1. p \notin Workers
    BY <1>0 DEF MayTake
  <2> QED BY <2>1, <1>0, <1>1 DEF WorkerSoon, Procs
<1>4. LeaseRunsOut'
  BY <1>0 DEF LeaseRunsOut, MayTake, Expired
<1>5. GatewaySoon'
  <2> SUFFICES ASSUME NEW g \in Gateways \cap up, Workers \cap up = {}, <<g, "rules">> \notin busy
               PROVE  dark + wait'[g]["rules"] <= TTL + RulesEvery
    BY <1>0 DEF GatewaySoon
  <2>1. CASE wait'[g]["rules"] = wait[g]["rules"]
    BY <2>1 DEF GatewaySoon
  <2>2. CASE g = p
    <3>1. dark + lease.left <= TTL /\ lease.left \in Int /\ lease.left >= 0
      BY <2>2, <1>0 DEF LeaseRunsOut, MayTake, Expired, TypeOK
    <3>2. wait'[g]["rules"] \in Int /\ wait'[g]["rules"] <= RulesEvery
      BY RulesPeriod DEF TypeOK, Procs
    <3> QED BY <3>1, <3>2, <1>0, TimesAssumption
  <2> QED BY <2>1, <2>2, <1>1 DEF Procs
<1> QED BY <1>2, <1>3, <1>4, <1>5

\* A turn of the rules ends while nothing is dark.
LEMMA OverEffect ==
    ASSUME DarkInv, NEW p \in Procs, NEW l \in Loops, TurnOver(p, l), TypeOK'
    PROVE  DarkStarts' /\ WorkerSoon' /\ LeaseRunsOut' /\ GatewaySoon'
<1> USE DEF DarkInv
<1>0. /\ UNCHANGED <<lease, up, dark>> /\ Sleep(p, l) /\ dark \in Nat
      /\ busy' = busy \ {<<p, l>>} /\ <<p, l>> \in busy
  BY DEF TurnOver, TypeOK
<1>1. p \in up
  BY <1>0 DEF TypeOK
<1>2. \A q \in Procs : <<q, "rules">> # <<p, l>> =>
          /\ wait'[q]["rules"] = wait[q]["rules"]
          /\ <<q, "rules">> \in busy' <=> <<q, "rules">> \in busy
  BY <1>0, SleepType, RulesPeriod
<1>3. l = "rules" => dark = 0
  BY <1>0, <1>1 DEF DarkStarts
<1>4. \A q \in Procs : wait'[q]["rules"] \in Int /\ wait'[q]["rules"] <= RulesEvery
  BY RulesPeriod DEF TypeOK
<1>5. DarkStarts'
  BY <1>0 DEF DarkStarts
<1>6. WorkerSoon'
  BY <1>0, <1>2, <1>3, <1>4, TimesAssumption DEF WorkerSoon, Procs
<1>7. LeaseRunsOut'
  BY <1>0 DEF LeaseRunsOut, MayTake, Expired
<1>8. GatewaySoon'
  BY <1>0, <1>2, <1>3, <1>4, TimesAssumption DEF GatewaySoon, Procs
<1> QED BY <1>5, <1>6, <1>7, <1>8

LEMMA DarkInvInvariant == Spec => []DarkInv
<1>1. Init => DarkInv
  <2> SUFFICES ASSUME Init PROVE DarkInv
    OBVIOUS
  <2>1. OneEach /\ DarkStarts /\ WorkerSoon /\ LeaseRunsOut /\ GatewaySoon
    BY DEF Init, OneEach, DarkStarts, WorkerSoon, LeaseRunsOut, GatewaySoon
  <2> QED BY <2>1, TypeInit DEF DarkInv
<1>2. DarkInv /\ [Next]_vars => DarkInv'
  <2> SUFFICES ASSUME DarkInv, [Next]_vars PROVE DarkInv'
    OBVIOUS
  <2>1. TypeOK' /\ OneEach'
    BY TypeNext, OneEachNext DEF DarkInv
  <2>2. ASSUME NEW p \in Procs, NEW l \in Loops, TurnOwned(p, l) \/ TurnFailed(p, l)
        PROVE  DarkStarts' /\ WorkerSoon' /\ LeaseRunsOut' /\ GatewaySoon'
    BY <2>1, <2>2, TurnEffect DEF TurnOwned, TurnFailed
  <2>3. ASSUME UNCHANGED vars PROVE DarkStarts' /\ WorkerSoon' /\ LeaseRunsOut' /\ GatewaySoon'
    BY <2>3 DEF vars, DarkInv, DarkStarts, WorkerSoon, LeaseRunsOut, GatewaySoon, MayTake, Expired
  <2>4. CASE Second
    BY <2>1, <2>4, SecondEffect DEF DarkInv
  <2>5. ASSUME NEW p \in Procs, NEW l \in Loops, TurnDenied(p, l) \/ TurnOver(p, l)
        PROVE  DarkStarts' /\ WorkerSoon' /\ LeaseRunsOut' /\ GatewaySoon'
    BY <2>1, <2>5, DeniedEffect, OverEffect
  <2>6. ASSUME NEW p \in Procs, Start(p) \/ Kill(p) \/ Stop(p)
        PROVE  DarkStarts' /\ WorkerSoon' /\ LeaseRunsOut' /\ GatewaySoon'
    BY <2>1, <2>6, ChangeEffect DEF Kill, Stop
  <2>7. DarkStarts' /\ WorkerSoon' /\ LeaseRunsOut' /\ GatewaySoon'
    BY <2>2, <2>3, <2>4, <2>5, <2>6 DEF Next, Turn, DarkInv
  <2> QED BY <2>1, <2>7 DEF DarkInv
<1> QED BY <1>1, <1>2, PTL DEF Spec

\* Whoever dies and whether or not acquire fails, the rules are evaluated
\* again within the TTL, one period and the lag (TakeoverInTime).
THEOREM TakeoverInTimeHolds == Spec => []TakeoverInTime
<1>1. DarkInv => TakeoverInTime
  <2> SUFFICES ASSUME DarkInv PROVE TakeoverInTime
    OBVIOUS
  <2> USE DEF DarkInv
  <2>0. dark \in Nat /\ \A q \in Procs : wait[q]["rules"] \in Int /\ -Lag <= wait[q]["rules"]
    BY RulesPeriod DEF TypeOK
  <2>1. CASE dark = 0
    BY <2>1, TimesAssumption DEF TakeoverInTime, Longest
  <2>2. ASSUME NEW w \in Workers \cap up, dark # 0 PROVE TakeoverInTime
    <3>1. dark + wait[w]["rules"] <= RulesEvery
      BY <2>2 DEF WorkerSoon, DarkStarts
    <3> QED BY <3>1, <2>0, TimesAssumption DEF TakeoverInTime, Longest, Procs
  <2>3. ASSUME NEW g \in Gateways \cap up, Workers \cap up = {}, dark # 0 PROVE TakeoverInTime
    <3>1. dark + wait[g]["rules"] <= TTL + RulesEvery
      BY <2>3 DEF GatewaySoon, DarkStarts
    <3> QED BY <3>1, <2>0, TimesAssumption DEF TakeoverInTime, Longest, Procs
  <2> QED BY <2>1, <2>2, <2>3 DEF DarkStarts
<1> QED BY <1>1, DarkInvInvariant, PTL
=============================================================================
