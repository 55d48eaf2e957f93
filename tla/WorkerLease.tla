----------------------------- MODULE WorkerLease -----------------------------
(***************************************************************************)
(* The lease behind a background duty (services/worker_lease.py) and the   *)
(* loops it gates: api/rules.py, api/xray_checker.py, api/server_monitor   *)
(* and api/user_stats run in the gateway and in the dedicated worker,      *)
(* auto_backup, provider_sync and updater in the gateway only.             *)
(*                                                                         *)
(* Times are whole seconds.  expires_at is kept as what is left of it: the *)
(* code only ever compares it with now.                                    *)
(***************************************************************************)
EXTENDS Integers

CONSTANTS
    Gateways,     \* holder ids (hostname:pid) gateway processes may have
    Workers,      \* holder ids of processes dedicated to the duty
    NoProc,       \* no row in the leases table
    TTL,          \* DEFAULT_TTL
    RulesEvery,   \* period of rules_loop
    PollEvery,    \* period of the loops whose turn is short: the probes
    BackupEvery,  \* period of the loops only the gateway has
    Lag           \* how late the event loop wakes a sleeping loop at most

Procs == Gateways \cup Workers

ASSUME ProcsAssumption == Gateways \cap Workers = {} /\ NoProc \notin Procs
ASSUME TimesAssumption ==
    /\ TTL \in Nat /\ Lag \in Nat
    /\ RulesEvery \in Nat \ {0} /\ PollEvery \in Nat \ {0} /\ BackupEvery \in Nat \ {0}
    /\ PollEvery + Lag < TTL

VARIABLES
    lease,  \* [holder, left]: expires_at is now + left
    up,     \* processes that run
    told,   \* processes that acquire has told they own the duty
    busy,   \* loops inside a turn of their work
    wait,   \* per process and loop, seconds to its next turn
    dark,   \* history: seconds without work or change of processes
    faulted \* history: acquire has raised

vars == <<lease, up, told, busy, wait, dark, faulted>>

Loops == {"rules", "poll", "backup"}
LoopsOf(p) == IF p \in Gateways THEN Loops ELSE Loops \ {"backup"}

Every(l) == CASE l = "rules" -> RulesEvery
              [] l = "poll" -> PollEvery
              [] OTHER -> BackupEvery

-----------------------------------------------------------------------------
(* worker_lease.py                                                          *)

NoLease == [holder |-> NoProc, left |-> -1]

Fresh == lease.left > 0
Expired == lease.left < 0

\* Mutant: a lease is up for grabs however fresh.
MayTakeFresh(p) == TRUE

\* Mutant: the lease of a dead process is never taken over.
MayTakeFree(p) == p \in Workers \/ lease.holder \in {NoProc, p}

\* acquire: a dedicated process always takes it, others take a free one
MayTake(p) == p \in Workers \/ lease.holder \in {NoProc, p} \/ Expired

\* Mutant: off by one.
TakenLonger(p) == [holder |-> p, left |-> TTL + 1]

\* Mutant: a renewal is not written through.
TakenOnce(p) == IF lease.holder = p /\ Fresh THEN lease ELSE [holder |-> p, left |-> TTL]

Taken(p) == [holder |-> p, left |-> TTL]

\* release: WHERE holder = self
Released(p) == IF lease.holder = p THEN NoLease ELSE lease

-----------------------------------------------------------------------------
(* The loops                                                                *)

Due(p, l) == p \in up /\ l \in LoopsOf(p) /\ <<p, l>> \notin busy /\ wait[p][l] <= 0

Sleep(p, l) == wait' = [wait EXCEPT ![p][l] = Every(l)]

\* acquire said yes: a turn of probes is over at once, any other takes its time
Work(p, l) ==
    /\ told' = told \cup {p}
    /\ IF l = "poll" THEN Sleep(p, l) /\ UNCHANGED busy
                     ELSE busy' = busy \cup {<<p, l>>} /\ UNCHANGED wait
    /\ dark' = IF l = "rules" THEN 0 ELSE dark

TurnOwned(p, l) ==
    /\ Due(p, l) /\ MayTake(p)
    /\ lease' = Taken(p)
    /\ Work(p, l)
    /\ UNCHANGED <<up, faulted>>

\* Mutant: fail-closed, an exception counts as no.
TurnFailedQuiet(p, l) ==
    /\ Due(p, l)
    /\ faulted' = TRUE
    /\ told' = told \ {p}
    /\ Sleep(p, l)
    /\ UNCHANGED <<lease, up, busy, dark>>

\* fail-open: an exception counts as yes
TurnFailed(p, l) ==
    /\ Due(p, l)
    /\ faulted' = TRUE
    /\ Work(p, l)
    /\ UNCHANGED <<lease, up>>

TurnDenied(p, l) ==
    /\ Due(p, l) /\ ~MayTake(p)
    /\ told' = told \ {p}
    /\ Sleep(p, l)
    /\ UNCHANGED <<lease, up, busy, dark, faulted>>

TurnOver(p, l) ==
    /\ <<p, l>> \in busy
    /\ busy' = busy \ {<<p, l>>}
    /\ Sleep(p, l)
    /\ UNCHANGED <<lease, up, told, dark, faulted>>

\* How long the rules may go without an evaluation; dark counts one second more.
Longest == TTL + RulesEvery + Lag

Working == \E p \in up : <<p, "rules">> \in busy

\* One second. No loop oversleeps by more than Lag.
Second ==
    /\ \A p \in up : \A l \in LoopsOf(p) : <<p, l>> \in busy \/ wait[p][l] > -Lag
    /\ lease' = [lease EXCEPT !.left = IF @ < 0 THEN @ ELSE @ - 1]
    /\ wait' = [p \in Procs |-> [l \in Loops |->
                  IF p \in up /\ l \in LoopsOf(p) /\ <<p, l>> \notin busy
                  THEN wait[p][l] - 1 ELSE wait[p][l]]]
    /\ dark' = IF Working \/ Gateways \cap up = {} THEN 0
               ELSE IF dark > Longest THEN dark ELSE dark + 1
    /\ UNCHANGED <<up, told, busy, faulted>>

-----------------------------------------------------------------------------
(* Processes                                                                *)

Peers(p) == IF p \in Gateways THEN Gateways ELSE Workers

\* One container per role; every loop takes its first turn at once.
Start(p) ==
    /\ Peers(p) \cap up = {}
    /\ up' = up \cup {p}
    /\ wait' = [wait EXCEPT ![p] = [l \in Loops |-> 0]]
    /\ dark' = 0
    /\ UNCHANGED <<lease, told, busy, faulted>>

Down(p) ==
    /\ p \in up
    /\ up' = up \ {p}
    /\ told' = told \ {p}
    /\ busy' = {b \in busy : b[1] # p}
    /\ wait' = [wait EXCEPT ![p] = [l \in Loops |-> 0]]
    /\ dark' = 0
    /\ UNCHANGED faulted

\* SIGKILL, power
Kill(p) == Down(p) /\ UNCHANGED lease

\* SIGTERM: the loops are cancelled, the lease is handed back
Stop(p) == Down(p) /\ lease' = Released(p)

-----------------------------------------------------------------------------
Init ==
    /\ lease = NoLease
    /\ up = {} /\ told = {} /\ busy = {}
    /\ wait = [p \in Procs |-> [l \in Loops |-> 0]]
    /\ dark = 0 /\ faulted = FALSE

Turn(p, l) == TurnOwned(p, l) \/ TurnFailed(p, l) \/ TurnDenied(p, l)

Next ==
    \/ Second
    \/ \E p \in Procs, l \in Loops : Turn(p, l) \/ TurnOver(p, l)
    \/ \E p \in Procs : Start(p) \/ Kill(p) \/ Stop(p)

Spec == Init /\ [][Next]_vars

\* Time passes, loops that are due take their turn, turns end, and docker
\* restarts the gateway. Nobody promises that a worker runs.
FairSpec ==
    /\ Spec
    /\ WF_vars(Second)
    /\ \A g \in Gateways : WF_vars(Start(g))
    /\ \A p \in Procs, l \in Loops : WF_vars(Turn(p, l)) /\ WF_vars(TurnOver(p, l))

-----------------------------------------------------------------------------
\* Every variable has its type; only running processes own or do anything.
TypeOK ==
    /\ lease \in [holder: Procs \cup {NoProc}, left: -1 .. TTL]
    /\ up \subseteq Procs
    /\ told \subseteq up
    /\ busy \subseteq Procs \X Loops
    /\ \A b \in busy : b[1] \in up /\ b[2] \in LoopsOf(b[1])
    /\ wait \in [Procs -> [Loops -> Int]]
    /\ \A p \in Procs : \A l \in Loops : -Lag <= wait[p][l] /\ wait[p][l] <= Every(l)
    /\ dark \in Nat
    /\ faulted \in BOOLEAN

\* Until acquire fails, a process that renews never loses the duty by running
\* late: as long as it is up, the lease it holds is fresh (the TTL outlasts the period of the
\* loops with a short turn and the lag, however long the other turns take).
\* JobQueue's LeaseExpires relies on it.
HolderNeverLapses ==
    ~faulted => \A p \in told : lease.holder = p => Fresh

\* Until acquire fails, a dedicated worker keeps the gateway out from its first
\* turn until it goes down: the gateway starts no work while such a worker is up.
GatewayYields ==
    [][\A g \in Gateways, l \in Loops :
         (<<g, l>> \in busy' /\ <<g, l>> \notin busy /\ ~faulted') => Workers \cap told = {}]_vars

\* "The gateway silently resumes the duty": whoever dies, with or without
\* handing the lease back, the rules are evaluated again within the TTL and one
\* period of the loop (the second that the comparison adds to the TTL included).
TakeoverInTime == dark <= Longest

\* Whatever happened before, once the processes of S stay up alone, somebody
\* works at loop l again and again.
RunsOnceSettled(S, l) == <>[](up = S) => []<>(\E p \in S : <<p, l>> \in busy)

\* No duty goes silent: rules are evaluated wherever a gateway is, whether the
\* worker is there, died holding the lease or never existed, and with a failing
\* database; the loops that only the gateway has (backups, updates, billing) run
\* once it is alone.
DutiesRun ==
    \A S \in SUBSET Procs : Gateways \cap S # {} =>
        /\ RunsOnceSettled(S, "rules")
        /\ S \subseteq Gateways => RunsOnceSettled(S, "backup")

\* They run wherever a gateway does.
BackupRuns ==
    \A S \in SUBSET Procs : Gateways \cap S # {} => RunsOnceSettled(S, "backup")
=============================================================================
