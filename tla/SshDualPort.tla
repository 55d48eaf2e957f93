---------------------------- MODULE SshDualPort ----------------------------
(***************************************************************************)
(* The deploy pipeline moves a server's SSH port from afar.               *)
(*                                                                         *)
(*   services/pipeline.py     steps 6 to 9: configure both ports, reboot,  *)
(*                            look which answers, clean up or roll back    *)
(*   services/ssh_manager.py  a script is piped to "bash -s"               *)
(*                                                                         *)
(* Two actors: the server, which runs what is left of a script line by     *)
(* line and goes down and up, and the pipeline, which only sees whether a  *)
(* port answers. A script outlives the connection it came by, until it     *)
(* writes its next line of output. fail2ban, which does not decide what    *)
(* is open, and the steps before and after are left out.                   *)
(***************************************************************************)
EXTENDS Integers, Sequences, FiniteSets

CONSTANTS
    Ports,        \* TCP ports the server may have for SSH
    DefaultPort,  \* the port of an sshd_config without a Port line (22)
    Forms,        \* what the form may say: <<current_ssh_port, new_ssh_port>>
    Odds,         \* unlikely events to admit: see OddEvents
    MaxDeploys,   \* bound: deploys of this server
    MaxCuts       \* bound: reboots nobody asked for

\* What the run leaves out, one at a time:
\*   "lostStatus"  the exit status comes after the end of the output and is
\*                 read as 0 (run_script does not wait for it)
\*   "powerCut"    the power goes between two lines that write sshd_config
\*   "upgrade"     step 2 upgrades openssh-server, which restarts sshd
\*   "lineFails"   a line of the dual-port configuration has no effect
OddEvents == {"lostStatus", "powerCut", "upgrade", "lineFails"}

ASSUME PortsAssumption == /\ DefaultPort \in Ports
                          /\ Forms \subseteq Ports \X Ports
ASSUME OddsAssumption == Odds \subseteq OddEvents
ASSUME BoundsAssumption == MaxDeploys \in Nat /\ MaxCuts \in Nat

VARIABLES
    srv,      \* the server: sshd_config, sshd, UFW
    dead,     \* ports that never answer (provider, SELinux, socket unit)
    power,    \* "up" or "down"
    going,    \* a reboot has been asked for and has not begun
    script,   \* lines the shell on the server has still to run
    rc,       \* its exit status
    pc,       \* what the pipeline does
    form,     \* the form of the running or last deploy
    verdict,  \* how the last deploy ended
    deploys,  \* deploys so far
    cuts,     \* reboots nobody asked for so far
    cold,     \* history: the ports the last start of the server brought up
    skipped,  \* history: lines of the last deploy's scripts that had no effect
    kept      \* history: ports that a failed line left in sshd_config

failures == <<skipped, kept>>
server   == <<srv, dead, power, going, script, rc, cuts, cold, failures>>
pipeline == <<pc, form, verdict, deploys>>
vars     == <<server, pipeline>>

old == form[1]
new == form[2]

-----------------------------------------------------------------------------
(* The server                                                              *)

Server == [conf: SUBSET Ports,    \* Port lines of sshd_config and drop-ins
           valid: BOOLEAN,        \* what "sshd -t" would say of the rest of it
           listen: SUBSET Ports,  \* where sshd accepts connections
           ufw: {"absent", "off", "on"},
           allowed: SUBSET Ports, \* ports with an allow rule for everybody
           trusted: BOOLEAN]      \* UFW lets the panel's address in everywhere

Effective(conf) == IF conf = {} THEN {DefaultPort} ELSE conf

\* The ports an sshd started now would serve.
Served(s) == IF s.valid THEN Effective(s.conf) \ dead ELSE {}

\* Anybody may reach the port; the panel may be let in where others are not.
Open(s, p) == s.ufw = "on" => p \in s.allowed
Answers(p) == p \in srv.listen /\ (Open(srv, p) \/ srv.trusted)

\* One line of a script, when it has its effect.
Ran(s, line) ==
    CASE line[1] = "allow"   -> IF s.ufw = "absent" THEN s
                                ELSE [s EXCEPT !.allowed = @ \cup {line[2]}]
      [] line[1] = "enable"  -> [s EXCEPT !.ufw = IF @ = "absent" THEN @ ELSE "on"]
      [] line[1] = "delete"  -> [s EXCEPT !.allowed = @ \ {line[2]}]
      [] line[1] = "clear"   -> [s EXCEPT !.conf = {}]
      [] line[1] = "add"     -> [s EXCEPT !.conf = @ \cup {line[2]}]
      [] line[1] = "drop"    -> [s EXCEPT !.conf = @ \ {line[2]}]
      [] line[1] = "restart" -> [s EXCEPT !.listen = Served(s)]
      [] line[1] = "trust"   -> [s EXCEPT !.trusted = s.ufw # "absent"]
      [] OTHER               -> s

\* Mutant: sshd is restarted at once, so the reboot proves nothing.
ConfigScriptRestarts ==
    << <<"allow", old>>, <<"allow", new>>, <<"enable">>,
       <<"clear">>, <<"add", old>>, <<"add", new>>, <<"check">>, <<"restart">> >>

\* _ssh_dualport_config_script: "check" is the sshd -t that exits with 1
ConfigScript ==
    << <<"allow", old>>, <<"allow", new>>, <<"enable">>,
       <<"clear">>, <<"add", old>>, <<"add", new>>, <<"check">> >>

\* _reboot_script
RebootScript == << <<"reboot">> >>

\* Mutant: sshd is not restarted and keeps serving the old port.
CleanupScriptLazy == << <<"drop", old>>, <<"delete", old>> >>

\* _ssh_cleanup_newport_script
CleanupScript == << <<"drop", old>>, <<"delete", old>>, <<"restart">> >>

\* _ssh_rollback_to_old_script
RollbackScript == << <<"drop", new>>, <<"delete", new>>, <<"restart">> >>

\* _whitelist_script
WhitelistScript == << <<"trust">> >>

\* Between these lines there is no output and a few milliseconds.
Writing == script # <<>> /\ Head(script)[1] = "add"

\* The shell runs its next line. sshd -t rejects a configuration that is not
\* valid, and sometimes one that is (no /run/sshd where a socket starts sshd).
RunLine ==
    /\ power = "up" /\ script # <<>>
    /\ srv' = Ran(srv, Head(script))
    /\ going' = (going \/ Head(script)[1] = "reboot")
    /\ \/ /\ Head(script)[1] = "check" => srv.valid
          /\ script' = Tail(script)
          /\ UNCHANGED rc
       \/ /\ Head(script)[1] = "check"
          /\ script' = <<>> /\ rc' = 1
    /\ UNCHANGED <<dead, power, cuts, cold, failures, pipeline>>

\* Every line but "check" ends in "|| true" or runs in a shell without "set -e",
\* and the scripts of clean-up, rollback and whitelist are sent with check=False:
\* one of their lines that fails is passed over.
Unchecked == {"drop", "delete", "restart", "trust"}
MayFail(line) ==
    \/ line[1] \in Unchecked
    \/ line[1] \in {"allow", "enable", "clear", "add"} /\ "lineFails" \in Odds

\* The next line fails and changes nothing; the shell and the pipeline go on.
SkipLine ==
    /\ power = "up" /\ script # <<>> /\ MayFail(Head(script))
    /\ script' = Tail(script)
    /\ skipped' = skipped \cup {Head(script)[1]}
    /\ kept' = IF Head(script)[1] = "drop" THEN kept \cup {Head(script)[2]} ELSE kept
    /\ UNCHANGED <<srv, dead, power, going, rc, cuts, cold, pipeline>>

-----------------------------------------------------------------------------
(* The pipeline                                                            *)

Stages == {"idle", "early", "config", "reboot", "wait", "verify", "cleanup",
           "whitelist", "late", "tryold", "rollback"}

\* Stages with a session whose loss raises out of the current await.
Attached == {"early", "config", "reboot", "cleanup", "whitelist", "late", "rollback"}

Enter(stage) == pc' = stage /\ UNCHANGED <<form, verdict, deploys>>

Run(lines, stage) ==
    /\ script' = lines /\ rc' = 0
    /\ Enter(stage)
    /\ UNCHANGED <<srv, dead, power, going, cuts, cold, failures>>

End(outcome) ==
    /\ pc' = "idle" /\ verdict' = outcome
    /\ UNCHANGED <<form, deploys>>

\* The script of this stage has been run to its end.
Finished(stage) == pc = stage /\ script = <<>>

\* run_pipeline connects to the current port. A deploy takes minutes to get
\* here: what an earlier one left running has ended by then.
Deploy(f) ==
    /\ pc = "idle" /\ script = <<>> /\ ~going /\ power = "up"
    /\ deploys < MaxDeploys
    /\ Answers(f[1])
    /\ pc' = "early" /\ form' = f /\ verdict' = "running"
    /\ deploys' = deploys + 1
    /\ skipped' = {}
    /\ UNCHANGED <<srv, dead, power, going, script, rc, cuts, cold, kept>>

\* Steps 2 to 5 leave the ports alone, but for an upgrade of openssh-server.
SystemUpdated ==
    {srv} \cup {s \in {Ran(srv, <<"restart">>)} : srv.valid /\ "upgrade" \in Odds}

\* step 6: the dual-port configuration ...
Configure ==
    /\ pc = "early"
    /\ srv' \in SystemUpdated
    /\ script' = ConfigScript /\ rc' = 0
    /\ Enter("config")
    /\ UNCHANGED <<dead, power, going, cuts, cold, failures>>

\* Mutant: the exit status of the configuration is not checked.
AskRebootUnchecked == Finished("config") /\ Run(RebootScript, "reboot")

\* ... and, unless sshd -t said no (check=True raises), the reboot
AskReboot ==
    /\ Finished("config")
    /\ rc = 0 \/ "lostStatus" \in Odds
    /\ Run(RebootScript, "reboot")

ConfigRejected ==
    /\ Finished("config") /\ rc = 1
    /\ End("failed")
    /\ UNCHANGED server

\* session 1 is closed; step 7 sleeps 20 s and polls for 90 s
RebootSent == Finished("reboot") /\ Enter("wait") /\ UNCHANGED server

\* Any port that answers counts, also on a server that has not gone down yet.
BackOnline ==
    /\ pc = "wait" /\ (Answers(new) \/ Answers(old))
    /\ Enter("verify")
    /\ UNCHANGED server

NotBack ==
    /\ pc = "wait" /\ ~(Answers(new) \/ Answers(old))
    /\ End("lockout")
    /\ UNCHANGED server

\* step 8: a full login at the new port, and step 9: drop the old one
LoginNew ==
    /\ pc = "verify" /\ Answers(new)
    /\ Run(CleanupScript, "cleanup")

\* 12 s are over: the port is dead, or the server is slow
LoginNewFails == pc = "verify" /\ Enter("tryold") /\ UNCHANGED server

LoginOld ==
    /\ pc = "tryold" /\ Answers(old)
    /\ Run(RollbackScript, "rollback")

LoginOldFails == pc = "tryold" /\ End("lockout") /\ UNCHANGED server

RolledBack == Finished("rollback") /\ End("rolledback") /\ UNCHANGED server

\* _whitelist, skipped when the panel does not know its own address
Whitelist ==
    \/ Finished("cleanup") /\ Run(WhitelistScript, "whitelist")
    \/ Finished("cleanup") /\ Enter("late") /\ UNCHANGED server
    \/ Finished("whitelist") /\ Enter("late") /\ UNCHANGED server

\* steps 10 to 14 decide the verdict
LateSteps ==
    /\ pc = "late"
    /\ \E outcome \in {"success", "failed"} : End(outcome)
    /\ UNCHANGED server

\* The connection breaks, the operator stops the deploy or its process dies:
\* the shell goes on, or dies at its next line of output.
Interrupt ==
    /\ pc # "idle" /\ End("failed")
    /\ \/ UNCHANGED script
       \/ ~Writing /\ script' = <<>>
    /\ UNCHANGED <<srv, dead, power, going, rc, cuts, cold, failures>>

-----------------------------------------------------------------------------
(* Power                                                                   *)

Down ==
    /\ power' = "down" /\ going' = FALSE
    /\ script' = <<>>
    /\ srv' = [srv EXCEPT !.listen = {}]
    /\ UNCHANGED <<dead, rc, cold, failures>>

\* Sessions break; the one that sent the reboot may have been closed in time.
Detached ==
    \/ pc \in Attached /\ End("failed")
    \/ pc = "reboot" /\ Enter("wait")
    \/ pc \notin Attached /\ UNCHANGED pipeline

\* The reboot begins: at once, after the pipeline began to look, or never.
GoDown == power = "up" /\ going /\ Down /\ Detached /\ UNCHANGED cuts

\* A reboot nobody asked for, of a server that would survive one by itself.
PowerCut ==
    /\ power = "up" /\ cuts < MaxCuts
    /\ srv.valid /\ (Writing => "powerCut" \in Odds)
    /\ cuts' = cuts + 1
    /\ Down /\ Detached

\* UFW and sshd are started from what is on disk.
ComeUp ==
    /\ power = "down"
    /\ power' = "up"
    /\ srv' = [srv EXCEPT !.listen = Served(srv)]
    /\ cold' = Served(srv)
    /\ UNCHANGED <<dead, going, script, rc, cuts, failures, pipeline>>

-----------------------------------------------------------------------------
\* A server somebody can log in to, with or without a Port line and a firewall.
Init ==
    /\ \E p \in Ports, conf \in SUBSET Ports, ok, t \in BOOLEAN,
          u \in {"absent", "off", "on"} :
          /\ dead \in SUBSET (Ports \ {p})
          /\ Effective(conf) = {p}
          /\ srv = [conf |-> conf, valid |-> ok, listen |-> {p}, ufw |-> u,
                    allowed |-> IF u = "on" THEN {p} ELSE {},
                    trusted |-> t /\ u # "absent"]
          /\ cold = {p}
    /\ power = "up" /\ going = FALSE
    /\ script = <<>> /\ rc = 0
    /\ pc = "idle" /\ form \in Forms /\ verdict = "none"
    /\ deploys = 0 /\ cuts = 0
    /\ skipped = {} /\ kept = {}

Pipeline ==
    \/ \E f \in Forms : Deploy(f)
    \/ Configure \/ AskReboot \/ ConfigRejected \/ RebootSent
    \/ BackOnline \/ NotBack
    \/ LoginNew \/ LoginNewFails \/ LoginOld \/ LoginOldFails \/ RolledBack
    \/ Whitelist \/ LateSteps \/ Interrupt

Next == RunLine \/ SkipLine \/ Pipeline \/ GoDown \/ PowerCut \/ ComeUp

Spec == Init /\ [][Next]_vars

-----------------------------------------------------------------------------
LineKinds == {"allow", "enable", "clear", "add", "drop", "delete", "restart", "trust"}

\* Every variable has its type; a task is open exactly while a stage runs.
TypeOK ==
    /\ srv \in Server /\ dead \subseteq Ports
    /\ power \in {"up", "down"} /\ going \in BOOLEAN
    /\ Len(script) <= Len(ConfigScript) /\ rc \in {0, 1}
    /\ pc \in Stages /\ form \in Forms
    /\ verdict \in {"none", "running", "success", "rolledback", "lockout", "failed"}
    /\ pc # "idle" <=> verdict = "running"
    /\ deploys \in 0 .. MaxDeploys /\ cuts \in 0 .. MaxCuts
    /\ cold \subseteq Ports
    /\ skipped \subseteq LineKinds /\ kept \subseteq Ports

\* The move never takes the server away from its owner: whenever it is up,
\* sshd serves a port that UFW leaves open to everybody, and it would after a
\* reboot at this moment, wherever a deploy was interrupted, in the middle of a
\* script included ("abort BEFORE the reboot", allow before enable, drop one
\* port only after a login at the other).
NeverLockedOut ==
    /\ power = "up" => \E p \in srv.listen : Open(srv, p)
    /\ srv.valid /\ ~Writing => \E p \in Served(srv) : Open(srv, p)

\* The old port is given up only for a port that a start of the whole system
\* has brought up: no answer of an sshd that was merely restarted counts, not
\* even when the poll meets the server before it went down ("REBOOT to prove
\* the config survives an OS cold start"). But for a port that an earlier
\* rollback failed to drop: its restart may have brought it up.
ColdStartProven ==
    [][\A p \in srv.conf \ srv'.conf :
          (pc = "cleanup" /\ p = old) => new \in cold \cup kept]_vars

\* The port a verdict names: success the new one, the rollback's message the old.
Named(p) == \/ verdict = "success" /\ p = new
            \/ verdict = "rolledback" /\ p = old

\* What a deploy says of the port is true, also after a reboot and whatever line
\* of the clean-up failed: SSH is at the port it names, open to everybody. SSH is
\* nowhere else unless the line failed that drops the other port, or, until the
\* next start of sshd, the one that restarts it.
VerdictIsTrue ==
    \A p \in Ports : Named(p) =>
        /\ p \in srv.conf /\ Open(srv, p)
        /\ power = "up" => p \in srv.listen
        /\ "drop" \notin skipped => srv.conf = {p}
        /\ power = "up" /\ skipped \cap {"drop", "restart"} = {} => srv.listen = {p}

\* What the scripts say in their last line ("SSH только на порту"): the verdict's
\* port and no other. It does not hold: that line comes, and the task reports its
\* success, whether or not the lines before it had an effect.
OnlyThePort ==
    \A p \in Ports : Named(p) =>
        /\ srv.conf = {p}
        /\ power = "up" => srv.listen = {p}
=============================================================================
