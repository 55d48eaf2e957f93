-------------------------- MODULE SshDualPortProofs --------------------------
(***************************************************************************)
(* The move of the SSH port, for any ports, any form and any number of     *)
(* deploys and power cuts. The parts of the invariant follow what is left  *)
(* of a script, since a script outlives the pipeline that sent it:         *)
(*                                                                         *)
(*   Shell, Stage   what the server looks like between two lines, and what *)
(*                  the pipeline may take for granted in a stage           *)
(*   Valid          nothing restarts sshd before "sshd -t" said yes        *)
(*   Reachable      an open port now, and after a reboot                   *)
(*   Warm           sshd serves no port the last start did not bring up,   *)
(*                  but for one that a failed line left in sshd_config       *)
(*                                                                         *)
(* Each odd event and the form that moves a port to itself break some of   *)
(* them: every theorem says which ones it does without.                    *)
(***************************************************************************)
EXTENDS SshDualPort, SequenceTheorems, TLAPS

\* The form asks for another port than the current one (nothing in the code does).
DistinctPorts == \A f \in Forms : f[1] # f[2]

\* UFW will let everybody in at the port, on or off.
Opened(p) == srv.ufw = "absent" \/ p \in srv.allowed

\* What is left of ConfigScript after 1, 2, ... lines.
Config1 == << <<"allow", new>>, <<"enable">>, <<"clear">>, <<"add", old>>,
              <<"add", new>>, <<"check">> >>
Config2 == << <<"enable">>, <<"clear">>, <<"add", old>>, <<"add", new>>, <<"check">> >>
Config3 == << <<"clear">>, <<"add", old>>, <<"add", new>>, <<"check">> >>
Config4 == << <<"add", old>>, <<"add", new>>, <<"check">> >>
Config5 == << <<"add", new>>, <<"check">> >>
Config6 == << <<"check">> >>
Configs == {ConfigScript, Config1, Config2, Config3, Config4, Config5, Config6}

\* The same for a script that gives up one port.
Drop1(p) == << <<"delete", p>>, <<"restart">> >>
Drop2 == << <<"restart">> >>
Cleanups == {CleanupScript, Drop1(old), Drop2}
Rollbacks == {RollbackScript, Drop1(new), Drop2}

Scripts == Configs \cup Cleanups \cup Rollbacks \cup {RebootScript, WhitelistScript, <<>>}

Typed == TypeOK /\ script \in Scripts

\* The firewall lets everybody in at both ports.
BothOpened == Opened(old) /\ Opened(new) /\ srv.ufw # "off"

\* Both ports are configured: what the reboot is to prove.
Ready == srv.conf = {old, new} /\ BothOpened

ConfigShell ==
    /\ ~going /\ rc = 0
    /\ script \in {Config1, Config2} => Opened(old)
    /\ script \in {Config2} => Opened(new)
    /\ script \in {Config3, Config4, Config5, Config6} => BothOpened
    /\ script = Config4 => srv.conf = {}
    /\ script = Config5 => srv.conf = {old}
    /\ script = Config6 => srv.conf = {old, new}

\* The other port is out of the configuration, unless its line failed.
Dropped(keep) ==
    /\ keep \in srv.conf /\ srv.conf \subseteq {old, new}
    /\ srv.conf \ {keep} \subseteq kept
    /\ "drop" \notin skipped => srv.conf = {keep}

\* One port is kept, the other one is given up.
DropShell(keep, full, half) ==
    /\ keep \in srv.listen
    /\ script = full => Ready
    /\ script = half => Dropped(keep) /\ BothOpened
    /\ script = Drop2 => Dropped(keep) /\ Opened(keep)

Shell ==
    \/ script = <<>>
    \/ script \in Configs /\ ConfigShell
    \/ script = RebootScript /\ Ready
    \/ script \in Cleanups /\ DropShell(new, CleanupScript, Drop1(old))
    \/ script \in Rollbacks /\ DropShell(old, RollbackScript, Drop1(new))
    \/ script = WhitelistScript

\* Where the pipeline is, and what was done before.
Stage ==
    /\ pc \in Attached => power = "up"
    /\ pc = "early" => script = <<>> /\ ~going
    /\ pc = "config" => /\ ~going
                        /\ script \in Configs \cup {<<>>}
                        /\ script = <<>> => Ready
    /\ pc = "reboot" => script \in {RebootScript, <<>>} /\ Ready
    /\ pc \in {"wait", "verify", "tryold"} => script = <<>> /\ Ready
    /\ pc = "cleanup" => \/ script = <<>>
                         \/ /\ script \in Cleanups
                            /\ DropShell(new, CleanupScript, Drop1(old))
    /\ pc = "whitelist" => script \in {WhitelistScript, <<>>}
    /\ pc = "late" => script = <<>>
    /\ pc = "rollback" => \/ script = <<>>
                          \/ /\ script \in Rollbacks
                             /\ DropShell(old, RollbackScript, Drop1(new))

\* A server whose firewall is off has been left as it was found.
Untouched ==
    srv.ufw = "off" =>
        \E p \in Ports \ dead :
            /\ Effective(srv.conf) = {p} /\ srv.listen \subseteq {p}
            /\ pc # "idle" \/ script # <<>> => p = old

Alive ==
    /\ srv.listen \cap dead = {}
    /\ power = "down" => script = <<>> /\ srv.listen = {} /\ ~going
    /\ pc # "idle" \/ script # <<>> => old \notin dead

Remote == Alive /\ Shell /\ Stage /\ Untouched

SettledAt(p) ==
    /\ Dropped(p) /\ Opened(p) /\ p \notin dead
    /\ power = "up" =>
          /\ p \in srv.listen
          /\ skipped \cap {"drop", "restart"} = {} => srv.listen = {p}

Valid ==
    /\ \/ going \/ power = "down"
       \/ pc \notin {"idle", "early", "config"}
       \/ pc = "config" /\ script = <<>> /\ rc = 0
       \/ script # <<>> /\ script \notin Configs
       \/ verdict \in {"success", "rolledback"}
       => srv.valid
    /\ \/ pc = "cleanup" /\ script = <<>>
       \/ pc \in {"whitelist", "late"}
       \/ verdict = "success"
       => SettledAt(new)
    /\ \/ pc = "rollback" /\ script = <<>>
       \/ verdict = "rolledback"
       => SettledAt(old)
    /\ verdict \in {"success", "rolledback"} => script = <<>>

Reachable == NeverLockedOut

Warm == srv.listen \subseteq cold \cup kept

-----------------------------------------------------------------------------
(* Scripts and lines                                                        *)

LEMMA Tails ==
    /\ Tail(ConfigScript) = Config1 /\ Tail(Config1) = Config2 /\ Tail(Config2) = Config3
    /\ Tail(Config3) = Config4 /\ Tail(Config4) = Config5 /\ Tail(Config5) = Config6
    /\ Tail(Config6) = <<>>
    /\ Tail(CleanupScript) = Drop1(old) /\ Tail(RollbackScript) = Drop1(new)
    /\ Tail(Drop1(old)) = Drop2 /\ Tail(Drop1(new)) = Drop2
    /\ Tail(Drop2) = <<>> /\ Tail(RebootScript) = <<>> /\ Tail(WhitelistScript) = <<>>
  BY DEF ConfigScript, Config1, Config2, Config3, Config4, Config5, Config6,
         CleanupScript, RollbackScript, Drop1, Drop2, RebootScript, WhitelistScript

LEMMA Heads ==
    /\ Head(ConfigScript) = <<"allow", old>> /\ Head(Config1) = <<"allow", new>>
    /\ Head(Config2) = <<"enable">> /\ Head(Config3) = <<"clear">>
    /\ Head(Config4) = <<"add", old>> /\ Head(Config5) = <<"add", new>>
    /\ Head(Config6) = <<"check">>
    /\ Head(CleanupScript) = <<"drop", old>> /\ Head(RollbackScript) = <<"drop", new>>
    /\ Head(Drop1(old)) = <<"delete", old>> /\ Head(Drop1(new)) = <<"delete", new>>
    /\ Head(Drop2) = <<"restart">> /\ Head(RebootScript) = <<"reboot">>
    /\ Head(WhitelistScript) = <<"trust">>
  BY DEF ConfigScript, Config1, Config2, Config3, Config4, Config5, Config6,
         CleanupScript, RollbackScript, Drop1, Drop2, RebootScript, WhitelistScript

LEMMA Lens ==
    /\ Len(ConfigScript) = 7 /\ Len(Config1) = 6 /\ Len(Config2) = 5 /\ Len(Config3) = 4
    /\ Len(Config4) = 3 /\ Len(Config5) = 2 /\ Len(Config6) = 1
    /\ Len(CleanupScript) = 3 /\ Len(RollbackScript) = 3
    /\ Len(Drop1(old)) = 2 /\ Len(Drop1(new)) = 2
    /\ Len(Drop2) = 1 /\ Len(RebootScript) = 1 /\ Len(WhitelistScript) = 1
    /\ Len(<<>>) = 0
  BY DEF ConfigScript, Config1, Config2, Config3, Config4, Config5, Config6,
         CleanupScript, RollbackScript, Drop1, Drop2, RebootScript, WhitelistScript

LEMMA ShortScripts == \A s \in Scripts : Len(s) <= Len(ConfigScript)
<1> SUFFICES ASSUME NEW s \in Scripts PROVE Len(s) <= Len(ConfigScript)
  OBVIOUS
<1>1. Len(s) \in {0, 1, 2, 3, 4, 5, 6, 7}
  BY Lens DEF Scripts, Configs, Cleanups, Rollbacks
<1>2. \A n \in {0, 1, 2, 3, 4, 5, 6, 7} : n <= 7
  OBVIOUS
<1>3. Len(ConfigScript) = 7
  BY Lens
<1> QED BY <1>1, <1>2, <1>3, Zenon

\* What a line does to the server.
LEMMA Lines ==
    ASSUME NEW s \in Server, NEW p \in Ports
    PROVE  /\ Ran(s, <<"allow", p>>) =
                IF s.ufw = "absent" THEN s ELSE [s EXCEPT !.allowed = s.allowed \cup {p}]
           /\ Ran(s, <<"enable">>) =
                [s EXCEPT !.ufw = IF s.ufw = "absent" THEN s.ufw ELSE "on"]
           /\ Ran(s, <<"delete", p>>) = [s EXCEPT !.allowed = s.allowed \ {p}]
           /\ Ran(s, <<"clear">>) = [s EXCEPT !.conf = {}]
           /\ Ran(s, <<"add", p>>) = [s EXCEPT !.conf = s.conf \cup {p}]
           /\ Ran(s, <<"drop", p>>) = [s EXCEPT !.conf = s.conf \ {p}]
           /\ Ran(s, <<"restart">>) = [s EXCEPT !.listen = Served(s)]
           /\ Ran(s, <<"trust">>) = [s EXCEPT !.trusted = s.ufw # "absent"]
           /\ Ran(s, <<"check">>) = s
           /\ Ran(s, <<"reboot">>) = s
  BY DEF Ran

-----------------------------------------------------------------------------
(* Types                                                                    *)

LEMMA Ports2 == TypeOK => old \in Ports /\ new \in Ports /\ DefaultPort \in Ports
  BY PortsAssumption DEF TypeOK, old, new

LEMMA ServedPorts == ASSUME NEW s \in Server PROVE Served(s) \subseteq Ports
  BY PortsAssumption DEF Served, Effective, Server

\* The shell runs a line: all lines but "check" are alike.
LEMMA OneLine ==
    ASSUME Typed, RunLine
    PROVE  /\ power = "up" /\ script # <<>> /\ script \in Scripts \ {<<>>}
           /\ UNCHANGED <<dead, power, cuts, cold, pc, form, verdict, deploys, old, new>>
           /\ UNCHANGED <<skipped, kept>>
           /\ srv' = Ran(srv, Head(script))
           /\ going' \in BOOLEAN
           /\ Head(script)[1] # "reboot" /\ ~going => ~going'
           /\ Head(script)[1] # "check" => script' = Tail(script) /\ rc' = rc
           /\ Head(script)[1] = "check" => \/ script' = Tail(script) /\ rc' = rc /\ srv.valid
                                           \/ script' = <<>> /\ rc' = 1
<1>1. /\ power = "up" /\ script # <<>> /\ script \in Scripts \ {<<>>}
      /\ UNCHANGED <<dead, power, cuts, cold, pc, form, verdict, deploys, old, new>>
      /\ UNCHANGED <<skipped, kept>>
      /\ srv' = Ran(srv, Head(script))
  BY DEF Typed, RunLine, pipeline, failures, old, new
<1>2. going' = (going \/ Head(script)[1] = "reboot")
  BY DEF RunLine
<1>3. going' \in BOOLEAN /\ (Head(script)[1] # "reboot" /\ ~going => ~going')
  BY <1>2, Zenon
<1>4. /\ Head(script)[1] # "check" => script' = Tail(script) /\ rc' = rc
      /\ Head(script)[1] = "check" => \/ script' = Tail(script) /\ rc' = rc /\ srv.valid
                                      \/ script' = <<>> /\ rc' = 1
  BY Zenon DEF RunLine
<1> QED BY <1>1, <1>3, <1>4, Zenon

LEMMA LinesTyped ==
    ASSUME NEW s \in Server
    PROVE  /\ \A l \in {<<"enable">>, <<"clear">>, <<"check">>, <<"restart">>,
                        <<"reboot">>, <<"trust">>} : Ran(s, l) \in Server
           /\ \A p \in Ports, k \in {"allow", "add", "drop", "delete"} :
                 Ran(s, <<k, p>>) \in Server
<1>1. DefaultPort \in Ports
  BY PortsAssumption
<1>2. /\ s.conf \subseteq Ports /\ s.valid \in BOOLEAN /\ s.listen \subseteq Ports
      /\ s.ufw \in {"absent", "off", "on"} /\ s.allowed \subseteq Ports
      /\ s.trusted \in BOOLEAN
  BY DEF Server
<1>3. [s EXCEPT !.ufw = IF s.ufw = "absent" THEN s.ufw ELSE "on"] \in Server
  BY <1>2 DEF Server
<1>4. [s EXCEPT !.listen = Served(s)] \in Server
  <2>1. Served(s) \subseteq Ports
    BY ServedPorts
  <2> HIDE DEF Server
  <2>2. Served(s) \in SUBSET Ports
    BY <2>1
  <2> QED BY <2>2 DEF Server
<1>5. [s EXCEPT !.trusted = s.ufw # "absent"] \in Server
  <2> DEFINE t == s.ufw # "absent"
  <2>1. t \in BOOLEAN
    OBVIOUS
  <2> HIDE DEF t
  <2>2. [s EXCEPT !.trusted = t] \in Server
    BY <2>1 DEF Server
  <2> QED BY <2>2 DEF t
<1>6. [s EXCEPT !.conf = {}] \in Server
  BY DEF Server
<1>7. ASSUME NEW p \in Ports
      PROVE  /\ [s EXCEPT !.allowed = s.allowed \cup {p}] \in Server
             /\ [s EXCEPT !.allowed = s.allowed \ {p}] \in Server
             /\ [s EXCEPT !.conf = s.conf \cup {p}] \in Server
             /\ [s EXCEPT !.conf = s.conf \ {p}] \in Server
  <2>1. /\ s.allowed \cup {p} \in SUBSET Ports /\ s.allowed \ {p} \in SUBSET Ports
        /\ s.conf \cup {p} \in SUBSET Ports /\ s.conf \ {p} \in SUBSET Ports
    BY <1>2
  <2> QED BY <2>1 DEF Server
<1>8. \A l \in {<<"enable">>, <<"clear">>, <<"check">>, <<"restart">>,
                <<"reboot">>, <<"trust">>} : Ran(s, l) \in Server
  <2>1. /\ Ran(s, <<"enable">>) \in Server /\ Ran(s, <<"clear">>) \in Server
        /\ Ran(s, <<"check">>) \in Server /\ Ran(s, <<"restart">>) \in Server
        /\ Ran(s, <<"reboot">>) \in Server
    BY <1>1, <1>3, <1>4, <1>6, Lines
  <2>2. Ran(s, <<"trust">>) \in Server
    BY <1>1, <1>5, Lines, Zenon
  <2> QED BY <2>1, <2>2
<1>9. ASSUME NEW p \in Ports, NEW k \in {"allow", "add", "drop", "delete"}
      PROVE  Ran(s, <<k, p>>) \in Server
  <2>1. s \in Server
    OBVIOUS
  <2>2. CASE k = "allow"
    BY <1>7, <2>2, Lines
  <2>3. CASE k = "add"
    BY <1>7, <2>3, Lines
  <2>4. CASE k = "drop"
    BY <1>7, <2>4, Lines
  <2>5. CASE k = "delete"
    BY <1>7, <2>5, Lines
  <2> QED BY <2>2, <2>3, <2>4, <2>5
<1> QED BY <1>8, <1>9

LEMMA InitTyped == Init => Typed
<1> SUFFICES ASSUME Init PROVE Typed
  OBVIOUS
<1>1. srv \in Server /\ dead \subseteq Ports /\ cold \subseteq Ports
  <2>1. PICK p \in Ports, conf \in SUBSET Ports, ok \in BOOLEAN, t \in BOOLEAN,
             u \in {"absent", "off", "on"} :
            /\ dead \in SUBSET (Ports \ {p})
            /\ srv = [conf |-> conf, valid |-> ok, listen |-> {p}, ufw |-> u,
                      allowed |-> IF u = "on" THEN {p} ELSE {},
                      trusted |-> t /\ u # "absent"]
            /\ cold = {p}
    BY ZenonT(40) DEF Init
  <2> DEFINE tr == t /\ u # "absent"
             al == IF u = "on" THEN {p} ELSE {}
  <2>2. tr \in BOOLEAN /\ al \in SUBSET Ports /\ {p} \in SUBSET Ports
    OBVIOUS
  <2>3. srv = [conf |-> conf, valid |-> ok, listen |-> {p}, ufw |-> u,
               allowed |-> al, trusted |-> tr]
    BY <2>1
  <2> HIDE DEF tr, al
  <2>4. srv \in Server
    BY <2>2, <2>3 DEF Server
  <2> QED BY <2>1, <2>4
<1>2. /\ power = "up" /\ going = FALSE /\ script = <<>> /\ rc = 0 /\ pc = "idle"
      /\ form \in Forms /\ verdict = "none" /\ deploys = 0 /\ cuts = 0
  BY DEF Init
<1>3. Len(script) <= Len(ConfigScript) /\ script \in Scripts
  <2>1. script \in Scripts
    BY <1>2 DEF Scripts
  <2> QED BY <2>1, ShortScripts
<1>4. /\ power \in {"up", "down"} /\ going \in BOOLEAN /\ rc \in {0, 1} /\ pc \in Stages
      /\ verdict \in {"none", "running", "success", "rolledback", "lockout", "failed"}
      /\ pc # "idle" <=> verdict = "running"
  BY <1>2 DEF Stages
<1>5. deploys \in 0 .. MaxDeploys /\ cuts \in 0 .. MaxCuts
  BY <1>2, BoundsAssumption
<1>6. skipped \subseteq LineKinds /\ kept \subseteq Ports
  BY DEF Init
<1> QED BY <1>1, <1>2, <1>3, <1>4, <1>5, <1>6, Zenon DEF Typed, TypeOK

LEMMA RunLineTyped == Typed /\ RunLine => Typed'
<1> SUFFICES ASSUME Typed, RunLine PROVE Typed'
  OBVIOUS
<1>1. srv \in Server /\ old \in Ports /\ new \in Ports
  BY Ports2 DEF Typed, TypeOK
<1>2. Ran(srv, Head(script)) \in Server
  <2>1. Served(srv) \subseteq Ports
    BY <1>1, ServedPorts
  <2>2. \/ Head(script) \in {<<"enable">>, <<"clear">>, <<"check">>, <<"restart">>,
                             <<"reboot">>, <<"trust">>}
        \/ \E p \in Ports : Head(script) \in {<<"allow", p>>, <<"add", p>>, <<"drop", p>>,
                                              <<"delete", p>>}
    BY <1>1, OneLine, Heads DEF Scripts, Configs, Cleanups, Rollbacks
  <2> QED BY <1>1, <2>2, LinesTyped
<1>3. script' \in Scripts' /\ Len(script') <= Len(ConfigScript)'
  <2>1. Tail(script) \in Scripts
    BY OneLine, Tails DEF Scripts, Configs, Cleanups, Rollbacks
  <2>2. script' \in Scripts
    BY <2>1, OneLine DEF Scripts
  <2>3. \A s \in Scripts : Len(s) <= Len(ConfigScript)
    BY ShortScripts
  <2>4. Scripts' = Scripts /\ ConfigScript' = ConfigScript
    BY OneLine DEF Scripts, Configs, Cleanups, Rollbacks, ConfigScript, Config1, Config2,
       Config3, Config4, Config5, Config6, CleanupScript, RollbackScript, Drop1, Drop2,
       RebootScript, WhitelistScript
  <2> QED BY <2>2, <2>3, <2>4
<1>4. rc' \in {0, 1} /\ going' \in BOOLEAN /\ srv' \in Server
  BY <1>2, OneLine DEF Typed, TypeOK
<1> QED BY <1>3, <1>4, OneLine DEF Typed, TypeOK, LineKinds

\* A line that fails: the server stays as it is, and the shell goes on.
LEMMA OneSkipped ==
    ASSUME Typed, SkipLine
    PROVE  /\ power = "up" /\ script # <<>> /\ script \in Scripts \ {<<>>}
           /\ UNCHANGED <<srv, dead, power, going, rc, cuts, cold>>
           /\ UNCHANGED <<pc, form, verdict, deploys, old, new>>
           /\ script' = Tail(script) /\ Tail(script) \in Scripts
           /\ skipped' = skipped \cup {Head(script)[1]}
           /\ Head(script)[1] \in LineKinds
           /\ kept \subseteq kept'
           /\ Head(script)[1] = "drop" => kept' = kept \cup {Head(script)[2]}
           /\ Head(script)[1] # "drop" => kept' = kept
           /\ "lineFails" \notin Odds =>
                 script \in Cleanups \cup Rollbacks \cup {WhitelistScript}
<1>1. script \in Scripts \ {<<>>}
  BY DEF Typed, SkipLine
<1>2. Tail(script) \in Scripts
  BY <1>1, Tails DEF Scripts, Configs, Cleanups, Rollbacks
<1>3. Head(script)[1] \in LineKinds
  BY DEF SkipLine, MayFail, Unchecked, LineKinds
<1>4. ASSUME "lineFails" \notin Odds
      PROVE  script \in Cleanups \cup Rollbacks \cup {WhitelistScript}
  <2>1. Head(script)[1] \in Unchecked
    BY <1>4 DEF SkipLine, MayFail
  <2> QED BY <1>1, <2>1, Heads DEF Unchecked, Scripts, Configs
<1> QED BY <1>1, <1>2, <1>3, <1>4 DEF SkipLine, pipeline, old, new

LEMMA SkipTyped == Typed /\ SkipLine => Typed'
<1> SUFFICES ASSUME Typed, SkipLine PROVE Typed'
  OBVIOUS
<1>1. old \in Ports /\ new \in Ports /\ kept \subseteq Ports /\ skipped \subseteq LineKinds
  BY Ports2 DEF Typed, TypeOK
<1>2. kept' \subseteq Ports /\ skipped' \subseteq LineKinds
  <2>1. CASE Head(script)[1] = "drop"
    <3>1. Head(script)[2] \in {old, new}
      BY <2>1, OneSkipped, Heads DEF Scripts, Configs, Cleanups, Rollbacks
    <3> QED BY <1>1, <2>1, <3>1, OneSkipped
  <2>2. CASE Head(script)[1] # "drop"
    BY <1>1, <2>2, OneSkipped
  <2> QED BY <2>1, <2>2
<1>3. script' \in Scripts' /\ Len(script') <= Len(ConfigScript)'
  <2>1. \A s \in Scripts : Len(s) <= Len(ConfigScript)
    BY ShortScripts
  <2>2. Scripts' = Scripts /\ ConfigScript' = ConfigScript
    BY OneSkipped DEF Scripts, Configs, Cleanups, Rollbacks, ConfigScript, Config1, Config2,
       Config3, Config4, Config5, Config6, CleanupScript, RollbackScript, Drop1, Drop2,
       RebootScript, WhitelistScript
  <2> QED BY <2>1, <2>2, OneSkipped
<1> QED BY <1>2, <1>3, OneSkipped DEF Typed, TypeOK, LineKinds

\* Only what changes need be looked at again.
LEMMA TypedStep ==
    ASSUME Typed, srv' \in Server, UNCHANGED dead, power' \in {"up", "down"},
           going' \in BOOLEAN, rc' \in {0, 1},
           \/ script' \in {script, <<>>}
           \/ script' \in {ConfigScript, RebootScript, CleanupScript, RollbackScript,
                           WhitelistScript},
           script = <<>> \/ form' = form,
           pc' \in Stages, form' \in Forms,
           verdict' \in {"none", "running", "success", "rolledback", "lockout", "failed"},
           pc' # "idle" <=> verdict' = "running",
           deploys' \in 0 .. MaxDeploys, cuts' \in 0 .. MaxCuts, cold' \subseteq Ports,
           skipped' \subseteq LineKinds, kept' \subseteq Ports,
           script' # <<>> => form' = form
    PROVE  Typed'
<1>1. script' \in Scripts'
  <2>1. CASE script' = <<>>
    BY <2>1 DEF Scripts
  <2>2. CASE script' # <<>>
    <3>1. Scripts' = Scripts
      BY <2>2 DEF Scripts, Configs, Cleanups, Rollbacks, ConfigScript, Config1, Config2,
       Config3, Config4, Config5, Config6, CleanupScript, RollbackScript, Drop1, Drop2,
       RebootScript, WhitelistScript, old, new
    <3>2. script' \in Scripts
      BY <2>2 DEF Typed, Scripts, Configs, Cleanups, Rollbacks
    <3> QED BY <3>1, <3>2
  <2> QED BY <2>1, <2>2
<1>2. Len(script') <= Len(ConfigScript')
  <2>1. (\A s \in Scripts : Len(s) <= Len(ConfigScript))'
    BY ShortScripts, PTL
  <2> QED BY <1>1, <2>1
<1> QED BY <1>1, <1>2, Zenon DEF Typed, TypeOK

LEMMA NextTyped == Typed /\ [Next]_vars => Typed'
<1> SUFFICES ASSUME Typed, [Next]_vars PROVE Typed'
  OBVIOUS
<1> USE DEF Stages, failures
<1>1. srv \in Server /\ form \in Forms /\ deploys \in 0 .. MaxDeploys /\ cuts \in 0 .. MaxCuts
  BY DEF Typed, TypeOK
<1>2. \A s \in Server : Ran(s, <<"restart">>) \in Server
  BY LinesTyped
<1>3. CASE \E f \in Forms : Deploy(f)
  <2>1. PICK f \in Forms : Deploy(f)
    BY <1>3
  <2> QED BY <2>1, <1>1, BoundsAssumption, TypedStep DEF Deploy, server, Typed, TypeOK
<1>4. CASE Configure
  <2>1. srv' \in Server
    BY <1>1, <1>2, <1>4 DEF Configure, SystemUpdated
  <2> QED BY <2>1, <1>4, TypedStep DEF Configure, Enter, Typed, TypeOK
<1>5. CASE AskReboot \/ LoginNew \/ LoginOld \/ Whitelist
  BY <1>5, TypedStep DEF AskReboot, LoginNew, LoginOld, Whitelist, Run, Enter, server,
     Finished, Typed, TypeOK
<1>6. CASE RebootSent \/ BackOnline \/ LoginNewFails
  BY <1>6, TypedStep DEF RebootSent, BackOnline, LoginNewFails, Enter, server,
     Finished, Typed, TypeOK
<1>7. CASE ConfigRejected \/ NotBack \/ LoginOldFails \/ RolledBack \/ LateSteps
  BY <1>7, TypedStep DEF ConfigRejected, NotBack, LoginOldFails, RolledBack, LateSteps,
     End, server, Typed, TypeOK
<1>8. CASE Interrupt
  BY <1>8, TypedStep DEF Interrupt, End, Typed, TypeOK
<1>9. ASSUME Detached
      PROVE  /\ pc' \in Stages
             /\ pc' # "idle" <=> verdict' = "running"
             /\ verdict' \in {"none", "running", "success", "rolledback", "lockout", "failed"}
             /\ UNCHANGED <<form, deploys>>
  BY <1>9 DEF Detached, End, Enter, pipeline, Typed, TypeOK, Attached
<1>10. [srv EXCEPT !.listen = {}] \in Server
  BY <1>1 DEF Server
<1>11. CASE GoDown
  BY <1>9, <1>10, <1>11, TypedStep DEF GoDown, Down, Typed, TypeOK
<1>12. CASE PowerCut
  <2>1. cuts' \in 0 .. MaxCuts
    BY <1>1, <1>12, BoundsAssumption DEF PowerCut
  <2> QED BY <2>1, <1>9, <1>10, <1>12, TypedStep DEF PowerCut, Down, Typed, TypeOK
<1>13. CASE ComeUp
  <2>1. Served(srv) \subseteq Ports
    BY <1>1, ServedPorts
  <2>2. [srv EXCEPT !.listen = Served(srv)] \in Server
    BY <1>1, <2>1 DEF Server
  <2> QED BY <2>1, <2>2, <1>13, TypedStep DEF ComeUp, pipeline, Typed, TypeOK
<1>14. CASE UNCHANGED vars
  BY <1>14, TypedStep DEF vars, server, pipeline, Typed, TypeOK
<1>15. CASE RunLine
  BY <1>15, RunLineTyped
<1>16. CASE SkipLine
  BY <1>16, SkipTyped
<1> QED BY <1>3, <1>4, <1>5, <1>6, <1>7, <1>8, <1>11, <1>12, <1>13, <1>14, <1>15, <1>16
        DEF Next, Pipeline

-----------------------------------------------------------------------------
(* Remote: the shell runs a line                                            *)

LEMMA SameForm ==
    ASSUME form' = form
    PROVE  /\ old' = old /\ new' = new
           /\ ConfigScript' = ConfigScript /\ Configs' = Configs
           /\ Config1' = Config1 /\ Config2' = Config2 /\ Config3' = Config3
           /\ Config4' = Config4 /\ Config5' = Config5 /\ Config6' = Config6
           /\ CleanupScript' = CleanupScript /\ Drop1(old)' = Drop1(old)
           /\ RollbackScript' = RollbackScript /\ Drop1(new)' = Drop1(new)
           /\ Drop2' = Drop2 /\ Cleanups' = Cleanups /\ Rollbacks' = Rollbacks
           /\ RebootScript' = RebootScript /\ WhitelistScript' = WhitelistScript
  BY DEF old, new, Configs, ConfigScript, Config1, Config2, Config3, Config4, Config5,
         Config6, CleanupScript, RollbackScript, Drop1, Drop2, Cleanups, Rollbacks,
         RebootScript, WhitelistScript

LEMMA Differ ==
    /\ Config1 # Config2 /\ Config1 # Config3 /\ Config1 # Config4 /\ Config1 # Config5
    /\ Config1 # Config6 /\ Config2 # Config3 /\ Config2 # Config4 /\ Config2 # Config5
    /\ Config2 # Config6 /\ Config3 # Config4 /\ Config3 # Config5 /\ Config3 # Config6
    /\ Config4 # Config5 /\ Config4 # Config6 /\ Config5 # Config6
    /\ ConfigScript \notin {Config1, Config2, Config3, Config4, Config5, Config6}
    /\ CleanupScript \notin {Drop1(old), Drop1(new), Drop2}
    /\ RollbackScript \notin {Drop1(old), Drop1(new), Drop2}
    /\ Drop2 \notin {Drop1(old), Drop1(new)}
    /\ RebootScript # WhitelistScript
    /\ <<>> \notin Configs /\ <<>> \notin Cleanups /\ <<>> \notin Rollbacks
    /\ RebootScript # <<>> /\ WhitelistScript # <<>>
    /\ \A s \in Configs : /\ s \notin Cleanups /\ s \notin Rollbacks
                          /\ s # RebootScript /\ s # WhitelistScript
    /\ \A s \in Cleanups \cup Rollbacks : s # RebootScript /\ s # WhitelistScript
<1>1. \A s \in Configs : /\ s \notin Cleanups /\ s \notin Rollbacks
                         /\ s # RebootScript /\ s # WhitelistScript
  BY Lens, Heads DEF Configs, Cleanups, Rollbacks
<1>2. \A s \in Cleanups \cup Rollbacks : s # RebootScript /\ s # WhitelistScript
  BY Lens, Heads DEF Cleanups, Rollbacks
<1>3. /\ <<>> \notin Configs /\ <<>> \notin Cleanups /\ <<>> \notin Rollbacks
      /\ RebootScript # <<>> /\ WhitelistScript # <<>>
  BY DEF Configs, ConfigScript, Config1, Config2, Config3, Config4, Config5, Config6,
         Cleanups, Rollbacks, CleanupScript, RollbackScript, Drop1, Drop2,
         RebootScript, WhitelistScript
<1>4. RebootScript # WhitelistScript
  BY Heads
<1>5. /\ Config1 # Config2 /\ Config1 # Config3 /\ Config1 # Config4 /\ Config1 # Config5
      /\ Config1 # Config6 /\ Config2 # Config3 /\ Config2 # Config4 /\ Config2 # Config5
      /\ Config2 # Config6 /\ Config3 # Config4 /\ Config3 # Config5 /\ Config3 # Config6
      /\ Config4 # Config5 /\ Config4 # Config6 /\ Config5 # Config6
  BY Lens
<1>6. ConfigScript \notin {Config1, Config2, Config3, Config4, Config5, Config6}
  BY Lens
<1>7. /\ CleanupScript \notin {Drop1(old), Drop1(new), Drop2}
      /\ RollbackScript \notin {Drop1(old), Drop1(new), Drop2}
      /\ Drop2 \notin {Drop1(old), Drop1(new)}
  BY Lens
<1> QED BY <1>1, <1>2, <1>3, <1>4, <1>5, <1>6, <1>7

LEMMA DropsDiffer ==
    ASSUME old # new
    PROVE  CleanupScript # RollbackScript /\ Drop1(old) # Drop1(new)
  BY Heads

\* What the shell may take for granted, by what is left of its script.
LEMMA WhichShell ==
    ASSUME Typed, Shell, Stage, old # new
    PROVE  /\ script \in Configs => ConfigShell /\ pc \in {"idle", "early", "config"}
           /\ script = RebootScript => Ready
           /\ script \in {CleanupScript, Drop1(old)} =>
                 DropShell(new, CleanupScript, Drop1(old))
           /\ script \in {RollbackScript, Drop1(new)} =>
                 DropShell(old, RollbackScript, Drop1(new))
<1>1. ASSUME script \in Configs
      PROVE  ConfigShell /\ pc \in {"idle", "early", "config"}
  BY <1>1, Differ DEF Shell, Stage, Typed, TypeOK, Stages
<1>2. script = RebootScript => Ready
  BY Differ DEF Shell
<1>3. script \in {CleanupScript, Drop1(old)} => DropShell(new, CleanupScript, Drop1(old))
  BY Differ, DropsDiffer DEF Shell, Cleanups, Rollbacks
<1>4. script \in {RollbackScript, Drop1(new)} => DropShell(old, RollbackScript, Drop1(new))
  BY Differ, DropsDiffer DEF Shell, Cleanups, Rollbacks
<1> QED BY <1>1, <1>2, <1>3, <1>4

\* What a line changes, and what it leaves alone.
LEMMA AfterLine ==
    ASSUME srv \in Server, NEW p \in Ports
    PROVE  /\ srv' = Ran(srv, <<"allow", p>>) =>
                /\ srv'.conf = srv.conf /\ srv'.valid = srv.valid
                /\ srv'.listen = srv.listen /\ srv'.ufw = srv.ufw
                /\ srv'.allowed = IF srv.ufw = "absent" THEN srv.allowed
                                                        ELSE srv.allowed \cup {p}
           /\ srv' = Ran(srv, <<"enable">>) =>
                /\ srv'.conf = srv.conf /\ srv'.valid = srv.valid
                /\ srv'.listen = srv.listen /\ srv'.allowed = srv.allowed
                /\ srv'.ufw = IF srv.ufw = "absent" THEN "absent" ELSE "on"
           /\ srv' = Ran(srv, <<"delete", p>>) =>
                /\ srv'.conf = srv.conf /\ srv'.valid = srv.valid
                /\ srv'.listen = srv.listen /\ srv'.ufw = srv.ufw
                /\ srv'.allowed = srv.allowed \ {p}
           /\ srv' = Ran(srv, <<"clear">>) =>
                /\ srv'.conf = {} /\ srv'.valid = srv.valid
                /\ srv'.listen = srv.listen /\ srv'.ufw = srv.ufw
                /\ srv'.allowed = srv.allowed
           /\ srv' = Ran(srv, <<"add", p>>) =>
                /\ srv'.conf = srv.conf \cup {p} /\ srv'.valid = srv.valid
                /\ srv'.listen = srv.listen /\ srv'.ufw = srv.ufw
                /\ srv'.allowed = srv.allowed
           /\ srv' = Ran(srv, <<"drop", p>>) =>
                /\ srv'.conf = srv.conf \ {p} /\ srv'.valid = srv.valid
                /\ srv'.listen = srv.listen /\ srv'.ufw = srv.ufw
                /\ srv'.allowed = srv.allowed
           /\ srv' = Ran(srv, <<"restart">>) =>
                /\ srv'.conf = srv.conf /\ srv'.valid = srv.valid
                /\ srv'.listen = Served(srv) /\ srv'.ufw = srv.ufw
                /\ srv'.allowed = srv.allowed
           /\ srv' = Ran(srv, <<"trust">>) =>
                /\ srv'.conf = srv.conf /\ srv'.valid = srv.valid
                /\ srv'.listen = srv.listen /\ srv'.ufw = srv.ufw
                /\ srv'.allowed = srv.allowed
           /\ srv' = Ran(srv, <<"check">>) => srv' = srv
           /\ srv' = Ran(srv, <<"reboot">>) => srv' = srv
<1>1. ASSUME srv' = Ran(srv, <<"allow", p>>)
      PROVE  /\ srv'.conf = srv.conf /\ srv'.valid = srv.valid
             /\ srv'.listen = srv.listen /\ srv'.ufw = srv.ufw
             /\ srv'.allowed = IF srv.ufw = "absent" THEN srv.allowed
                                                     ELSE srv.allowed \cup {p}
  <2>1. srv' = IF srv.ufw = "absent" THEN srv
               ELSE [srv EXCEPT !.allowed = srv.allowed \cup {p}]
    BY <1>1, Lines
  <2> QED BY <2>1 DEF Server
<1>2. ASSUME srv' = Ran(srv, <<"enable">>)
      PROVE  /\ srv'.conf = srv.conf /\ srv'.valid = srv.valid
             /\ srv'.listen = srv.listen /\ srv'.allowed = srv.allowed
             /\ srv'.ufw = IF srv.ufw = "absent" THEN "absent" ELSE "on"
  <2>1. srv' = [srv EXCEPT !.ufw = IF srv.ufw = "absent" THEN srv.ufw ELSE "on"]
    BY <1>2, Lines
  <2> QED BY <2>1 DEF Server
<1>3. ASSUME srv' = Ran(srv, <<"delete", p>>)
      PROVE  /\ srv'.conf = srv.conf /\ srv'.valid = srv.valid
             /\ srv'.listen = srv.listen /\ srv'.ufw = srv.ufw
             /\ srv'.allowed = srv.allowed \ {p}
  <2>1. srv' = [srv EXCEPT !.allowed = srv.allowed \ {p}]
    BY <1>3, Lines
  <2> QED BY <2>1 DEF Server
<1>4. ASSUME srv' \in {Ran(srv, <<"clear">>), Ran(srv, <<"add", p>>), Ran(srv, <<"drop", p>>)}
      PROVE  /\ srv'.valid = srv.valid /\ srv'.listen = srv.listen
             /\ srv'.ufw = srv.ufw /\ srv'.allowed = srv.allowed
             /\ srv' = Ran(srv, <<"clear">>) => srv'.conf = {}
             /\ srv' = Ran(srv, <<"add", p>>) => srv'.conf = srv.conf \cup {p}
             /\ srv' = Ran(srv, <<"drop", p>>) => srv'.conf = srv.conf \ {p}
  <2>1. /\ Ran(srv, <<"clear">>) = [srv EXCEPT !.conf = {}]
        /\ Ran(srv, <<"add", p>>) = [srv EXCEPT !.conf = srv.conf \cup {p}]
        /\ Ran(srv, <<"drop", p>>) = [srv EXCEPT !.conf = srv.conf \ {p}]
    BY Lines
  <2> QED BY <1>4, <2>1 DEF Server
<1>5. ASSUME srv' = Ran(srv, <<"restart">>)
      PROVE  /\ srv'.conf = srv.conf /\ srv'.valid = srv.valid
             /\ srv'.listen = Served(srv) /\ srv'.ufw = srv.ufw
             /\ srv'.allowed = srv.allowed
  <2>1. srv' = [srv EXCEPT !.listen = Served(srv)]
    BY <1>5, Lines
  <2> QED BY <2>1 DEF Server
<1>6. ASSUME srv' = Ran(srv, <<"trust">>)
      PROVE  /\ srv'.conf = srv.conf /\ srv'.valid = srv.valid
             /\ srv'.listen = srv.listen /\ srv'.ufw = srv.ufw
             /\ srv'.allowed = srv.allowed
  <2> DEFINE t == srv.ufw # "absent"
  <2>1. srv' = [srv EXCEPT !.trusted = t]
    BY <1>6, Lines, Zenon
  <2> HIDE DEF t
  <2> QED BY <2>1 DEF Server
<1>7. Ran(srv, <<"check">>) = srv /\ Ran(srv, <<"reboot">>) = srv
  BY Lines
<1> QED BY <1>1, <1>2, <1>3, <1>4, <1>5, <1>6, <1>7

LEMMA RunConfigRemote ==
    ASSUME Typed, Remote, old # new, RunLine, script \in Configs
    PROVE  Remote'
<1>1. /\ power = "up" /\ power' = "up" /\ form' = form /\ old' = old /\ new' = new
      /\ UNCHANGED <<dead, pc, verdict>> /\ script # <<>>
  BY OneLine, SameForm DEF RunLine, pipeline
<1>2. /\ srv \in Server /\ old \in Ports /\ new \in Ports /\ going \in BOOLEAN
  BY Ports2 DEF Typed, TypeOK
<1>3. /\ ~going /\ rc = 0 /\ pc \in {"idle", "config"} /\ old \notin dead
      /\ srv.listen \cap dead = {}
      /\ script \in {Config1, Config2} => Opened(old)
      /\ script \in {Config2} => Opened(new)
      /\ script \in {Config3, Config4, Config5, Config6} => BothOpened
      /\ script = Config5 => srv.conf = {old}
      /\ script = Config4 => srv.conf = {}
      /\ script = Config6 => srv.conf = {old, new}
  <2>1. ConfigShell /\ pc \in {"idle", "early", "config"}
    BY WhichShell DEF Remote
  <2>2. pc # "early"
    BY <1>1 DEF Remote, Stage
  <2>3. old \notin dead /\ srv.listen \cap dead = {}
    BY <1>1 DEF Remote, Alive
  <2> QED BY <2>1, <2>2, <2>3 DEF ConfigShell
<1>4. /\ ~going' /\ srv' = Ran(srv, Head(script))
      /\ Head(script)[1] # "check" => script' = Tail(script) /\ rc' = 0
      /\ Head(script)[1] = "check" => script' = Tail(script) \/ script' = <<>>
  <2>1. Head(script)[1] # "reboot"
    BY Heads DEF Configs
  <2> QED BY <1>3, <2>1, OneLine
<1>5. ASSUME srv'.listen = srv.listen, script' \in Configs, ConfigShell',
             srv'.ufw = "off" => srv.ufw = "off" /\ srv'.conf = srv.conf
      PROVE  Remote'
  <2>1. Shell' /\ Stage'
    BY <1>1, <1>3, <1>4, <1>5, SameForm, Differ DEF Shell, Stage
  <2>2. Alive'
    BY <1>1, <1>3, <1>5 DEF Alive
  <2>3. Untouched'
    <3>1. Untouched
      BY DEF Remote
    <3> QED BY <1>1, <1>5, <3>1 DEF Untouched, Effective
  <2> QED BY <2>1, <2>2, <2>3 DEF Remote
<1>6. CASE script = ConfigScript
  <2>1. Head(script) = <<"allow", old>> /\ Tail(script) = Config1
        /\ Head(script)[1] # "check"
    BY <1>6, Heads, Tails
  <2>2. srv' = Ran(srv, <<"allow", old>>) /\ script' = Config1 /\ rc' = 0
    BY <1>4, <2>1
  <2>3. /\ srv'.conf = srv.conf /\ srv'.listen = srv.listen /\ srv'.ufw = srv.ufw
        /\ srv'.allowed = IF srv.ufw = "absent" THEN srv.allowed ELSE srv.allowed \cup {old}
    BY <1>2, <2>2, AfterLine
  <2>4. Opened(old)'
    BY <1>1, <2>3 DEF Opened
  <2>5. ConfigShell' /\ script' \in Configs
    BY <1>1, <1>4, <2>2, <2>4, SameForm, Differ DEF ConfigShell, Configs
  <2> QED BY <1>5, <2>3, <2>5
<1>7. CASE script = Config1
  <2>1. Head(script) = <<"allow", new>> /\ Tail(script) = Config2
        /\ Head(script)[1] # "check"
    BY <1>7, Heads, Tails
  <2>2. srv' = Ran(srv, <<"allow", new>>) /\ script' = Config2 /\ rc' = 0
    BY <1>4, <2>1
  <2>3. /\ srv'.conf = srv.conf /\ srv'.listen = srv.listen /\ srv'.ufw = srv.ufw
        /\ srv'.allowed = IF srv.ufw = "absent" THEN srv.allowed ELSE srv.allowed \cup {new}
    BY <1>2, <2>2, AfterLine
  <2>4. Opened(old)' /\ Opened(new)'
    BY <1>1, <1>3, <1>7, <2>3 DEF Opened
  <2>5. ConfigShell' /\ script' \in Configs
    BY <1>1, <1>4, <2>2, <2>4, SameForm, Differ DEF ConfigShell, Configs
  <2> QED BY <1>5, <2>3, <2>5
<1>8. CASE script = Config2
  <2>1. Head(script) = <<"enable">> /\ Tail(script) = Config3
        /\ Head(script)[1] # "check"
    BY <1>8, Heads, Tails
  <2>2. srv' = Ran(srv, <<"enable">>) /\ script' = Config3 /\ rc' = 0
    BY <1>4, <2>1
  <2>3. /\ srv'.conf = srv.conf /\ srv'.listen = srv.listen /\ srv'.allowed = srv.allowed
        /\ srv'.ufw = IF srv.ufw = "absent" THEN "absent" ELSE "on"
    BY <1>2, <2>2, AfterLine
  <2>4. BothOpened' /\ srv'.ufw # "off"
    BY <1>1, <1>3, <1>8, <2>3 DEF BothOpened, Opened
  <2>5. ConfigShell' /\ script' \in Configs
    BY <1>1, <1>4, <2>2, <2>4, SameForm, Differ DEF ConfigShell, Configs
  <2> QED BY <1>5, <2>3, <2>4, <2>5
<1>9. CASE script = Config3
  <2>1. Head(script) = <<"clear">> /\ Tail(script) = Config4
        /\ Head(script)[1] # "check"
    BY <1>9, Heads, Tails
  <2>2. srv' = Ran(srv, <<"clear">>) /\ script' = Config4 /\ rc' = 0
    BY <1>4, <2>1
  <2>3. /\ srv'.conf = {} /\ srv'.listen = srv.listen /\ srv'.ufw = srv.ufw
        /\ srv'.allowed = srv.allowed
    BY <1>2, <2>2, AfterLine
  <2>4. BothOpened' /\ srv'.ufw # "off"
    BY <1>1, <1>3, <1>9, <2>3 DEF BothOpened, Opened
  <2>5. ConfigShell' /\ script' \in Configs
    BY <1>1, <1>4, <2>2, <2>3, <2>4, SameForm, Differ DEF ConfigShell, Configs
  <2> QED BY <1>5, <2>3, <2>4, <2>5
<1>10. CASE script = Config4
  <2>1. Head(script) = <<"add", old>> /\ Tail(script) = Config5
        /\ Head(script)[1] # "check"
    BY <1>10, Heads, Tails
  <2>2. srv' = Ran(srv, <<"add", old>>) /\ script' = Config5 /\ rc' = 0
    BY <1>4, <2>1
  <2>3. /\ srv'.conf = {old} /\ srv'.listen = srv.listen /\ srv'.ufw = srv.ufw
        /\ srv'.allowed = srv.allowed
    BY <1>2, <1>3, <1>10, <2>2, AfterLine
  <2>4. BothOpened' /\ srv'.ufw # "off"
    BY <1>1, <1>3, <1>10, <2>3 DEF BothOpened, Opened
  <2>5. ConfigShell' /\ script' \in Configs
    BY <1>1, <1>4, <2>2, <2>3, <2>4, SameForm, Differ DEF ConfigShell, Configs
  <2> QED BY <1>5, <2>3, <2>4, <2>5
<1>11. CASE script = Config5
  <2>1. Head(script) = <<"add", new>> /\ Tail(script) = Config6
        /\ Head(script)[1] # "check"
    BY <1>11, Heads, Tails
  <2>2. srv' = Ran(srv, <<"add", new>>) /\ script' = Config6 /\ rc' = 0
    BY <1>4, <2>1
  <2>3. /\ srv'.conf = {old, new} /\ srv'.listen = srv.listen /\ srv'.ufw = srv.ufw
        /\ srv'.allowed = srv.allowed
    BY <1>2, <1>3, <1>11, <2>2, AfterLine
  <2>4. BothOpened' /\ srv'.ufw # "off"
    BY <1>1, <1>3, <1>11, <2>3 DEF BothOpened, Opened
  <2>5. ConfigShell' /\ script' \in Configs
    BY <1>1, <1>4, <2>2, <2>3, <2>4, SameForm, Differ DEF ConfigShell, Configs
  <2> QED BY <1>5, <2>3, <2>4, <2>5
<1>12. CASE script = Config6
  <2>1. Head(script) = <<"check">> /\ Tail(script) = <<>>
    BY <1>12, Heads, Tails
  <2>2. srv' = Ran(srv, <<"check">>) /\ script' = <<>>
    BY <1>4, <2>1
  <2>3. srv' = srv
    BY <1>2, <2>2, AfterLine
  <2>4. Ready /\ srv.ufw # "off"
    BY <1>3, <1>12 DEF Ready, BothOpened
  <2>5. Ready'
    BY <1>1, <2>3, <2>4 DEF Ready, BothOpened, Opened
  <2>6. Shell' /\ Stage'
    BY <1>1, <1>3, <1>4, <2>2, <2>5, SameForm DEF Shell, Stage
  <2>7. Alive' /\ Untouched'
    BY <1>1, <1>3, <2>3, <2>4 DEF Alive, Untouched
  <2> QED BY <2>6, <2>7 DEF Remote
<1> QED BY <1>6, <1>7, <1>8, <1>9, <1>10, <1>11, <1>12 DEF Configs

\* The shell is done with a line of a script that gives up a port, not the last.
LEMMA DropGoesOn ==
    ASSUME Typed, Remote, old # new, power = "up", script # <<>>,
           UNCHANGED <<dead, power, pc, form>>,
           \/ /\ script \in {CleanupScript, Drop1(old)} /\ script' \in {Drop1(old), Drop2}
              /\ DropShell(new, CleanupScript, Drop1(old))'
           \/ /\ script \in {RollbackScript, Drop1(new)} /\ script' \in {Drop1(new), Drop2}
              /\ DropShell(old, RollbackScript, Drop1(new))',
           srv'.listen = srv.listen, srv'.ufw = srv.ufw, srv.ufw # "off"
    PROVE  Remote'
<1>1. power' = "up" /\ old' = old /\ new' = new
  BY SameForm
<1>2. Alive /\ Untouched /\ Shell /\ Stage
  BY DEF Remote
<1>3. script' \in Cleanups \/ script' \in Rollbacks
  BY DEF Cleanups, Rollbacks
<1>4. Shell'
  BY <1>1, SameForm DEF Shell, Cleanups, Rollbacks
<1>5. Stage'
  <2>1. CASE script \in {CleanupScript, Drop1(old)}
    <3>1. script \notin Rollbacks
      BY <2>1, Differ, DropsDiffer DEF Rollbacks
    <3>2. pc \in {"idle", "cleanup"}
      BY <1>1, <1>2, <2>1, <3>1, Differ DEF Stage, Cleanups, Typed, TypeOK, Stages
    <3>3. script' \in Cleanups' /\ DropShell(new, CleanupScript, Drop1(old))'
      BY <1>1, <2>1, SameForm, Differ, DropsDiffer DEF Cleanups
    <3> QED BY <1>1, <3>2, <3>3 DEF Stage
  <2>2. CASE script \in {RollbackScript, Drop1(new)}
    <3>1. script \notin Cleanups
      BY <2>2, Differ, DropsDiffer DEF Cleanups
    <3>2. pc \in {"idle", "rollback"}
      BY <1>1, <1>2, <2>2, <3>1, Differ DEF Stage, Rollbacks, Typed, TypeOK, Stages
    <3>3. script' \in Rollbacks' /\ DropShell(old, RollbackScript, Drop1(new))'
      BY <1>1, <2>2, SameForm, Differ, DropsDiffer DEF Rollbacks
    <3> QED BY <1>1, <3>2, <3>3 DEF Stage
  <2> QED BY <2>1, <2>2
<1>6. Alive' /\ Untouched'
  BY <1>1, <1>2, <1>3 DEF Alive, Untouched
<1> QED BY <1>4, <1>5, <1>6 DEF Remote

LEMMA RunDropRemote ==
    ASSUME Typed, Remote, old # new, RunLine, script \in Cleanups \cup Rollbacks
    PROVE  Remote'
<1>1. /\ power = "up" /\ power' = "up" /\ form' = form /\ old' = old /\ new' = new
      /\ UNCHANGED <<dead, pc, verdict, skipped, kept>> /\ script # <<>>
  BY OneLine, SameForm DEF RunLine, pipeline
<1>2. srv \in Server /\ old \in Ports /\ new \in Ports
  BY Ports2 DEF Typed, TypeOK
<1>3. Alive /\ Untouched /\ Shell /\ Stage
  BY DEF Remote
<1>4. srv' = Ran(srv, Head(script)) /\ script' = Tail(script)
  <2>1. Head(script)[1] # "check"
    BY Heads DEF Cleanups, Rollbacks
  <2> QED BY <2>1, OneLine
<1>5. CASE script = CleanupScript
  <2>1. Head(script) = <<"drop", old>> /\ Tail(script) = Drop1(old)
    BY <1>5, Heads, Tails
  <2>2. new \in srv.listen /\ Ready
    BY <1>5, WhichShell DEF DropShell, Remote
  <2>3. srv' = Ran(srv, <<"drop", old>>) /\ script' = Drop1(old)
    BY <1>4, <2>1
  <2>4. /\ srv'.conf = {new} /\ srv'.listen = srv.listen /\ srv'.ufw = srv.ufw
        /\ srv'.allowed = srv.allowed
    BY <1>2, <2>2, <2>3, AfterLine DEF Ready
  <2>5. BothOpened' /\ srv.ufw # "off"
    BY <1>1, <2>2, <2>4 DEF Ready, BothOpened, Opened
  <2>6. DropShell(new, CleanupScript, Drop1(old))'
    BY <1>1, <2>2, <2>3, <2>4, <2>5, SameForm, Differ DEF DropShell, Dropped
  <2> QED BY <1>1, <1>5, <2>3, <2>4, <2>5, <2>6, DropGoesOn
<1>6. CASE script = RollbackScript
  <2>1. Head(script) = <<"drop", new>> /\ Tail(script) = Drop1(new)
    BY <1>6, Heads, Tails
  <2>2. old \in srv.listen /\ Ready
    BY <1>6, WhichShell DEF DropShell, Remote
  <2>3. srv' = Ran(srv, <<"drop", new>>) /\ script' = Drop1(new)
    BY <1>4, <2>1
  <2>4. /\ srv'.conf = {old} /\ srv'.listen = srv.listen /\ srv'.ufw = srv.ufw
        /\ srv'.allowed = srv.allowed
    BY ZenonT(40), <1>2, <2>2, <2>3, AfterLine DEF Ready
  <2>5. BothOpened' /\ srv.ufw # "off"
    BY <1>1, <2>2, <2>4 DEF Ready, BothOpened, Opened
  <2>6. DropShell(old, RollbackScript, Drop1(new))'
    BY <1>1, <2>2, <2>3, <2>4, <2>5, SameForm, Differ DEF DropShell, Dropped
  <2> QED BY <1>1, <1>6, <2>3, <2>4, <2>5, <2>6, DropGoesOn
<1>7. CASE script = Drop1(old)
  <2>1. Head(script) = <<"delete", old>> /\ Tail(script) = Drop2
    BY <1>7, Heads, Tails
  <2>2. new \in srv.listen /\ Dropped(new) /\ BothOpened
    BY <1>7, WhichShell DEF DropShell, Remote
  <2>3. srv' = Ran(srv, <<"delete", old>>) /\ script' = Drop2
    BY <1>4, <2>1
  <2>4. /\ srv'.conf = srv.conf /\ srv'.listen = srv.listen /\ srv'.ufw = srv.ufw
        /\ srv'.allowed = srv.allowed \ {old}
    BY <1>2, <2>2, <2>3, AfterLine
  <2>5. Opened(new)' /\ srv.ufw # "off"
    BY <1>1, <2>2, <2>4 DEF BothOpened, Opened
  <2>6. DropShell(new, CleanupScript, Drop1(old))'
    BY <1>1, <2>2, <2>3, <2>4, <2>5, SameForm, Differ DEF DropShell, Dropped
  <2> QED BY <1>1, <1>7, <2>3, <2>4, <2>5, <2>6, DropGoesOn
<1>8. CASE script = Drop1(new)
  <2>1. Head(script) = <<"delete", new>> /\ Tail(script) = Drop2
    BY <1>8, Heads, Tails
  <2>2. old \in srv.listen /\ Dropped(old) /\ BothOpened
    BY <1>8, WhichShell DEF DropShell, Remote
  <2>3. srv' = Ran(srv, <<"delete", new>>) /\ script' = Drop2
    BY <1>4, <2>1
  <2>4. /\ srv'.conf = srv.conf /\ srv'.listen = srv.listen /\ srv'.ufw = srv.ufw
        /\ srv'.allowed = srv.allowed \ {new}
    BY <1>2, <2>2, <2>3, AfterLine
  <2>5. Opened(old)' /\ srv.ufw # "off"
    BY <1>1, <2>2, <2>4 DEF BothOpened, Opened
  <2>6. DropShell(old, RollbackScript, Drop1(new))'
    BY <1>1, <2>2, <2>3, <2>4, <2>5, SameForm, Differ DEF DropShell, Dropped
  <2> QED BY <1>1, <1>8, <2>3, <2>4, <2>5, <2>6, DropGoesOn
<1>9. CASE script = Drop2
  <2>1. Head(script) = <<"restart">> /\ Tail(script) = <<>>
    BY <1>9, Heads, Tails
  <2>2. srv' = Ran(srv, <<"restart">>) /\ script' = <<>>
    BY <1>4, <2>1
  <2>3. srv'.conf = srv.conf /\ srv'.listen = Served(srv) /\ srv'.ufw = srv.ufw
    BY <1>2, <2>2, AfterLine
  <2>4. pc \in {"idle", "cleanup", "rollback"}
    <3>1. script \notin Configs /\ script # RebootScript /\ script # WhitelistScript
      BY Differ
    <3> QED BY <1>1, <1>3, <3>1 DEF Stage, Typed, TypeOK, Stages
  <2>5. Shell' /\ Stage'
    BY <1>1, <2>2, <2>4 DEF Shell, Stage
  <2>6. Served(srv) \cap dead = {} /\ Served(srv) \subseteq Effective(srv.conf)
    BY DEF Served
  <2>7. Alive' /\ Untouched'
    BY <1>1, <1>3, <2>3, <2>6 DEF Alive, Untouched
  <2> QED BY <2>5, <2>7 DEF Remote
<1> QED BY <1>5, <1>6, <1>7, <1>8, <1>9 DEF Cleanups, Rollbacks

LEMMA RunLineRemote == ASSUME Typed, Remote, old # new, RunLine PROVE Remote'
<1>1. /\ power = "up" /\ power' = "up" /\ form' = form /\ old' = old /\ new' = new
      /\ UNCHANGED <<dead, pc, verdict>> /\ script # <<>>
  BY OneLine, SameForm DEF RunLine, pipeline
<1>2. srv \in Server /\ old \in Ports
  BY Ports2 DEF Typed, TypeOK
<1>3. Alive /\ Untouched /\ Stage
  BY DEF Remote
<1>4. CASE script = RebootScript \/ script = WhitelistScript
  <2>1. Head(script)[1] # "check" /\ Tail(script) = <<>>
    BY <1>4, Heads, Tails
  <2>2. srv' = Ran(srv, Head(script)) /\ script' = <<>>
    BY <2>1, OneLine
  <2>3. /\ srv'.conf = srv.conf /\ srv'.listen = srv.listen /\ srv'.ufw = srv.ufw
        /\ srv'.allowed = srv.allowed
    BY <1>2, <1>4, <2>2, Heads, AfterLine
  <2>4. pc \in {"idle", "reboot", "whitelist"} /\ (pc = "reboot" => Ready)
    <3>1. script \notin Configs /\ script \notin Cleanups /\ script \notin Rollbacks
      BY <1>4, Differ
    <3> QED BY <1>1, <1>3, <3>1 DEF Stage, Typed, TypeOK, Stages
  <2>5. pc = "reboot" => Ready'
    BY <1>1, <2>3, <2>4 DEF Ready, BothOpened, Opened
  <2>6. Shell' /\ Stage'
    BY <1>1, <2>2, <2>4, <2>5 DEF Shell, Stage
  <2>7. Alive' /\ Untouched'
    BY <1>1, <1>3, <2>3 DEF Alive, Untouched
  <2> QED BY <2>6, <2>7 DEF Remote
<1>5. CASE script \in Configs
  BY <1>5, RunConfigRemote
<1>6. CASE script \in Cleanups \cup Rollbacks
  BY <1>6, RunDropRemote
<1> QED BY <1>1, <1>4, <1>5, <1>6 DEF Typed, Scripts

\* A line that gives a port up fails: the port stays, and is remembered.
LEMMA SkipRemote ==
    ASSUME "lineFails" \notin Odds, Typed, Remote, old # new, SkipLine
    PROVE  Remote'
<1>1. /\ power = "up" /\ power' = "up" /\ form' = form /\ old' = old /\ new' = new
      /\ UNCHANGED <<srv, dead, going, pc>> /\ script # <<>> /\ script' = Tail(script)
      /\ script \in Cleanups \cup Rollbacks \cup {WhitelistScript}
  BY OneSkipped DEF SkipLine, pipeline
<1>2. Alive /\ Untouched /\ Shell /\ Stage
  BY DEF Remote
<1>3. CASE script = CleanupScript
  <2>1. new \in srv.listen /\ Ready
    BY <1>3, WhichShell DEF DropShell, Remote
  <2>2. script' = Drop1(old) /\ skipped' = skipped \cup {"drop"} /\ kept' = kept \cup {old}
    BY <1>1, <1>3, Heads, Tails, OneSkipped
  <2>3. Dropped(new)' /\ BothOpened' /\ srv.ufw # "off"
    BY <1>1, <2>1, <2>2 DEF Dropped, Ready, BothOpened, Opened
  <2>4. DropShell(new, CleanupScript, Drop1(old))'
    BY <1>1, <2>1, <2>2, <2>3, SameForm, Differ DEF DropShell
  <2> QED BY <1>1, <1>3, <2>2, <2>3, <2>4, DropGoesOn
<1>4. CASE script = RollbackScript
  <2>1. old \in srv.listen /\ Ready
    BY <1>4, WhichShell DEF DropShell, Remote
  <2>2. script' = Drop1(new) /\ skipped' = skipped \cup {"drop"} /\ kept' = kept \cup {new}
    BY <1>1, <1>4, Heads, Tails, OneSkipped
  <2>3. Dropped(old)' /\ BothOpened' /\ srv.ufw # "off"
    BY <1>1, <2>1, <2>2 DEF Dropped, Ready, BothOpened, Opened
  <2>4. DropShell(old, RollbackScript, Drop1(new))'
    BY <1>1, <2>1, <2>2, <2>3, SameForm, Differ DEF DropShell
  <2> QED BY <1>1, <1>4, <2>2, <2>3, <2>4, DropGoesOn
<1>5. CASE script = Drop1(old)
  <2>1. new \in srv.listen /\ Dropped(new) /\ BothOpened
    BY <1>5, WhichShell, Differ DEF DropShell, Remote
  <2>2. script' = Drop2 /\ skipped' = skipped \cup {"delete"} /\ kept' = kept
    BY <1>1, <1>5, Heads, Tails, OneSkipped
  <2>3. Dropped(new)' /\ Opened(new)' /\ srv.ufw # "off"
    BY <1>1, <2>1, <2>2 DEF Dropped, BothOpened, Opened
  <2>4. DropShell(new, CleanupScript, Drop1(old))'
    BY <1>1, <2>1, <2>2, <2>3, SameForm, Differ DEF DropShell
  <2> QED BY <1>1, <1>5, <2>2, <2>3, <2>4, DropGoesOn
<1>6. CASE script = Drop1(new)
  <2>1. old \in srv.listen /\ Dropped(old) /\ BothOpened
    BY <1>6, WhichShell, Differ DEF DropShell, Remote
  <2>2. script' = Drop2 /\ skipped' = skipped \cup {"delete"} /\ kept' = kept
    BY <1>1, <1>6, Heads, Tails, OneSkipped
  <2>3. Dropped(old)' /\ Opened(old)' /\ srv.ufw # "off"
    BY <1>1, <2>1, <2>2 DEF Dropped, BothOpened, Opened
  <2>4. DropShell(old, RollbackScript, Drop1(new))'
    BY <1>1, <2>1, <2>2, <2>3, SameForm, Differ DEF DropShell
  <2> QED BY <1>1, <1>6, <2>2, <2>3, <2>4, DropGoesOn
<1>7. CASE script = Drop2 \/ script = WhitelistScript
  <2>1. script' = <<>>
    BY <1>1, <1>7, Tails
  <2>2. pc \in {"idle", "cleanup", "rollback", "whitelist"}
    <3>1. script \notin Configs /\ script # RebootScript
      BY <1>1, <1>7, Differ DEF Cleanups
    <3> QED BY <1>1, <1>2, <3>1 DEF Stage, Typed, TypeOK, Stages
  <2>3. Shell' /\ Stage'
    BY <1>1, <2>1, <2>2 DEF Shell, Stage
  <2>4. Alive' /\ Untouched'
    BY <1>1, <1>2, <2>1 DEF Alive, Untouched
  <2> QED BY <2>3, <2>4 DEF Remote
<1> QED BY <1>1, <1>3, <1>4, <1>5, <1>6, <1>7 DEF Cleanups, Rollbacks

-----------------------------------------------------------------------------
(* Remote: the pipeline and the power                                       *)

LEMMA InitRemote == Init => Remote
<1> SUFFICES ASSUME Init PROVE Remote
  OBVIOUS
<1>1. PICK p \in Ports, conf \in SUBSET Ports, u \in {"absent", "off", "on"} :
          /\ dead \in SUBSET (Ports \ {p})
          /\ Effective(conf) = {p}
          /\ srv.conf = conf /\ srv.listen = {p} /\ srv.ufw = u
  BY DEF Init
<1>2. power = "up" /\ script = <<>> /\ pc = "idle"
  BY DEF Init
<1>3. Untouched
  BY <1>1, <1>2 DEF Untouched
<1> QED BY <1>1, <1>2, <1>3 DEF Remote, Shell, Stage, Alive

\* A deploy that ends, or is ended, leaves the shell to itself.
LEMMA EndRemote ==
    ASSUME Remote, pc' = "idle", UNCHANGED <<srv, dead, power, going, form, skipped, kept>>,
           script' = <<>> \/ (script' = script /\ rc' = rc)
    PROVE  Remote'
<1>1. old' = old /\ new' = new
  BY SameForm
<1>2. Shell'
  <2>1. CASE script' = <<>>
    BY <2>1 DEF Shell
  <2>2. CASE script' = script /\ rc' = rc
    BY <1>1, <2>2, SameForm DEF Remote, Shell, ConfigShell, DropShell, Dropped, Ready,
       BothOpened, Opened
  <2> QED BY <2>1, <2>2
<1>3. Stage' /\ Alive' /\ Untouched'
  BY <1>1 DEF Remote, Stage, Alive, Untouched, Attached
<1> QED BY <1>2, <1>3 DEF Remote

LEMMA DeployRemote ==
    ASSUME Typed, Remote, NEW f \in Forms, Deploy(f)
    PROVE  Remote'
<1>1. /\ script = <<>> /\ script' = <<>> /\ ~going /\ power = "up" /\ f[1] \in srv.listen
      /\ pc' = "early" /\ old' = f[1] /\ UNCHANGED <<srv, dead, power, going>>
  BY DEF Deploy, server, Answers, old
<1>2. Shell' /\ Stage' /\ Alive'
  BY <1>1 DEF Remote, Shell, Stage, Alive
<1>3. Untouched'
  BY <1>1 DEF Remote, Untouched
<1> QED BY <1>2, <1>3 DEF Remote

LEMMA ConfigureRemote ==
    ASSUME Typed, Remote, Configure
    PROVE  Remote'
<1>1. /\ pc = "early" /\ pc' = "config" /\ script' = ConfigScript /\ rc' = 0
      /\ UNCHANGED <<dead, power, going, form>> /\ old' = old /\ new' = new
  BY SameForm DEF Configure, Enter
<1>2. script = <<>> /\ ~going /\ power = "up"
  BY <1>1 DEF Remote, Stage, Attached
<1>3. /\ srv'.conf = srv.conf /\ srv'.ufw = srv.ufw
      /\ srv'.listen \in {srv.listen, Served(srv)}
  <2>1. srv' = srv \/ srv' = Ran(srv, <<"restart">>)
    BY DEF Configure, SystemUpdated
  <2>2. srv \in Server /\ old \in Ports
    BY Ports2 DEF Typed, TypeOK
  <2> QED BY <2>1, <2>2, AfterLine
<1>4. Served(srv) \cap dead = {} /\ Served(srv) \subseteq Effective(srv.conf)
  BY DEF Served
<1>5. script' \in Configs' /\ ConfigShell'
  BY <1>1, <1>2, SameForm, Differ DEF Configs, ConfigShell
<1>6. Shell' /\ Stage'
  <2>1. script' # <<>>
    BY <1>1, <1>5, SameForm, Differ
  <2>2. Shell'
    BY <1>5 DEF Shell
  <2>3. Stage'
    BY <1>1, <1>2, <1>5, <2>1 DEF Stage
  <2> QED BY <2>2, <2>3
<1>7. Alive' /\ Untouched'
  BY <1>1, <1>2, <1>3, <1>4 DEF Remote, Alive, Untouched
<1> QED BY <1>6, <1>7 DEF Remote

\* A stage that sends a script to a server that is up.
LEMMA ScriptRemote ==
    ASSUME Typed, Remote, old # new, AskReboot \/ LoginNew \/ LoginOld \/ Whitelist
    PROVE  Remote'
<1>1. /\ UNCHANGED <<srv, dead, power, going, form>> /\ pc # "idle"
      /\ old' = old /\ new' = new
  BY SameForm DEF AskReboot, LoginNew, LoginOld, Whitelist, Run, Enter, Finished, server
<1>2. Alive' /\ Untouched' /\ power = "up" /\ power' = "up"
  <2>1. power = "up"
    <3>1. CASE AskReboot \/ Whitelist
      BY <3>1 DEF AskReboot, Whitelist, Finished, Remote, Stage, Attached
    <3>2. CASE LoginNew \/ LoginOld
      BY <3>2 DEF LoginNew, LoginOld, Answers, Remote, Alive, Typed, TypeOK
    <3> QED BY <3>1, <3>2
  <2> QED BY <1>1, <2>1 DEF Remote, Alive, Untouched
<1>3. CASE AskReboot
  <2>1. pc' = "reboot" /\ script' = RebootScript /\ Ready
    BY <1>3 DEF AskReboot, Finished, Run, Enter, Remote, Stage
  <2>2. Ready'
    BY <1>1, <2>1 DEF Ready, BothOpened, Opened
  <2> QED BY <1>1, <1>2, <2>1, <2>2, SameForm DEF Remote, Shell, Stage
<1>4. CASE LoginNew
  <2>1. pc' = "cleanup" /\ script' = CleanupScript /\ Ready /\ new \in srv.listen
    BY <1>4 DEF LoginNew, Run, Enter, Remote, Stage, Answers
  <2>2. Ready'
    BY <1>1, <2>1 DEF Ready, BothOpened, Opened
  <2>3. script' \in Cleanups' /\ DropShell(new, CleanupScript, Drop1(old))'
    BY <1>1, <2>1, <2>2, SameForm, Differ DEF DropShell, Cleanups
  <2> QED BY <1>2, <2>1, <2>3 DEF Remote, Shell, Stage
<1>5. CASE LoginOld
  <2>1. pc' = "rollback" /\ script' = RollbackScript /\ Ready /\ old \in srv.listen
    BY <1>5 DEF LoginOld, Run, Enter, Remote, Stage, Answers
  <2>2. Ready'
    BY <1>1, <2>1 DEF Ready, BothOpened, Opened
  <2>3. script' \in Rollbacks' /\ DropShell(old, RollbackScript, Drop1(new))'
    BY <1>1, <2>1, <2>2, SameForm, Differ DEF DropShell, Rollbacks
  <2> QED BY <1>2, <2>1, <2>3 DEF Remote, Shell, Stage
<1>6. CASE Whitelist
  <2>1. \/ pc' = "whitelist" /\ script' = WhitelistScript
        \/ pc' = "late" /\ script' = <<>>
    BY <1>6 DEF Whitelist, Finished, Run, Enter, server
  <2> QED BY <1>1, <1>2, <2>1, SameForm DEF Remote, Shell, Stage
<1> QED BY <1>3, <1>4, <1>5, <1>6

LEMMA LookRemote ==
    ASSUME Remote, RebootSent \/ BackOnline \/ LoginNewFails
    PROVE  Remote'
<1>1. /\ UNCHANGED <<srv, dead, power, going, form, script>> /\ pc # "idle"
      /\ pc' \in {"wait", "verify", "tryold"} /\ script = <<>> /\ Ready
      /\ old' = old /\ new' = new
  BY SameForm DEF RebootSent, BackOnline, LoginNewFails, Enter, Finished, server, Remote, Stage
<1>2. Ready'
  BY <1>1 DEF Ready, BothOpened, Opened
<1> QED BY <1>1, <1>2 DEF Remote, Shell, Stage, Alive, Untouched, Attached

LEMMA PowerRemote ==
    ASSUME Typed, Remote, GoDown \/ PowerCut \/ ComeUp
    PROVE  Remote'
<1>1. /\ script' = <<>> /\ ~going' /\ dead' = dead /\ form' = form
      /\ srv'.conf = srv.conf /\ srv'.ufw = srv.ufw /\ srv'.allowed = srv.allowed
      /\ srv'.listen \in {{}, Served(srv)}
      /\ power' = "down" => srv'.listen = {}
  BY DEF GoDown, PowerCut, ComeUp, Down, Detached, End, Enter, pipeline, Remote, Alive,
     Typed, TypeOK, Server
<1>2. pc' \in {pc, "idle"} \/ (pc = "reboot" /\ pc' = "wait")
  BY DEF GoDown, PowerCut, ComeUp, Down, Detached, End, Enter, pipeline
<1>3. pc' \notin Attached \/ (power' = "up" /\ power = "down" /\ pc' = pc)
  BY DEF ComeUp, GoDown, PowerCut, Down, Detached, End, Enter, pipeline, Attached
<1>4. old' = old /\ new' = new
  BY <1>1, SameForm
<1>5. Ready => Ready'
  BY <1>1, <1>4 DEF Ready, BothOpened, Opened
<1>6. pc' \notin {"early", "config"}
  BY <1>3 DEF Remote, Stage, Attached
<1>7. Shell' /\ Stage'
  BY <1>1, <1>2, <1>3, <1>5, <1>6 DEF Shell, Stage, Remote
<1>8. Served(srv) \cap dead = {} /\ Served(srv) \subseteq Effective(srv.conf)
  BY DEF Served
<1>9. Alive' /\ Untouched'
  BY <1>1, <1>2, <1>4, <1>8 DEF Remote, Alive, Untouched
<1> QED BY <1>7, <1>9 DEF Remote

LEMMA NextRemote ==
    ASSUME "lineFails" \notin Odds, Typed, Remote, old # new, [Next]_vars
    PROVE  Remote'
<1>1. CASE RunLine
  BY <1>1, RunLineRemote
<1>2. CASE \E f \in Forms : Deploy(f)
  BY <1>2, DeployRemote
<1>3. CASE Configure
  BY <1>3, ConfigureRemote
<1>4. CASE AskReboot \/ LoginNew \/ LoginOld \/ Whitelist
  BY <1>4, ScriptRemote
<1>5. CASE RebootSent \/ BackOnline \/ LoginNewFails
  BY <1>5, LookRemote
<1>6. CASE ConfigRejected \/ NotBack \/ LoginOldFails \/ RolledBack \/ LateSteps \/ Interrupt
  BY <1>6, EndRemote DEF ConfigRejected, NotBack, LoginOldFails, RolledBack, LateSteps,
     Interrupt, End, server, failures
<1>7. CASE GoDown \/ PowerCut \/ ComeUp
  BY <1>7, PowerRemote
<1>8. CASE UNCHANGED vars
  <2>1. /\ UNCHANGED <<srv, dead, power, going, form, script, pc, rc, skipped, kept>>
        /\ old' = old /\ new' = new
    BY <1>8, SameForm DEF vars, server, pipeline, failures
  <2> QED BY <2>1, SameForm DEF Remote, Alive, Stage, Untouched, Shell, ConfigShell,
          DropShell, Dropped, Ready, BothOpened, Opened
<1>9. CASE SkipLine
  BY <1>9, SkipRemote
<1> QED BY <1>1, <1>2, <1>3, <1>4, <1>5, <1>6, <1>7, <1>8, <1>9 DEF Next, Pipeline

-----------------------------------------------------------------------------
(* Valid                                                                    *)

LEMMA RunKeepsValid == ASSUME Typed, RunLine PROVE srv'.valid = srv.valid
<1>1. srv \in Server /\ old \in Ports /\ new \in Ports /\ srv' = Ran(srv, Head(script))
  BY Ports2, OneLine DEF Typed, TypeOK
<1>2. Head(script) \in {<<"allow", old>>, <<"allow", new>>, <<"enable">>, <<"clear">>,
                        <<"add", old>>, <<"add", new>>, <<"check">>, <<"drop", old>>,
                        <<"drop", new>>, <<"delete", old>>, <<"delete", new>>,
                        <<"restart">>, <<"reboot">>, <<"trust">>}
  BY OneLine, Heads DEF Scripts, Configs, Cleanups, Rollbacks
<1>3. CASE Head(script) \in {<<"allow", old>>, <<"enable">>, <<"clear">>, <<"add", old>>,
                             <<"check">>, <<"drop", old>>, <<"delete", old>>,
                             <<"restart">>, <<"reboot">>, <<"trust">>}
  BY <1>1, <1>3, AfterLine
<1>4. CASE Head(script) \in {<<"allow", new>>, <<"add", new>>, <<"drop", new>>,
                             <<"delete", new>>}
  BY <1>1, <1>4, AfterLine
<1> QED BY <1>2, <1>3, <1>4

LEMMA InitValid == Init => Valid
  BY Differ DEF Init, Valid

LEMMA RunLineValid ==
    ASSUME Typed, Remote, Valid, old # new, RunLine
    PROVE  Valid'
<1>1. /\ power = "up" /\ power' = "up" /\ form' = form /\ old' = old /\ new' = new
      /\ UNCHANGED <<dead, pc, verdict, skipped, kept>>
      /\ script # <<>> /\ going' \in BOOLEAN
      /\ script \in Scripts
  BY OneLine, SameForm DEF RunLine, pipeline
<1>2. srv \in Server /\ old \in Ports /\ new \in Ports /\ srv'.valid = srv.valid
  BY Ports2, RunKeepsValid DEF Typed, TypeOK
<1>3. verdict' \notin {"success", "rolledback"}
  BY <1>1 DEF Valid
<1>4. Alive /\ Shell /\ Stage
  BY DEF Remote
<1>5. CASE script \in Configs
  <2>1. ConfigShell /\ pc \in {"idle", "config"}
    BY <1>1, <1>4, <1>5, WhichShell DEF Stage
  <2>2. ~going'
    <3>1. Head(script)[1] # "reboot"
      BY <1>5, Heads DEF Configs
    <3> QED BY <2>1, <3>1, OneLine DEF ConfigShell
  <2>3. script' = <<>> /\ rc' = 0 => srv.valid
    <3>1. CASE script = Config6
      BY <3>1, Heads, OneLine
    <3>2. CASE script # Config6
      <4>1. Head(script)[1] # "check" /\ Tail(script) \in Configs
        <5>1. Head(script)[1] # "check"
          BY <1>5, <3>2, Heads DEF Configs
        <5>2. Tail(script) \in Configs
          BY <1>5, <3>2, Tails DEF Configs
        <5> QED BY <5>1, <5>2
      <4> QED BY <4>1, OneLine, Differ
    <3> QED BY <3>1, <3>2
  <2>4. script' \in Configs' \cup {<<>>}
    <3>1. Tail(script) \in Configs \cup {<<>>}
      BY <1>5, Tails DEF Configs
    <3> QED BY <1>1, <3>1, OneLine, SameForm
  <2> QED BY <1>1, <1>2, <1>3, <2>1, <2>2, <2>3, <2>4 DEF Valid
<1>6. CASE script = RebootScript \/ script = WhitelistScript
  <2>1. script \notin Configs /\ script \notin Cleanups /\ script \notin Rollbacks
    BY <1>6, Differ
  <2>2. srv.valid /\ pc \notin {"config", "late", "cleanup", "rollback"}
    BY <1>1, <1>4, <2>1 DEF Valid, Stage
  <2>3. Head(script) \in {<<"reboot">>, <<"trust">>}
    BY <1>6, Heads
  <2>4. /\ srv'.conf = srv.conf /\ srv'.listen = srv.listen /\ srv'.ufw = srv.ufw
        /\ srv'.allowed = srv.allowed
    BY <1>2, <2>3, OneLine, AfterLine
  <2>5. pc = "whitelist" => SettledAt(new)'
    BY <1>1, <2>4 DEF Valid, SettledAt, Dropped, Opened
  <2> QED BY <1>1, <1>2, <1>3, <2>2, <2>5 DEF Valid
<1>7. CASE script \in Cleanups \cup Rollbacks
  <2>1. script \notin Configs /\ script # RebootScript /\ script # WhitelistScript
    BY <1>7, Differ
  <2>2. srv.valid /\ pc \notin {"config", "late", "whitelist"}
    BY <1>1, <1>4, <2>1 DEF Valid, Stage
  <2>3. CASE script # Drop2
    <3>1. Head(script)[1] # "check" /\ Tail(script) \in Cleanups \cup Rollbacks
      <4>1. Head(script)[1] # "check"
        BY <1>7, Heads DEF Cleanups, Rollbacks
      <4>2. Tail(script) \in Cleanups \cup Rollbacks
        BY <1>7, <2>3, Tails DEF Cleanups, Rollbacks
      <4> QED BY <4>1, <4>2
    <3>2. script' # <<>>
      BY <3>1, OneLine, Differ
    <3> QED BY <1>1, <1>2, <1>3, <2>2, <3>2 DEF Valid
  <2>4. CASE script = Drop2
    <3>1. srv' = Ran(srv, <<"restart">>) /\ script' = <<>>
      BY <2>4, Heads, Tails, OneLine
    <3>2. /\ srv'.conf = srv.conf /\ srv'.listen = Served(srv) /\ srv'.ufw = srv.ufw
          /\ srv'.allowed = srv.allowed
      BY <1>2, <3>1, AfterLine
    <3>3. ASSUME NEW p \in Ports, Dropped(p), Opened(p), p \in srv.listen
          PROVE  /\ Opened(p)' /\ p \notin dead' /\ p \in srv'.listen
                 /\ "drop" \notin skipped => srv'.listen = {p}
      BY <1>1, <1>4, <2>2, <3>2, <3>3 DEF Alive, Dropped, Served, Effective, Opened
    <3>4. ASSUME NEW p \in {old, new}, Dropped(p)
          PROVE  Dropped(p)'
      BY <1>1, <3>2, <3>4 DEF Dropped
    <3>5. pc = "cleanup" => SettledAt(new)'
      <4>1. pc = "cleanup" => Dropped(new) /\ Opened(new) /\ new \in srv.listen
        BY <1>1, <1>4, <2>4, Differ DEF Stage, DropShell
      <4> QED BY <1>1, <1>2, <3>3, <3>4, <4>1 DEF SettledAt, Dropped, Opened
    <3>6. pc = "rollback" => SettledAt(old)'
      <4>1. pc = "rollback" => Dropped(old) /\ Opened(old) /\ old \in srv.listen
        BY <1>1, <1>4, <2>4, Differ DEF Stage, DropShell
      <4> QED BY <1>1, <1>2, <3>3, <3>4, <4>1 DEF SettledAt, Dropped, Opened
    <3> QED BY <1>1, <1>2, <1>3, <2>2, <3>1, <3>5, <3>6 DEF Valid
  <2> QED BY <2>3, <2>4
<1> QED BY <1>1, <1>5, <1>6, <1>7 DEF Scripts

LEMMA SkipValid ==
    ASSUME "lineFails" \notin Odds, Typed, Remote, Valid, old # new, SkipLine
    PROVE  Valid'
<1>1. /\ power = "up" /\ power' = "up" /\ form' = form /\ old' = old /\ new' = new
      /\ UNCHANGED <<srv, dead, going, pc, verdict>> /\ script # <<>>
      /\ script' = Tail(script)
      /\ script \in Cleanups \cup Rollbacks \cup {WhitelistScript}
  BY OneSkipped DEF SkipLine, pipeline
<1>2. Alive /\ Shell /\ Stage
  BY DEF Remote
<1>3. /\ script \notin Configs /\ srv.valid /\ verdict \notin {"success", "rolledback"}
      /\ pc \notin {"config", "late"}
  <2>1. script \notin Configs /\ script # <<>>
    BY <1>1, Differ
  <2> QED BY <1>2, <2>1 DEF Valid, Stage
<1>4. CASE script = WhitelistScript
  <2>1. pc \notin {"cleanup", "rollback"}
    BY <1>1, <1>2, <1>4, Differ DEF Stage
  <2>2. skipped' = skipped \cup {"trust"} /\ kept' = kept
    BY <1>4, Heads, OneSkipped
  <2>3. pc = "whitelist" => SettledAt(new)'
    BY <1>1, <2>2 DEF Valid, SettledAt, Dropped, Opened
  <2> QED BY <1>1, <1>3, <2>1, <2>3 DEF Valid
<1>5. CASE script \in {CleanupScript, RollbackScript, Drop1(old), Drop1(new)}
  <2>1. script' # <<>> /\ script # WhitelistScript /\ script # RebootScript
    <3>1. script' \in Cleanups \cup Rollbacks
      BY <1>1, <1>5, Tails DEF Cleanups, Rollbacks
    <3>2. script \in Cleanups \cup Rollbacks
      BY <1>5 DEF Cleanups, Rollbacks
    <3> QED BY <3>1, <3>2, Differ
  <2>2. pc # "whitelist"
    BY <1>2, <2>1, <1>1 DEF Stage
  <2> QED BY <1>1, <1>3, <2>1, <2>2 DEF Valid
<1>6. CASE script = Drop2
  <2>1. /\ script' = <<>> /\ skipped' = skipped \cup {"restart"} /\ kept' = kept
        /\ script # WhitelistScript
    BY <1>1, <1>6, Heads, Tails, OneSkipped
  <2>2. pc # "whitelist"
    BY <1>1, <1>2, <2>1 DEF Stage
  <2>3. ASSUME NEW p \in {old, new}, Dropped(p), Opened(p), p \in srv.listen
        PROVE  SettledAt(p)'
    BY <1>1, <1>2, <2>1, <2>3 DEF SettledAt, Dropped, Opened, Alive
  <2>4. pc = "cleanup" => SettledAt(new)'
    <3>1. pc = "cleanup" => Dropped(new) /\ Opened(new) /\ new \in srv.listen
      BY <1>1, <1>2, <1>6, Differ DEF Stage, DropShell
    <3> QED BY <1>1, <2>3, <3>1 DEF SettledAt, Dropped, Opened
  <2>5. pc = "rollback" => SettledAt(old)'
    <3>1. pc = "rollback" => Dropped(old) /\ Opened(old) /\ old \in srv.listen
      BY <1>1, <1>2, <1>6, Differ DEF Stage, DropShell
    <3> QED BY <1>1, <2>3, <3>1 DEF SettledAt, Dropped, Opened
  <2> QED BY <1>1, <1>3, <2>1, <2>2, <2>4, <2>5 DEF Valid
<1> QED BY <1>1, <1>4, <1>5, <1>6 DEF Cleanups, Rollbacks

LEMMA PowerValid ==
    ASSUME Typed, Remote, Valid, GoDown \/ PowerCut \/ ComeUp
    PROVE  Valid'
<1>1. /\ script' = <<>> /\ ~going' /\ dead' = dead /\ form' = form
      /\ srv'.conf = srv.conf /\ srv'.ufw = srv.ufw /\ srv'.allowed = srv.allowed
      /\ srv'.valid = srv.valid /\ srv.valid /\ (ComeUp => script = <<>>)
      /\ skipped' = skipped /\ kept' = kept
  <2>1. srv \in Server /\ Alive
    BY DEF Typed, TypeOK, Remote
  <2>2. CASE GoDown \/ PowerCut
    <3>1. /\ srv' = [srv EXCEPT !.listen = {}] /\ script' = <<>> /\ ~going' /\ dead' = dead
          /\ power = "up" /\ power' = "down" /\ skipped' = skipped /\ kept' = kept
      BY <2>2 DEF GoDown, PowerCut, Down, failures
    <3>2. srv.valid
      BY <2>2 DEF GoDown, PowerCut, Valid
    <3>3. form' = form
      BY <2>2 DEF GoDown, PowerCut, Detached, End, Enter, pipeline
    <3> QED BY <2>1, <3>1, <3>2, <3>3 DEF Server, ComeUp
  <2>3. CASE ComeUp
    <3>1. /\ srv' = [srv EXCEPT !.listen = Served(srv)] /\ script' = script /\ going' = going
          /\ power = "down" /\ form' = form /\ dead' = dead
          /\ skipped' = skipped /\ kept' = kept
      BY <2>3 DEF ComeUp, pipeline, failures
    <3> QED BY <2>1, <3>1 DEF Server, Alive, Valid
  <2> QED BY <2>2, <2>3
<1>2. old' = old /\ new' = new
  BY <1>1, SameForm
<1>3. \/ ComeUp /\ pc' = pc /\ verdict' = verdict
      \/ pc' \notin Attached /\ (verdict' = verdict \/ verdict' = "failed") /\ power' = "down"
  BY DEF GoDown, PowerCut, ComeUp, Down, Detached, End, Enter, pipeline, Attached
<1>4. ASSUME NEW p, SettledAt(p), ComeUp
      PROVE  /\ p \notin dead /\ p \in srv'.listen
             /\ "drop" \notin skipped => srv'.listen = {p}
  BY <1>1, <1>4 DEF ComeUp, Served, Effective, SettledAt, Dropped, Typed, TypeOK, Server
<1>5. ASSUME NEW p, SettledAt(p)
      PROVE  /\ srv'.ufw = "absent" \/ p \in srv'.allowed
             /\ p \notin dead'
             /\ power' = "up" => /\ p \in srv'.listen
                                 /\ "drop" \notin skipped => srv'.listen = {p}
  BY <1>1, <1>3, <1>4, <1>5 DEF SettledAt, Opened
<1>6. /\ SettledAt(new) => SettledAt(new)'
      /\ SettledAt(old) => SettledAt(old)'
  BY <1>1, <1>2, <1>5 DEF SettledAt, Dropped, Opened
<1>7. CASE ComeUp /\ pc' = pc /\ verdict' = verdict
  BY <1>1, <1>6, <1>7 DEF Valid
<1>8. CASE /\ pc' \notin Attached /\ power' = "down"
           /\ verdict' = verdict \/ verdict' = "failed"
  BY <1>1, <1>6, <1>8 DEF Valid, Attached
<1> QED BY <1>3, <1>7, <1>8

LEMMA NextValid ==
    ASSUME {"lostStatus", "lineFails"} \cap Odds = {}, Typed, Remote, Valid, old # new,
           [Next]_vars
    PROVE  Valid'
<1>1. Alive /\ Shell /\ Stage
  BY DEF Remote
<1>2. CASE RunLine
  BY <1>2, RunLineValid
<1>3. CASE \E f \in Forms : Deploy(f)
  BY <1>3, Differ DEF Deploy, server, Valid
<1>4. CASE Configure
  <2>1. script' = ConfigScript /\ script' \in Configs'
    BY <1>4, SameForm DEF Configure, Enter, Configs
  <2> QED BY <1>1, <1>4, <2>1, Differ DEF Configure, Enter, Valid, Stage, Attached, Configs,
          Typed, TypeOK
<1>5. UNCHANGED <<srv, dead, power, form, skipped, kept>> =>
        /\ SettledAt(new) => SettledAt(new)'
        /\ SettledAt(old) => SettledAt(old)'
  BY SameForm DEF SettledAt, Dropped, Opened
<1>6. CASE AskReboot \/ LoginNew \/ LoginOld
  <2>1. /\ srv.valid /\ srv' = srv /\ pc' \in {"reboot", "cleanup", "rollback"}
        /\ verdict' = verdict /\ script' # <<>>
    BY <1>6, Differ DEF AskReboot, LoginNew, LoginOld, Run, Enter, Finished, Valid,
       Cleanups, Rollbacks
  <2>2. pc # "idle"
    BY <1>6 DEF AskReboot, LoginNew, LoginOld, Finished
  <2>3. verdict = "running"
    BY <2>2 DEF Typed, TypeOK
  <2> QED BY <2>1, <2>3 DEF Valid
<1>7. CASE Whitelist
  <2>1. /\ UNCHANGED <<srv, dead, power, form, verdict, skipped, kept>>
        /\ pc' \in {"whitelist", "late"}
        /\ srv.valid /\ SettledAt(new) /\ pc # "idle"
    BY <1>7 DEF Whitelist, Run, Enter, Finished, server, failures, Valid
  <2>2. verdict = "running"
    BY <2>1 DEF Typed, TypeOK
  <2> QED BY <1>5, <2>1, <2>2 DEF Valid
<1>8. CASE RebootSent \/ BackOnline \/ LoginNewFails
  <2>1. /\ srv.valid /\ srv' = srv /\ pc' \in {"wait", "verify", "tryold"}
        /\ verdict' = verdict /\ pc # "idle"
    BY <1>8 DEF RebootSent, BackOnline, LoginNewFails, Enter, Finished, server, Valid
  <2>2. verdict = "running"
    BY <2>1 DEF Typed, TypeOK
  <2> QED BY <2>1, <2>2 DEF Valid
<1>9. CASE ConfigRejected \/ NotBack \/ LoginOldFails
  <2>1. /\ UNCHANGED <<srv, power, going, script>> /\ pc' = "idle"
        /\ verdict' \in {"failed", "lockout"}
        /\ pc = "config" \/ srv.valid
    BY <1>9 DEF ConfigRejected, NotBack, LoginOldFails, End, Finished, server, Valid
  <2>2. form' = form
    BY <1>9 DEF ConfigRejected, NotBack, LoginOldFails, End
  <2> QED BY <2>1, <2>2, SameForm DEF Valid
<1>10. CASE RolledBack \/ LateSteps
  <2>1. /\ UNCHANGED <<srv, dead, power, form, skipped, kept>> /\ pc' = "idle" /\ srv.valid
        /\ script' = <<>>
        /\ \/ verdict' = "rolledback" /\ SettledAt(old)
           \/ verdict' \in {"success", "failed"} /\ SettledAt(new)
    BY <1>1, <1>10 DEF RolledBack, LateSteps, End, Finished, server, failures, Valid,
       Stage
  <2> QED BY <1>5, <2>1 DEF Valid
<1>11. CASE Interrupt
  <2>1. /\ UNCHANGED <<srv, power, going, form>> /\ pc' = "idle" /\ verdict' = "failed"
        /\ script' \in {script, <<>>}
    BY <1>11 DEF Interrupt, End
  <2> QED BY <2>1, SameForm DEF Valid
<1>12. CASE GoDown \/ PowerCut \/ ComeUp
  BY <1>12, PowerValid
<1>13. CASE UNCHANGED vars
  <2>1. /\ UNCHANGED <<srv, dead, power, going, form, script, pc, rc, verdict>>
        /\ UNCHANGED <<skipped, kept>>
    BY <1>13 DEF vars, server, pipeline, failures
  <2> QED BY <1>5, <2>1, SameForm DEF Valid
<1>14. CASE SkipLine
  BY <1>14, SkipValid
<1> QED BY <1>2, <1>3, <1>4, <1>6, <1>7, <1>8, <1>9, <1>10, <1>11, <1>12, <1>13, <1>14
        DEF Next, Pipeline

-----------------------------------------------------------------------------
(* Reachable                                                                *)

\* A port open to everybody: now, and after a start of the server.
NowOpen  == \E p \in srv.listen : Open(srv, p)
NextOpen == \E p \in Served(srv) : Open(srv, p)

LEMMA ReachableParts ==
    Reachable <=> /\ power = "up" => NowOpen
                  /\ srv.valid /\ ~Writing => NextOpen
  BY DEF Reachable, NeverLockedOut, NowOpen, NextOpen

\* A script that is sent does not begin with a line of the writing part.
LEMMA NotWriting ==
    /\ script = <<>> => ~Writing
    /\ script \in Scripts \ {Config4, Config5} => ~Writing
    /\ script \in {Config4, Config5} => Writing /\ script \in Configs
<1>1. script \in {Config4, Config5} => Writing /\ script \in Configs
  BY Heads, Differ DEF Writing, Configs
<1>2. script \in Scripts \ {Config4, Config5} => ~Writing
  BY Heads DEF Writing, Scripts, Configs, Cleanups, Rollbacks
<1> QED BY <1>1, <1>2 DEF Writing

\* An allow rule more, or nothing at all.
LEMMA StaysOpen ==
    ASSUME UNCHANGED dead, srv'.conf = srv.conf, srv'.valid = srv.valid,
           srv'.ufw = srv.ufw, srv.allowed \subseteq srv'.allowed
    PROVE  /\ srv'.listen = srv.listen /\ NowOpen => NowOpen'
           /\ srv'.listen = Served(srv) /\ NextOpen => NowOpen'
           /\ NextOpen => NextOpen'
<1>1. \A p : Open(srv, p) => Open(srv, p)'
  BY DEF Open
<1>2. Served(srv)' = Served(srv)
  BY DEF Served, Effective
<1> QED BY <1>1, <1>2 DEF NowOpen, NextOpen

\* One port that the rest of the script keeps.
LEMMA KeptOpen ==
    ASSUME NEW p \in srv'.conf, p \notin dead', srv'.ufw = "absent" \/ p \in srv'.allowed
    PROVE  /\ srv'.valid => NextOpen'
           /\ p \in srv'.listen => NowOpen'
<1>1. Open(srv, p)'
  BY DEF Open
<1>2. srv'.valid => p \in Served(srv)'
  BY DEF Served, Effective
<1> QED BY <1>1, <1>2 DEF NowOpen, NextOpen

LEMMA InitReachable == Init => Reachable
<1> SUFFICES ASSUME Init PROVE Reachable
  OBVIOUS
<1>1. PICK p \in Ports, conf \in SUBSET Ports, u \in {"absent", "off", "on"} :
          /\ dead \in SUBSET (Ports \ {p})
          /\ Effective(conf) = {p}
          /\ srv.conf = conf /\ srv.listen = {p} /\ srv.ufw = u
          /\ srv.allowed = IF u = "on" THEN {p} ELSE {}
  BY DEF Init
<1>2. Open(srv, p)
  BY <1>1 DEF Open
<1>3. srv.valid => p \in Served(srv)
  BY <1>1 DEF Served
<1> QED BY <1>1, <1>2, <1>3, ReachableParts DEF NowOpen, NextOpen

LEMMA RunLineReachable ==
    ASSUME Typed, Remote, Valid, Reachable, old # new, RunLine
    PROVE  Reachable'
<1>1. /\ power = "up" /\ power' = "up" /\ form' = form /\ old' = old /\ new' = new
      /\ UNCHANGED dead /\ script # <<>> /\ script \in Scripts
      /\ srv' = Ran(srv, Head(script)) /\ srv'.valid = srv.valid
  BY OneLine, SameForm, RunKeepsValid DEF RunLine, pipeline
<1>2. srv \in Server /\ old \in Ports /\ new \in Ports
  BY Ports2 DEF Typed, TypeOK
<1>3. /\ Alive /\ Untouched /\ Shell /\ Stage /\ old \notin dead /\ NowOpen
      /\ srv.valid /\ ~Writing => NextOpen
  BY <1>1, ReachableParts DEF Remote, Alive
<1>4. script \notin {Config4, Config5} => ~Writing
  BY <1>1, NotWriting
<1>5. /\ (Reachable <=> /\ power = "up" => NowOpen
                        /\ srv.valid /\ ~Writing => NextOpen)'
      /\ (script \in {Config4, Config5} => Writing /\ script \in Configs)'
  BY ReachableParts, NotWriting, PTL
<1>6. ASSUME NowOpen', srv'.valid => NextOpen'
      PROVE  Reachable'
  BY <1>5, <1>6
<1>7. CASE Head(script) \in {<<"allow", old>>, <<"allow", new>>, <<"check">>,
                             <<"reboot">>, <<"trust">>}
  <2>1. script \notin {Config4, Config5}
    BY <1>7, Heads
  <2>2. /\ srv'.conf = srv.conf /\ srv'.listen = srv.listen
        /\ srv'.ufw = srv.ufw /\ srv.allowed \subseteq srv'.allowed
    BY <1>1, <1>2, <1>7, AfterLine
  <2> QED BY <1>1, <1>3, <1>4, <1>6, <2>1, <2>2, StaysOpen
<1>8. CASE script = Config2
  <2>1. srv' = Ran(srv, <<"enable">>)
    BY <1>1, <1>8, Heads
  <2>2. /\ srv'.conf = srv.conf /\ srv'.listen = srv.listen /\ srv'.allowed = srv.allowed
        /\ srv'.ufw = IF srv.ufw = "absent" THEN "absent" ELSE "on"
    BY <1>2, <2>1, AfterLine
  <2>3. Opened(old) /\ script \notin {Config4, Config5}
    <3>1. ConfigShell
      BY <1>3, <1>8, WhichShell DEF Configs
    <3> QED BY <1>8, <3>1, Differ DEF ConfigShell
  <2>4. CASE srv.ufw # "off"
    <3>1. srv'.ufw = srv.ufw
      BY <1>2, <2>2, <2>4 DEF Server
    <3> QED BY <1>1, <1>3, <1>4, <1>6, <2>2, <2>3, <3>1, StaysOpen
  <2>5. CASE srv.ufw = "off"
    <3>1. Effective(srv.conf) = {old} /\ srv.listen \subseteq {old}
      BY <1>1, <1>3, <2>5 DEF Untouched
    <3>2. Open(srv, old)'
      BY <1>1, <2>2, <2>3, <2>5 DEF Open, Opened
    <3>3. old \in srv'.listen /\ (srv'.valid => old \in Served(srv)')
      BY <1>1, <1>3, <2>2, <3>1 DEF NowOpen, Served, Effective
    <3> QED BY <1>1, <1>6, <3>2, <3>3 DEF NowOpen, NextOpen
  <2> QED BY <2>4, <2>5
<1>9. CASE script \in {Config3, Config4}
  <2>1. srv' \in {Ran(srv, <<"clear">>), Ran(srv, <<"add", old>>)}
    BY <1>1, <1>9, Heads
  <2>2. srv'.listen = srv.listen /\ srv'.ufw = srv.ufw /\ srv'.allowed = srv.allowed
    BY <1>2, <2>1, AfterLine
  <2>3. script' \in {Config4, Config5}
    <3>1. CASE script = Config3
      <4>1. Head(script) = <<"clear">> /\ Tail(script) = Config4
        BY <3>1, Heads, Tails
      <4>2. Head(script)[1] # "check"
        BY <4>1
      <4> QED BY <4>1, <4>2, OneLine
    <3>2. CASE script = Config4
      <4>1. Head(script) = <<"add", old>> /\ Tail(script) = Config5
        BY <3>2, Heads, Tails
      <4>2. Head(script)[1] # "check"
        BY <4>1
      <4> QED BY <4>1, <4>2, OneLine
    <3> QED BY <1>9, <3>1, <3>2
  <2>4. Writing'
    BY <1>1, <1>5, <2>3, SameForm
  <2>5. NowOpen'
    BY <1>3, <2>2 DEF NowOpen, Open
  <2> QED BY <1>5, <2>4, <2>5
<1>10. CASE script = Config5
  <2>1. srv' = Ran(srv, <<"add", new>>)
    BY <1>1, <1>10, Heads
  <2>2. /\ srv'.conf = srv.conf \cup {new} /\ srv'.listen = srv.listen
        /\ srv'.ufw = srv.ufw /\ srv'.allowed = srv.allowed
    BY <1>2, <2>1, AfterLine
  <2>3. srv.conf = {old} /\ BothOpened
    <3>1. ConfigShell
      BY <1>3, <1>10, WhichShell DEF Configs
    <3> QED BY <1>10, <3>1, Differ DEF ConfigShell
  <2>4. NowOpen'
    BY <1>3, <2>2 DEF NowOpen, Open
  <2>5. srv'.valid => NextOpen'
    BY <1>1, <1>3, <2>2, <2>3, KeptOpen DEF BothOpened, Opened
  <2> QED BY <1>6, <2>4, <2>5
<1>11. CASE script = CleanupScript \/ script = RollbackScript
  <2>1. \/ srv' = Ran(srv, <<"drop", old>>) /\ script = CleanupScript
        \/ srv' = Ran(srv, <<"drop", new>>) /\ script = RollbackScript
    BY <1>1, <1>11, Heads
  <2>2. /\ srv'.listen = srv.listen /\ srv'.ufw = srv.ufw /\ srv'.allowed = srv.allowed
        /\ \/ srv'.conf = srv.conf \ {old} /\ script = CleanupScript
           \/ srv'.conf = srv.conf \ {new} /\ script = RollbackScript
    BY <1>2, <2>1, AfterLine
  <2>3. \/ script = CleanupScript /\ new \in srv.listen /\ Ready
        \/ script = RollbackScript /\ old \in srv.listen /\ Ready
    BY <1>3, <1>11, WhichShell DEF DropShell
  <2>4. PICK p \in {old, new} : p \in srv.listen /\ p \in srv'.conf /\ Opened(p)
    BY <2>2, <2>3, DropsDiffer DEF Ready, BothOpened
  <2> QED BY <1>1, <1>3, <1>6, <2>2, <2>4, KeptOpen DEF Opened, Alive
<1>12. CASE script = Drop1(old) \/ script = Drop1(new)
  <2>1. \/ srv' = Ran(srv, <<"delete", old>>) /\ script = Drop1(old)
        \/ srv' = Ran(srv, <<"delete", new>>) /\ script = Drop1(new)
    BY <1>1, <1>12, Heads
  <2>2. /\ srv'.listen = srv.listen /\ srv'.ufw = srv.ufw /\ srv'.conf = srv.conf
        /\ \/ srv'.allowed = srv.allowed \ {old} /\ script = Drop1(old)
           \/ srv'.allowed = srv.allowed \ {new} /\ script = Drop1(new)
    BY <1>2, <2>1, AfterLine
  <2>3. \/ script = Drop1(old) /\ new \in srv.listen /\ Dropped(new) /\ BothOpened
        \/ script = Drop1(new) /\ old \in srv.listen /\ Dropped(old) /\ BothOpened
    BY <1>3, <1>12, WhichShell, Differ DEF DropShell
  <2>4. PICK p \in {old, new} :
            /\ p \in srv.listen /\ p \in srv'.conf
            /\ srv'.ufw = "absent" \/ p \in srv'.allowed
    BY <2>2, <2>3, DropsDiffer DEF BothOpened, Opened, Dropped
  <2> QED BY <1>1, <1>3, <1>6, <2>2, <2>4, KeptOpen DEF Alive
<1>13. CASE script = Drop2
  <2>1. srv' = Ran(srv, <<"restart">>)
    BY <1>1, <1>13, Heads
  <2>2. /\ srv'.conf = srv.conf /\ srv'.listen = Served(srv)
        /\ srv'.ufw = srv.ufw /\ srv'.allowed = srv.allowed
    BY <1>2, <2>1, AfterLine
  <2>3. srv.valid /\ script \notin {Config4, Config5}
    BY <1>1, <1>13, Heads, Lens, Differ DEF Valid, Cleanups
  <2> QED BY <1>1, <1>3, <1>4, <1>6, <2>2, <2>3, StaysOpen
<1>14. \/ Head(script) \in {<<"allow", old>>, <<"allow", new>>, <<"check">>, <<"reboot">>,
                             <<"trust">>}
       \/ script \in {Config2, Config3, Config4, Config5, CleanupScript, RollbackScript,
                      Drop1(old), Drop1(new), Drop2}
  BY <1>1, Heads DEF Scripts, Configs, Cleanups, Rollbacks
<1> QED BY <1>7, <1>8, <1>9, <1>10, <1>11, <1>12, <1>13, <1>14

LEMMA NextReachable ==
    ASSUME Odds \subseteq {"upgrade"}, Typed, Remote, Valid, Reachable, old # new,
           [Next]_vars
    PROVE  Reachable'
<1>1. /\ Alive /\ Shell /\ Stage /\ srv \in Server /\ old \in Ports
      /\ power = "up" => NowOpen
      /\ srv.valid /\ ~Writing => NextOpen
  BY ReachableParts, Ports2 DEF Remote, Typed, TypeOK
<1>2. /\ (Reachable <=> /\ power = "up" => NowOpen
                        /\ srv.valid /\ ~Writing => NextOpen)'
      /\ (script = <<>> => ~Writing)'
  BY ReachableParts, NotWriting, PTL
<1>3. CASE RunLine
  BY <1>3, RunLineReachable
<1>4. ASSUME UNCHANGED <<srv, dead, power>>, script = <<>> \/ UNCHANGED script \/ ~Writing
      PROVE  Reachable'
  <2>1. Writing => Writing'
    BY <1>4, NotWriting DEF Writing
  <2>2. (NowOpen => NowOpen') /\ (NextOpen => NextOpen')
    BY <1>4, StaysOpen
  <2> QED BY <1>1, <1>2, <1>4, <2>1, <2>2
<1>5. CASE \E f \in Forms : Deploy(f)
  BY <1>4, <1>5 DEF Deploy, server
<1>6. CASE Configure
  <2>1. script = <<>> /\ UNCHANGED <<dead, power>>
    BY <1>1, <1>6 DEF Configure, Stage
  <2>2. CASE srv' = srv
    BY <1>4, <2>1, <2>2
  <2>3. CASE srv' = Ran(srv, <<"restart">>) /\ srv.valid
    <3>1. /\ srv'.conf = srv.conf /\ srv'.valid = srv.valid /\ srv'.listen = Served(srv)
          /\ srv'.ufw = srv.ufw /\ srv'.allowed = srv.allowed
      BY <1>1, <2>3, AfterLine
    <3>2. NowOpen' /\ NextOpen'
      BY <1>1, <2>1, <2>3, <3>1, StaysOpen, NotWriting
    <3> QED BY <1>2, <3>2
  <2> QED BY <1>6, <2>2, <2>3 DEF Configure, SystemUpdated
<1>7. CASE AskReboot \/ LoginNew \/ LoginOld \/ Whitelist
  BY <1>1, <1>4, <1>7 DEF AskReboot, LoginNew, LoginOld, Whitelist, Finished, Run, Enter,
     server, Stage
<1>8. CASE RebootSent \/ BackOnline \/ LoginNewFails
  BY <1>4, <1>8 DEF RebootSent, BackOnline, LoginNewFails, Enter, server
<1>9. CASE ConfigRejected \/ NotBack \/ LoginOldFails \/ RolledBack \/ LateSteps
  BY <1>4, <1>9 DEF ConfigRejected, NotBack, LoginOldFails, RolledBack, LateSteps, server
<1>10. CASE Interrupt
  BY <1>4, <1>10 DEF Interrupt
<1>11. CASE GoDown \/ PowerCut
  <2>1. /\ srv' = [srv EXCEPT !.listen = {}] /\ UNCHANGED dead /\ power' = "down"
    BY <1>11 DEF GoDown, PowerCut, Down
  <2>2. ~Writing
    <3>1. CASE GoDown
      <4>1. script \notin Configs
        BY <1>1, <3>1, WhichShell DEF GoDown, ConfigShell
      <4> QED BY <4>1, NotWriting DEF Typed, Configs
    <3>2. CASE PowerCut
      BY <3>2 DEF PowerCut
    <3> QED BY <1>11, <3>1, <3>2
  <2>3. /\ srv'.conf = srv.conf /\ srv'.valid = srv.valid
        /\ srv'.ufw = srv.ufw /\ srv'.allowed = srv.allowed
    BY <1>1, <2>1 DEF Server
  <2>4. srv'.valid => NextOpen'
    BY <1>1, <2>1, <2>2, <2>3, StaysOpen
  <2> QED BY <1>2, <2>1, <2>4
<1>12. CASE ComeUp
  <2>1. /\ srv' = [srv EXCEPT !.listen = Served(srv)] /\ UNCHANGED dead
        /\ power = "down" /\ script = <<>>
    BY <1>1, <1>12 DEF ComeUp, Alive
  <2>2. /\ srv'.conf = srv.conf /\ srv'.valid = srv.valid /\ srv'.listen = Served(srv)
        /\ srv'.ufw = srv.ufw /\ srv'.allowed = srv.allowed
    BY <1>1, <2>1 DEF Server
  <2>3. NextOpen
    BY <1>1, <2>1, NotWriting DEF Valid
  <2> QED BY <1>2, <2>1, <2>2, <2>3, StaysOpen
<1>13. CASE UNCHANGED vars
  BY <1>4, <1>13 DEF vars, server
<1>14. CASE SkipLine
  <2>1. UNCHANGED <<srv, dead, power>> /\ script \in Scripts \ {Config4, Config5}
    <3>1. script \notin Configs
      BY <1>14, OneSkipped, Differ
    <3> QED BY <1>14, <3>1, OneSkipped DEF Configs
  <2> QED BY <1>4, <2>1, NotWriting
<1> QED BY <1>3, <1>5, <1>6, <1>7, <1>8, <1>9, <1>10, <1>11, <1>12, <1>13, <1>14
        DEF Next, Pipeline

-----------------------------------------------------------------------------
(* Warm                                                                     *)

LEMMA NextWarm ==
    ASSUME "upgrade" \notin Odds, Typed, Remote, old # new, Warm, [Next]_vars
    PROVE  Warm'
<1>1. srv \in Server /\ old \in Ports /\ new \in Ports
  BY Ports2 DEF Typed, TypeOK
<1>2. CASE RunLine
  <2>1. /\ cold' = cold /\ kept' = kept /\ srv' = Ran(srv, Head(script))
        /\ script \in Scripts /\ script # <<>>
    BY <1>2, OneLine
  <2>2. CASE script = Drop2
    <3>1. srv' = Ran(srv, <<"restart">>)
      BY <2>1, <2>2, Heads
    <3>2. srv'.listen = Served(srv)
      BY <1>1, <3>1, AfterLine
    <3>3. PICK p \in {old, new} : p \in srv.listen /\ Dropped(p)
      <4>1. script \in Cleanups \cup Rollbacks
        BY <2>2 DEF Cleanups
      <4>2. script \notin Configs /\ script \notin {RebootScript, WhitelistScript, <<>>}
        BY <4>1, Differ
      <4>3. DropShell(new, CleanupScript, Drop1(old)) \/ DropShell(old, RollbackScript, Drop1(new))
        BY <4>2 DEF Remote, Shell
      <4> QED BY <2>2, <4>3 DEF DropShell
    <3>4. Served(srv) \subseteq {p} \cup kept
      BY <3>3 DEF Served, Effective, Dropped
    <3> QED BY <2>1, <3>2, <3>3, <3>4 DEF Warm
  <2>3. CASE script # Drop2
    <3>1. Head(script) \in {<<"allow", old>>, <<"allow", new>>, <<"enable">>, <<"clear">>,
                            <<"add", old>>, <<"add", new>>, <<"check">>, <<"drop", old>>,
                            <<"drop", new>>, <<"delete", old>>, <<"delete", new>>,
                            <<"reboot">>, <<"trust">>}
      BY <2>1, <2>3, Heads DEF Scripts, Configs, Cleanups, Rollbacks
    <3>2. CASE Head(script) \in {<<"allow", old>>, <<"enable">>, <<"clear">>,
                                 <<"add", old>>, <<"check">>, <<"drop", old>>,
                                 <<"delete", old>>, <<"reboot">>, <<"trust">>}
      BY <1>1, <2>1, <3>2, AfterLine DEF Warm
    <3>3. CASE Head(script) \in {<<"allow", new>>, <<"add", new>>, <<"drop", new>>,
                                 <<"delete", new>>}
      BY <1>1, <2>1, <3>3, AfterLine DEF Warm
    <3> QED BY <3>1, <3>2, <3>3
  <2> QED BY <2>2, <2>3
<1>3. CASE Pipeline
  <2>1. srv' = srv /\ cold' = cold /\ kept' = kept
    BY <1>3 DEF Pipeline, Deploy, Configure, SystemUpdated, AskReboot, ConfigRejected,
       RebootSent, BackOnline, NotBack, LoginNew, LoginNewFails, LoginOld, LoginOldFails,
       RolledBack, Whitelist, LateSteps, Interrupt, Run, server, failures
  <2> QED BY <2>1 DEF Warm
<1>4. CASE GoDown \/ PowerCut \/ ComeUp
  BY <1>1, <1>4 DEF GoDown, PowerCut, ComeUp, Down, Warm, Server, failures
<1>5. CASE UNCHANGED vars
  BY <1>5 DEF vars, server, failures, Warm
<1>6. CASE SkipLine
  BY <1>6, OneSkipped DEF Warm
<1> QED BY <1>2, <1>3, <1>4, <1>5, <1>6 DEF Next

\* Outside the shell nothing takes a Port line out of the configuration.
LEMMA ConfKept ==
    ASSUME Typed, [Next]_vars, ~RunLine
    PROVE  srv'.conf = srv.conf
<1>1. srv \in Server /\ old \in Ports
  BY Ports2 DEF Typed, TypeOK
<1>2. CASE Pipeline
  <2>1. srv' = srv \/ srv' = Ran(srv, <<"restart">>)
    BY <1>2 DEF Pipeline, Deploy, Configure, SystemUpdated, AskReboot, ConfigRejected,
       RebootSent, BackOnline, NotBack, LoginNew, LoginNewFails, LoginOld, LoginOldFails,
       RolledBack, Whitelist, LateSteps, Interrupt, Run, server
  <2> QED BY <1>1, <2>1, AfterLine
<1>3. CASE GoDown \/ PowerCut \/ ComeUp
  BY <1>1, <1>3 DEF GoDown, PowerCut, ComeUp, Down, Server
<1>4. CASE UNCHANGED vars
  BY <1>4 DEF vars, server
<1>5. CASE SkipLine
  BY <1>5, OneSkipped
<1> QED BY <1>2, <1>3, <1>4, <1>5 DEF Next

LEMMA DropsWhatIsProven ==
    ASSUME Typed, Remote, Warm, [Next]_vars, NEW p \in srv.conf \ srv'.conf,
           pc = "cleanup"
    PROVE  new \in cold \cup kept
<1>1. RunLine
  BY ConfKept
<1>2. script # <<>>
  BY <1>1 DEF RunLine
<1>3. new \in srv.listen
  BY <1>2 DEF Remote, Stage, DropShell
<1> QED BY <1>3 DEF Warm

-----------------------------------------------------------------------------
(* The theorems                                                             *)

LEMMA FormsDiffer == ASSUME DistinctPorts, Typed PROVE old # new
  BY DEF DistinctPorts, Typed, TypeOK, old, new

\* Every variable keeps its type, whatever the form says and whatever goes
\* wrong: what the shell has still to run is the rest of a script of steps 6 to
\* 9, and a deploy is open exactly while a stage of run_pipeline runs.
THEOREM TypeCorrect == Spec => []TypeOK
<1>1. Init => Typed
  BY InitTyped
<1>2. Typed /\ [Next]_vars => Typed'
  BY NextTyped
<1>3. Typed => TypeOK
  BY DEF Typed
<1> QED BY <1>1, <1>2, <1>3, PTL DEF Spec

LEMMA RemoteHolds ==
    ASSUME DistinctPorts, "lineFails" \notin Odds
    PROVE  Spec => [](Typed /\ Remote)
<1>1. Init => Typed /\ Remote
  BY InitTyped, InitRemote
<1>2. Typed /\ Remote /\ [Next]_vars => (Typed /\ Remote)'
  BY NextTyped, NextRemote, FormsDiffer
<1> QED BY <1>1, <1>2, PTL DEF Spec

LEMMA ValidHolds ==
    ASSUME DistinctPorts, {"lostStatus", "lineFails"} \cap Odds = {}
    PROVE  Spec => [](Typed /\ Remote /\ Valid)
<1>1. Init => Typed /\ Remote /\ Valid
  BY InitTyped, InitRemote, InitValid
<1>2. Typed /\ Remote /\ Valid /\ [Next]_vars => (Typed /\ Remote /\ Valid)'
  BY NextTyped, NextRemote, NextValid, FormsDiffer
<1> QED BY <1>1, <1>2, PTL DEF Spec

\* The move of the port never locks the owner out: however far each of any
\* number of deploys and of the scripts they left behind has come, sshd serves a
\* port that UFW leaves open to everybody, now and after a reboot at this
\* moment; an upgrade of openssh-server in step 2 included. Without it: a form
\* that asks for the port the server has, an exit status that comes after the
\* output (run_script reads it too early), a power cut between two writes.
THEOREM NeverLockedOutHolds ==
    ASSUME DistinctPorts, Odds \subseteq {"upgrade"}
    PROVE  Spec => []NeverLockedOut
<1> DEFINE IInv == Typed /\ Remote /\ Valid /\ Reachable
<1>1. {"lostStatus", "lineFails"} \cap Odds = {}
  OBVIOUS
<1>2. Init => IInv
  BY InitTyped, InitRemote, InitValid, InitReachable
<1>3. IInv /\ [Next]_vars => IInv'
  BY <1>1, NextTyped, NextRemote, NextValid, NextReachable, FormsDiffer
<1>4. IInv => NeverLockedOut
  BY DEF Reachable
<1> QED BY <1>2, <1>3, <1>4, PTL DEF Spec

LEMMA SettledIsTrue == Typed /\ Valid => VerdictIsTrue
<1> SUFFICES ASSUME Typed, Valid, NEW p \in Ports, Named(p)
             PROVE  /\ p \in srv.conf /\ Open(srv, p)
                    /\ power = "up" => p \in srv.listen
                    /\ "drop" \notin skipped => srv.conf = {p}
                    /\ power = "up" /\ skipped \cap {"drop", "restart"} = {} =>
                          srv.listen = {p}
  BY DEF VerdictIsTrue
<1>1. SettledAt(p)
  BY DEF Valid, Named
<1> QED BY <1>1 DEF SettledAt, Dropped, Opened, Open

\* Whichever lines of the clean-up or the rollback fail, success and the
\* rollback's message name a port that sshd is configured for and serves and UFW
\* leaves open to everybody, through reboots and power cuts and until the next
\* deploy begins. SSH is nowhere else when the line that drops the other port
\* took effect and, before the next start of sshd, the one that restarts it.
\* Without it: a form that asks for the port the server has, an exit status read
\* too early, a line of the dual-port configuration that fails.
THEOREM VerdictIsTrueHolds ==
    ASSUME DistinctPorts, {"lostStatus", "lineFails"} \cap Odds = {}
    PROVE  Spec => []VerdictIsTrue
<1>1. Spec => [](Typed /\ Remote /\ Valid)
  BY ValidHolds
<1>2. Typed /\ Remote /\ Valid => VerdictIsTrue
  BY SettledIsTrue
<1> QED BY <1>1, <1>2, PTL

\* The cleanup of step 9 gives the old port up only for a port that a start of
\* the whole system has brought up or an earlier rollback failed to drop, also
\* when the exit status was lost, through power cuts and whatever line of a
\* clean-up fails. Without it: an openssh-server that step 2 upgrades and
\* restarts, and a line of the dual-port configuration that fails.
THEOREM ColdStartProvenHolds ==
    ASSUME DistinctPorts, {"upgrade", "lineFails"} \cap Odds = {}
    PROVE  Spec => ColdStartProven
<1> DEFINE IInv == Typed /\ Remote /\ Warm
           Proven == \A p \in srv.conf \ srv'.conf :
                         (pc = "cleanup" /\ p = old) => new \in cold \cup kept
<1>1. Init => IInv
  <2>1. Init => Warm
    BY DEF Init, Warm
  <2> QED BY <2>1, InitTyped, InitRemote
<1>2. IInv /\ [Next]_vars => IInv'
  BY NextTyped, NextRemote, NextWarm, FormsDiffer
<1>3. IInv /\ [Next]_vars => [Proven]_vars
  BY DropsWhatIsProven
<1>4. Spec => [][Proven]_vars
  BY <1>1, <1>2, <1>3, PTL DEF Spec
<1> QED BY <1>4 DEF ColdStartProven
=============================================================================
