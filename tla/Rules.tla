------------------------------- MODULE Rules -------------------------------
(***************************************************************************)
(* The rules engine of one workspace: trigger, cooldown, actions.          *)
(*                                                                         *)
(*   api/rules.py             the scheduler's tick, the webhook receiver,  *)
(*                            the editing of rules                         *)
(*   services/rule_engine.py  whether a rule fires for an event            *)
(*   services/rules_store.py  rules.json                                   *)
(*                                                                         *)
(* An evaluator (the scheduler, or one delivery of a webhook) reads the    *)
(* rules once and awaits the actions of each firing; meanwhile users edit  *)
(* the rules, and other evaluators fire. A rule's conditions, its filters  *)
(* and its threshold are abstracted to whether a node has an event for it. *)
(* What an action does, the vault of bot tokens, and the lease that leaves *)
(* one scheduler, are left out.                                            *)
(***************************************************************************)
EXTENDS Integers, FiniteSets, Functions

CONSTANTS
    Ids,        \* ids of rules; none is given twice
    Nodes,      \* nodes the rules watch
    Scheduler,  \* the scheduler of ticks
    Hooks,      \* deliveries of webhooks, as many as can be under way at once
    Global,     \* the cooldown scope of webhooks and cron, ""
    NoRule, NoTime, NoMap,
    Cooldown,   \* cooldown_sec of every rule, in ticks
    Interval,   \* interval of a cron rule, in ticks
    Odds,       \* unlikely events to admit: see OddEvents
    MaxTime,    \* bound: the clock
    MaxEdits    \* bound: changes by users

\* What the run leaves out, one at a time:
\*   "crash"     the process dies between the actions and mark_fired
\*   "split"     gateway and worker are two processes: mark_fired is a read
\*               and a write of a file that others write in between
\*   "retrigger" the trigger of a rule is changed while an evaluator looks at
\*               it, or while its last firing is from before there were scopes
OddEvents == {"crash", "split", "retrigger"}

Evaluators == Hooks \cup {Scheduler}
Scopes == Nodes \cup {Global}
Times == 0 .. MaxTime

ASSUME ScopesAssumption == Global \notin Nodes /\ Scheduler \notin Hooks
ASSUME ValuesAssumption ==
    /\ NoTime \notin Nat /\ NoRule \notin Ids \cup Scopes
    /\ \A S \in SUBSET Scopes : NoMap \notin [S -> Times]
ASSUME TimesAssumption == Cooldown \in Nat /\ Interval \in Nat \ {0}
ASSUME OddsAssumption == Odds \subseteq OddEvents
ASSUME BoundsAssumption == MaxTime \in Nat /\ MaxEdits \in Nat

VARIABLES
    rules,   \* rules.json
    pc,      \* what an evaluator does
    now,     \*   the time it took when it began
    snap,    \*   the rules as it read them
    todo,    \*   rules it has still to look at
    cur,     \*   the rule it looks at
    events,  \*   the scopes of the events this rule fires for
    acting,  \*   the scope whose actions are awaited
    copy,    \*   rules.json as mark_fired read it
    down,    \* nodes with an incident longer than any rule's threshold
    clock, wake,  \* the time, and when the scheduler wakes
    edits,   \* changes by users so far
    made,    \* ids given out so far
    saved,   \* history: what users last saved of each rule
    lost,    \* history: rules that went with the file they were in
    fires,   \* history: when a rule last fired in earnest, per scope
    steady   \* history: nodes down since the tick began

evaluator == <<pc, now, snap, todo, cur, events, acting, copy>>
time      == <<clock, wake>>
users     == <<edits, made, saved, lost>>
vars      == <<rules, evaluator, time, users, down, fires, steady>>

-----------------------------------------------------------------------------
(* Rules                                                                   *)

Triggers == {"xray_down", "webhook", "cron"}

\* What a user decides of a rule. One on trial (dry_run) does nothing and notes
\* nothing, as one that is off.
Definition == [on: BOOLEAN, trigger: Triggers]

\* ... and what mark_fired writes: last_fired_at, and last_fired per scope,
\* which a rule from before there were scopes does not have.
Rule == [on: BOOLEAN, trigger: Triggers,
         last: Times \cup {NoTime},
         fired: {NoMap} \cup UNION {[S -> Times] : S \in SUBSET Scopes}]

\* A file, or a map of times, with a value for r.
With(f, r, v) == [i \in DOMAIN f \cup {r} |-> IF i = r THEN v ELSE f[i]]

Defined(rule) == [on |-> rule.on, trigger |-> rule.trigger]

NewRule(d) == [on |-> d.on, trigger |-> d.trigger,
               last |-> NoTime, fired |-> NoMap]

\* update_rule: found.update(patch)
Updated(rule, d) ==
    [rule EXCEPT !.on = d.on, !.trigger = d.trigger]

\* Mutant: one node's alarm silences the others.
LastFiredGlobal(rule, s) == rule.last

\* _last_fired_for
LastFired(rule, s) ==
    CASE rule.fired = NoMap       -> rule.last
      [] rule.fired # NoMap /\ s \in DOMAIN rule.fired -> rule.fired[s]
      [] rule.fired # NoMap /\ s \notin DOMAIN rule.fired
                                  -> IF s = Global THEN rule.last ELSE NoTime

\* evaluate, for an event that matches
ShouldFire(rule, s, t) ==
    LastFired(rule, s) # NoTime => t - LastFired(rule, s) >= Cooldown

\* _cron_due
CronDue(rule, t) == rule.last # NoTime => t - rule.last >= Interval

\* The rules an evaluator looks at: enabled, and driven by it.
Mine(e, rs, t) ==
    {r \in DOMAIN rs :
       /\ rs[r].on
       /\ IF e = Scheduler
          THEN \/ rs[r].trigger = "xray_down"
               \/ rs[r].trigger = "cron" /\ CronDue(rs[r], t)
          ELSE rs[r].trigger = "webhook"}

\* mark_fired on a file that may have lost the rule
Marked(rs, r, s, t) ==
    IF r \notin DOMAIN rs THEN rs
    ELSE LET before == IF rs[r].fired = NoMap THEN << >> ELSE rs[r].fired
         IN [rs EXCEPT ![r].last = t, ![r].fired = With(before, s, t)]

-----------------------------------------------------------------------------
(* Evaluators                                                              *)

Process(e) == IF e = Scheduler /\ "split" \in Odds THEN "worker" ELSE "gateway"

\* No mark_fired of this process is between its read and its write.
Writable(p) == \A e \in Evaluators : pc[e] = "mark" => Process(e) # p

Steps == {"idle", "list", "fire", "act", "mark"}

\* rules_loop wakes, remnawave_webhook accepts a delivery; other workspaces
\* come first, and their actions are awaited.
Wakes(e) ==
    /\ pc[e] = "idle"
    /\ e = Scheduler => clock >= wake
    /\ pc' = [pc EXCEPT ![e] = "list"]
    /\ now' = [now EXCEPT ![e] = clock]
    /\ steady' = IF e = Scheduler THEN down ELSE steady
    /\ UNCHANGED <<rules, snap, todo, cur, events, acting, copy, time, users,
                   down, fires>>

\* list_rules of this workspace
ListRules(e) ==
    /\ pc[e] = "list"
    /\ pc' = [pc EXCEPT ![e] = "fire"]
    /\ snap' = [snap EXCEPT ![e] = rules]
    /\ todo' = [todo EXCEPT ![e] = Mine(e, rules, now[e])]
    /\ UNCHANGED <<rules, now, cur, events, acting, copy, time, users, down,
                   fires, steady>>

\* The events of the next rule, those in their cooldown left out.
Looks(e, r) ==
    /\ pc[e] = "fire" /\ events[e] = {}
    /\ r \in todo[e] /\ todo' = [todo EXCEPT ![e] = @ \ {r}]
    /\ cur' = [cur EXCEPT ![e] = r]
    /\ LET rule == snap[e][r]
           scopes == IF rule.trigger = "xray_down" THEN down ELSE {Global}
           firing == {s \in scopes : ShouldFire(rule, s, now[e])}
       IN \/ /\ events' = [events EXCEPT ![e] = firing]
             /\ UNCHANGED steady
          \/ \* get_incidents raises: no events in this tick
             /\ rule.trigger = "xray_down"
             /\ events' = [events EXCEPT ![e] = {}]
             /\ steady' = {}
    /\ UNCHANGED <<rules, pc, now, snap, acting, copy, time, users, down, fires>>

\* _fire: the actions are awaited.
Acts(e, s) ==
    /\ pc[e] = "fire" /\ s \in events[e]
    /\ pc' = [pc EXCEPT ![e] = "act"]
    /\ acting' = [acting EXCEPT ![e] = s]
    /\ fires' = [fires EXCEPT ![cur[e]][s] = now[e]]
    /\ UNCHANGED <<rules, now, snap, todo, cur, events, copy, time, users, down,
                   steady>>

\* Mutant: mark_fired goes on from the rules of the tick.
MarkReadsSnap(e) ==
    /\ pc[e] = "act" /\ Writable(Process(e))
    /\ pc' = [pc EXCEPT ![e] = "mark"]
    /\ copy' = [copy EXCEPT ![e] = snap[e]]
    /\ UNCHANGED <<rules, now, snap, todo, cur, events, acting, time, users,
                   down, fires, steady>>

\* The actions are over, whatever came of them, and mark_fired reads the file.
MarkReads(e) ==
    /\ pc[e] = "act" /\ Writable(Process(e))
    /\ pc' = [pc EXCEPT ![e] = "mark"]
    /\ copy' = [copy EXCEPT ![e] = rules]
    /\ UNCHANGED <<rules, now, snap, todo, cur, events, acting, time, users,
                   down, fires, steady>>

MarkWrites(e) ==
    /\ pc[e] = "mark"
    /\ rules' = Marked(copy[e], cur[e], acting[e], now[e])
    /\ pc' = [pc EXCEPT ![e] = "fire"]
    /\ events' = [events EXCEPT ![e] = @ \ {acting[e]}]
    /\ copy' = [copy EXCEPT ![e] = << >>]
    /\ acting' = [acting EXCEPT ![e] = NoRule]
    /\ UNCHANGED <<now, snap, todo, cur, time, users, down, fires, steady>>

Finished(e) == pc[e] = "fire" /\ events[e] = {} /\ todo[e] = {}

\* Mutant: the loop is left before the last rule.
EndsEarly(e) ==
    /\ pc[e] = "fire" /\ events[e] = {}
    /\ pc' = [pc EXCEPT ![e] = "idle"]
    /\ snap' = [snap EXCEPT ![e] = << >>] /\ now' = [now EXCEPT ![e] = 0]
    /\ cur' = [cur EXCEPT ![e] = NoRule]
    /\ wake' = IF e = Scheduler THEN clock + 1 ELSE wake
    /\ UNCHANGED <<rules, todo, events, acting, copy, clock, users,
                   down, fires, steady>>

\* The delivery is answered; the scheduler sleeps for a tick.
Ends(e) ==
    /\ Finished(e)
    /\ pc' = [pc EXCEPT ![e] = "idle"]
    /\ snap' = [snap EXCEPT ![e] = << >>] /\ now' = [now EXCEPT ![e] = 0]
    /\ cur' = [cur EXCEPT ![e] = NoRule]
    /\ wake' = IF e = Scheduler THEN clock + 1 ELSE wake
    /\ UNCHANGED <<rules, todo, events, acting, copy, clock, users,
                   down, fires, steady>>

-----------------------------------------------------------------------------
(* Users                                                                   *)

Edits ==
    /\ Writable("gateway") /\ edits < MaxEdits
    /\ edits' = edits + 1
    /\ UNCHANGED <<evaluator, time, lost, down, fires, steady>>

\* What was noted of the rule under its old trigger is not in use any more.
Retriggers(r, d) ==
    \/ d.trigger = rules[r].trigger
    \/ "retrigger" \in Odds
    \/ /\ rules[r].fired = NoMap => rules[r].last = NoTime
       /\ \A e \in Evaluators : r \notin DOMAIN snap[e]

Create(r, d) ==
    /\ Edits /\ r \notin made
    /\ rules' = With(rules, r, NewRule(d))
    /\ made' = made \cup {r} /\ saved' = With(saved, r, d)

\* PATCH, of the switch in the list or of the whole form
Save(r, d) ==
    /\ Edits /\ r \in DOMAIN rules /\ Retriggers(r, d)
    /\ rules' = [rules EXCEPT ![r] = Updated(rules[r], d)]
    /\ saved' = [saved EXCEPT ![r] = d]
    /\ UNCHANGED made

Delete(r) ==
    /\ Edits /\ r \in DOMAIN rules
    /\ rules' = Restrict(rules, DOMAIN rules \ {r})
    /\ saved' = Restrict(saved, DOMAIN saved \ {r})
    /\ UNCHANGED made

-----------------------------------------------------------------------------
(* The world                                                               *)

Changes(n) ==
    /\ down' = IF n \in down THEN down \ {n} ELSE down \cup {n}
    /\ steady' = steady \ {n}
    /\ UNCHANGED <<rules, evaluator, time, users, fires>>

Advance ==
    /\ clock < MaxTime /\ clock' = clock + 1
    /\ UNCHANGED <<rules, evaluator, wake, users, down, fires, steady>>

Asleep ==
    /\ pc' = [e \in Evaluators |-> "idle"] /\ now' = [e \in Evaluators |-> 0]
    /\ snap' = [e \in Evaluators |-> << >>]
    /\ todo' = [e \in Evaluators |-> {}]
    /\ cur' = [e \in Evaluators |-> NoRule]
    /\ events' = [e \in Evaluators |-> {}]
    /\ acting' = [e \in Evaluators |-> NoRule]
    /\ copy' = [e \in Evaluators |-> << >>]

\* All processes die and start again; the scheduler begins with a tick.
Crash ==
    /\ (\E e \in Evaluators : pc[e] \in {"act", "mark"}) => "crash" \in Odds
    /\ Asleep
    /\ wake' = clock
    /\ UNCHANGED <<rules, clock, users, down, fires, steady>>

\* They die in the middle of a write. storage._write empties the file before it
\* fills it, and _read takes what is left for a file without rules.
TornWrite ==
    /\ \/ (\E e \in Evaluators : pc[e] = "mark") /\ UNCHANGED edits
       \/ Writable("gateway") /\ edits < MaxEdits /\ edits' = edits + 1
    /\ rules' = << >> /\ lost' = lost \cup DOMAIN rules
    /\ Asleep
    /\ wake' = clock
    /\ UNCHANGED <<clock, made, saved, down, fires, steady>>

-----------------------------------------------------------------------------
\* A rule that was never fired, or last before there were scopes; or none.
Init ==
    /\ \/ rules = << >> /\ fires = [r \in Ids |-> [s \in Scopes |-> NoTime]]
       \/ \E r \in Ids, d \in Definition, t \in {0, NoTime} :
             /\ rules = [i \in {r} |-> [NewRule(d) EXCEPT !.last = t]]
             /\ fires = [i \in Ids |-> [s \in Scopes |->
                   IF i = r /\ (s = Global <=> d.trigger # "xray_down") THEN t
                   ELSE NoTime]]
    /\ made = DOMAIN rules /\ saved = [r \in made |-> Defined(rules[r])]
    /\ edits = 0 /\ lost = {}
    /\ pc = [e \in Evaluators |-> "idle"] /\ now = [e \in Evaluators |-> 0]
    /\ snap = [e \in Evaluators |-> << >>] /\ copy = snap
    /\ todo = [e \in Evaluators |-> {}] /\ events = todo
    /\ cur = [e \in Evaluators |-> NoRule] /\ acting = cur
    /\ down \in SUBSET Nodes /\ steady = {}
    /\ clock = 0 /\ wake = 0

Evaluates(e) ==
    \/ Wakes(e) \/ ListRules(e)
    \/ \E r \in todo[e] : Looks(e, r)
    \/ \E s \in events[e] : Acts(e, s)
    \/ MarkReads(e) \/ MarkWrites(e) \/ Ends(e)

User == \E r \in Ids :
    \/ \E d \in Definition : Create(r, d) \/ Save(r, d)
    \/ Delete(r)

Next ==
    \/ \E e \in Evaluators : Evaluates(e)
    \/ User
    \/ \E n \in Nodes : Changes(n)
    \/ Advance \/ Crash \/ TornWrite

Spec == Init /\ [][Next]_vars

-----------------------------------------------------------------------------
\* Every variable has its type; an evaluator's rule is one it has read.
TypeOK ==
    /\ IsFiniteSet(DOMAIN rules) /\ \A r \in DOMAIN rules : rules[r] \in Rule
    /\ DOMAIN rules \subseteq made /\ made \subseteq Ids /\ lost \subseteq made
    /\ \A e \in Evaluators :
          /\ pc[e] \in Steps /\ now[e] \in 0 .. clock
          /\ todo[e] \subseteq DOMAIN snap[e]
          /\ events[e] # {} => cur[e] \in DOMAIN snap[e] \ todo[e]
          /\ events[e] \subseteq Scopes
          /\ pc[e] \in {"act", "mark"} <=> acting[e] \in events[e]
    /\ steady \subseteq down /\ clock \in Times
    /\ edits \in 0 .. MaxEdits

\* What the file says of a rule is what a user last saved, and a rule a user
\* deleted is gone, however the marks of firings, the edits and restarts mix: no
\* rule is missing but those in the file when a process died writing it.
RulesAsSaved ==
    [r \in DOMAIN rules |-> Defined(rules[r])] = Restrict(saved, DOMAIN saved \ lost)

\* An alarm is neither repeated within its cooldown nor, once the tick is over,
\* missing for a node that has been down throughout it, whichever other nodes
\* the rule fired for and whatever users changed meanwhile ("a down A can't
\* suppress a down B during cooldown").
AlarmsOnTime ==
    [][/\ \A r \in Ids, s \in Scopes :
            fires'[r][s] # fires[r][s] /\ fires[r][s] # NoTime
            => fires'[r][s] - fires[r][s] >= Cooldown
       /\ Finished(Scheduler) /\ pc'[Scheduler] = "idle" =>
            \A r \in DOMAIN snap[Scheduler] :
               LET rule == snap[Scheduler][r] IN
               rule.on /\ rule.trigger = "xray_down" =>
               \A n \in steady :
                  \/ fires[r][n] = now[Scheduler]
                  \/ /\ fires[r][n] # NoTime
                     /\ now[Scheduler] - fires[r][n] < Cooldown]_vars
=============================================================================
