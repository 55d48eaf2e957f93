---------------------------- MODULE RulesProofs ----------------------------
(***************************************************************************)
(* The rules engine, for any rules, nodes, deliveries of webhooks, times   *)
(* and edits.                                                              *)
(*                                                                         *)
(*   Typed   types, also of the rules an evaluator has read                *)
(*   Sole    one mark_fired at a time, on the file as it is: no mark takes *)
(*           an edit back, and none is missing but those a torn write lost *)
(*   Timely  what the file, and a list read from it, notes of a firing is  *)
(*           when the rule fired; what an evaluator is about to fire is    *)
(*           due; what it has looked at is fired or in its cooldown        *)
(***************************************************************************)
EXTENDS Rules, FiniteSetTheorems, TLAPS

\* There is one delivery of a webhook at a time (nothing in the code sees to it).
OneHook == \A h1, h2 \in Hooks : h1 = h2

RulesFile(rs) ==
    /\ IsFiniteSet(DOMAIN rs) /\ DOMAIN rs \subseteq made
    /\ \A r \in DOMAIN rs : rs[r] \in Rule

Typed ==
    /\ TypeOK
    /\ pc \in [Evaluators -> Steps] /\ now \in [Evaluators -> Times]
    /\ DOMAIN snap = Evaluators /\ DOMAIN copy = Evaluators
    /\ todo \in [Evaluators -> SUBSET Ids] /\ events \in [Evaluators -> SUBSET Scopes]
    /\ cur \in [Evaluators -> Ids \cup {NoRule}]
    /\ acting \in [Evaluators -> Scopes \cup {NoRule}]
    /\ \A e \in Evaluators :
          /\ RulesFile(snap[e]) /\ RulesFile(copy[e])
          /\ pc[e] \in {"idle", "list"} => DOMAIN snap[e] = {}
          /\ pc[e] \notin {"act", "mark"} => acting[e] = NoRule
    /\ fires \in [Ids -> [Scopes -> Times \cup {NoTime}]]
    /\ down \subseteq Nodes /\ IsFiniteSet(made)

\* The file holds what users saved of the rules that were not lost.
AsSaved ==
    /\ DOMAIN saved \ lost = DOMAIN rules
    /\ \A r \in DOMAIN rules : saved[r] = Defined(rules[r])

Sole ==
    /\ AsSaved
    /\ \A e \in Evaluators : pc[e] = "mark" =>
          /\ copy[e] = rules
          /\ \A f \in Evaluators : pc[f] = "mark" => f = e

-----------------------------------------------------------------------------
(* Alarms                                                                   *)

\* The evaluator that looks at rules with this trigger.
Drives(e, trigger) == e = Scheduler <=> trigger # "webhook"

\* The scopes a rule with this trigger fires for.
ScopesOf(trigger) == IF trigger = "xray_down" THEN Nodes ELSE {Global}

\* The actions of rule r for scope s are awaited, or its mark is.
Acting(e, r, s) == pc[e] \in {"act", "mark"} /\ cur[e] = r /\ acting[e] = s

\* When the last tick began that the scheduler has begun.
Tick == IF pc[Scheduler] = "idle" THEN clock ELSE now[Scheduler]

\* What rule notes of its last firing for s is what happened, f; or it notes
\* nothing, since it began to note scopes after it fired for a node before.
NotedIn(rule, f, s, tick) ==
    /\ rule.fired = NoMap =>
          f = IF s \in ScopesOf(rule.trigger) THEN rule.last ELSE NoTime
    /\ rule.fired # NoMap /\ s \in DOMAIN rule.fired => f = rule.fired[s]
    /\ rule.fired # NoMap /\ s \notin DOMAIN rule.fired /\ f # NoTime =>
          s \in Nodes /\ f + Cooldown <= tick

NotedAt(rule, r, s) == NotedIn(rule, fires[r][s], s, Tick)

\* A rule has one trigger as long as somebody has read it.
Kinds ==
    /\ \A e \in Evaluators :
          /\ \A r \in todo[e] : Drives(e, snap[e][r].trigger)
          /\ events[e] # {} => Drives(e, snap[e][cur[e]].trigger)
          /\ \A s \in events[e] : s \in ScopesOf(snap[e][cur[e]].trigger)
          /\ \A r \in DOMAIN snap[e] \cap DOMAIN rules :
                snap[e][r].trigger = rules[r].trigger
    /\ \A e, f \in Evaluators : \A r \in DOMAIN snap[e] \cap DOMAIN snap[f] :
          snap[e][r].trigger = snap[f][r].trigger

\* What the file and the lists say of past firings.
Noted ==
    /\ \A r \in Ids \ made : \A s \in Scopes : fires[r][s] = NoTime
    /\ \A r \in DOMAIN rules, s \in Scopes :
          (\E e \in Evaluators : Acting(e, r, s)) \/ NotedAt(rules[r], r, s)
    /\ \A e \in Evaluators : \A r \in todo[e], s \in Scopes : NotedAt(snap[e][r], r, s)

\* What is about to fire, or fires, is due.
Due ==
    \A e \in Evaluators :
       /\ \A s \in events[e] :
             \/ Acting(e, cur[e], s) /\ fires[cur[e]][s] = now[e]
             \/ ~Acting(e, cur[e], s) /\
                (fires[cur[e]][s] # NoTime => now[e] - fires[cur[e]][s] >= Cooldown)
       /\ events[e] # {} /\ pc[e] \in {"act", "mark"} /\ cur[e] \in DOMAIN rules
          /\ rules[cur[e]].fired = NoMap /\ rules[cur[e]].last # NoTime =>
             now[e] - rules[cur[e]].last >= Cooldown

\* A node that stays down is not passed over.
Told ==
    \A r \in DOMAIN snap[Scheduler] \ todo[Scheduler] :
       snap[Scheduler][r].on /\ snap[Scheduler][r].trigger = "xray_down" =>
          \A n \in steady :
             \/ cur[Scheduler] = r /\ n \in events[Scheduler]
             \/ fires[r][n] = now[Scheduler]
             \/ fires[r][n] # NoTime /\ now[Scheduler] - fires[r][n] < Cooldown

Timely == Kinds /\ Noted /\ Due /\ Told

-----------------------------------------------------------------------------
(* Types                                                                    *)

Maps == UNION {[S -> Times] : S \in SUBSET Scopes}

LEMMA MapFacts ==
    /\ \A f : f \in Maps <=> DOMAIN f \subseteq Scopes /\ f \in [DOMAIN f -> Times]
    /\ NoMap \notin Maps
<1>1. ASSUME NEW f \in Maps
      PROVE  DOMAIN f \subseteq Scopes /\ f \in [DOMAIN f -> Times]
  BY DEF Maps
<1>2. ASSUME NEW f, DOMAIN f \subseteq Scopes, f \in [DOMAIN f -> Times]
      PROVE  f \in Maps
  <2>1. [DOMAIN f -> Times] \in {[S -> Times] : S \in SUBSET Scopes}
    BY <1>2
  <2> QED BY <1>2, <2>1 DEF Maps
<1>3. NoMap \notin Maps
  BY ValuesAssumption DEF Maps
<1> QED BY <1>1, <1>2, <1>3

\* A map with a time more is a map.
LEMMA MapWith ==
    ASSUME NEW f \in Maps, NEW s \in Scopes, NEW t \in Times
    PROVE  /\ With(f, s, t) \in Maps /\ DOMAIN With(f, s, t) = DOMAIN f \cup {s}
           /\ With(f, s, t)[s] = t
           /\ \A x \in DOMAIN f : x # s => With(f, s, t)[x] = f[x]
<1> DEFINE g == With(f, s, t)
<1>1. /\ DOMAIN g = DOMAIN f \cup {s} /\ g[s] = t
      /\ \A x \in DOMAIN f : x # s => g[x] = f[x]
  BY DEF With
<1>2. DOMAIN f \subseteq Scopes /\ f \in [DOMAIN f -> Times]
  BY MapFacts
<1>3. g \in [DOMAIN f \cup {s} -> Times]
  BY <1>2 DEF With
<1>4. g \in Maps
  <2> HIDE DEF g
  <2> QED BY <1>1, <1>2, <1>3, MapFacts
<1> QED BY <1>1, <1>4

LEMMA EmptyMap == << >> \in Maps /\ DOMAIN << >> = {}
<1>1. << >> = [x \in {} |-> x] /\ DOMAIN << >> = {}
  OBVIOUS
<1>2. [x \in {} |-> x] \in [{} -> Times]
  OBVIOUS
<1> QED BY <1>1, <1>2, MapFacts

LEMMA RuleIs ==
    Rule = [on: BOOLEAN, trigger: Triggers, last: Times \cup {NoTime},
            fired: {NoMap} \cup Maps]
  BY DEF Rule, Maps

LEMMA RuleParts ==
    ASSUME NEW x \in Rule
    PROVE  /\ x.on \in BOOLEAN /\ x.trigger \in Triggers
           /\ x.last \in Times \cup {NoTime} /\ x.fired \in {NoMap} \cup Maps
  BY RuleIs

LEMMA NewRuleTyped ==
    ASSUME NEW d \in Definition
    PROVE  /\ NewRule(d) \in Rule /\ NewRule(d).on = d.on /\ NewRule(d).trigger = d.trigger
           /\ NewRule(d).last = NoTime /\ NewRule(d).fired = NoMap
  BY RuleIs DEF NewRule, Definition

LEMMA UpdatedTyped ==
    ASSUME NEW x \in Rule, NEW d \in Definition
    PROVE  /\ Updated(x, d) \in Rule /\ Updated(x, d).on = d.on
           /\ Updated(x, d).trigger = d.trigger
           /\ Updated(x, d).last = x.last /\ Updated(x, d).fired = x.fired
<1>1. d.on \in BOOLEAN /\ d.trigger \in Triggers
  BY DEF Definition
<1> QED BY <1>1, RuleIs DEF Updated

\* mark_fired: one rule notes one firing more.
Before(rule) == IF rule.fired = NoMap THEN << >> ELSE rule.fired

LEMMA MarkedOthers ==
    ASSUME NEW rs, NEW r, NEW s, NEW t
    PROVE  /\ DOMAIN Marked(rs, r, s, t) = DOMAIN rs
           /\ \A i \in DOMAIN rs : i # r => Marked(rs, r, s, t)[i] = rs[i]
  BY DEF Marked

LEMMA MarkedRule ==
    ASSUME NEW rs, NEW r \in DOMAIN rs, rs[r] \in Rule, NEW s \in Scopes, NEW t \in Times
    PROVE  /\ Marked(rs, r, s, t)[r] \in Rule
           /\ Marked(rs, r, s, t)[r].on = rs[r].on
           /\ Marked(rs, r, s, t)[r].trigger = rs[r].trigger
           /\ Marked(rs, r, s, t)[r].last = t
           /\ Marked(rs, r, s, t)[r].fired = With(Before(rs[r]), s, t)
           /\ Before(rs[r]) \in Maps
<1>1. Before(rs[r]) \in Maps
  BY EmptyMap, RuleParts DEF Before
<1> DEFINE m == With(Before(rs[r]), s, t)
           y == [rs[r] EXCEPT !.last = t, !.fired = m]
<1>2. m \in Maps
  BY <1>1, MapWith
<1>3. Marked(rs, r, s, t) = [rs EXCEPT ![r] = y]
  BY DEF Marked, Before
<1>4. /\ y \in Rule /\ y.on = rs[r].on /\ y.trigger = rs[r].trigger
      /\ y.last = t /\ y.fired = m
  <2> HIDE DEF m
  <2>1. rs[r] \in Rule
    OBVIOUS
  <2> QED BY <1>2, <2>1, RuleIs
<1> HIDE DEF y
<1>5. [rs EXCEPT ![r] = y][r] = y
  OBVIOUS
<1> QED BY <1>1, <1>3, <1>4, <1>5

\* What TypeOK says of one evaluator.
Own(e) ==
    /\ pc[e] \in Steps /\ now[e] \in 0 .. clock
    /\ todo[e] \subseteq DOMAIN snap[e]
    /\ events[e] # {} => cur[e] \in DOMAIN snap[e] \ todo[e]
    /\ events[e] \subseteq Scopes
    /\ pc[e] \in {"act", "mark"} <=> acting[e] \in events[e]

\* ... and of the rest.
Rest ==
    /\ RulesFile(rules) /\ made \subseteq Ids /\ IsFiniteSet(made)
    /\ lost \subseteq made /\ steady \subseteq down /\ clock \in Times
    /\ edits \in 0 .. MaxEdits /\ down \subseteq Nodes
    /\ fires \in [Ids -> [Scopes -> Times \cup {NoTime}]]

\* The variables of the evaluators are functions of them.
Functional ==
    /\ pc \in [Evaluators -> Steps] /\ now \in [Evaluators -> Times]
    /\ DOMAIN snap = Evaluators /\ DOMAIN copy = Evaluators
    /\ todo \in [Evaluators -> SUBSET Ids] /\ events \in [Evaluators -> SUBSET Scopes]
    /\ cur \in [Evaluators -> Ids \cup {NoRule}]
    /\ acting \in [Evaluators -> Scopes \cup {NoRule}]

Read ==
    \A e \in Evaluators :
       /\ RulesFile(snap[e]) /\ RulesFile(copy[e])
       /\ pc[e] \in {"idle", "list"} => DOMAIN snap[e] = {}
       /\ pc[e] \notin {"act", "mark"} => acting[e] = NoRule

LEMMA TypedIs == Typed <=> Rest /\ Functional /\ Read /\ \A e \in Evaluators : Own(e)
<1>1. ASSUME Typed PROVE Rest /\ Functional /\ Read /\ \A e \in Evaluators : Own(e)
  BY <1>1, Zenon DEF Typed, TypeOK, Rest, Functional, Read, Own, RulesFile
<1>2. ASSUME Rest, Functional, Read, \A e \in Evaluators : Own(e) PROVE Typed
  <2>1. TypeOK
    BY <1>2, Zenon DEF TypeOK, Rest, Own, RulesFile
  <2> QED BY <1>2, <2>1, Zenon DEF Typed, Rest, Functional, Read
<1> QED BY <1>1, <1>2

LEMMA TypedIsNext ==
    Typed' <=> Rest' /\ Functional' /\ Read' /\ \A e \in Evaluators : Own(e)'
<1>1. (Typed <=> Rest /\ Functional /\ Read /\ \A e \in Evaluators : Own(e))'
  BY TypedIs, PTL
<1> QED BY <1>1

LEMMA EmptyFile == RulesFile(<< >>)
  BY EmptyMap, FS_EmptySet DEF RulesFile

LEMMA InitTyped == Init => Typed
<1> SUFFICES ASSUME Init PROVE Typed
  OBVIOUS
<1>1. made = DOMAIN rules /\ RulesFile(rules) /\ made \subseteq Ids
      /\ fires \in [Ids -> [Scopes -> Times \cup {NoTime}]]
  <2>0. 0 \in Times
    BY BoundsAssumption DEF Times
  <2>1. CASE rules = << >> /\ fires = [r \in Ids |-> [s \in Scopes |-> NoTime]]
    BY <2>1, EmptyFile, EmptyMap DEF Init
  <2>2. CASE \E r \in Ids, d \in Definition, t \in {0, NoTime} :
               /\ rules = [i \in {r} |-> [NewRule(d) EXCEPT !.last = t]]
               /\ fires = [i \in Ids |-> [s \in Scopes |->
                     IF i = r /\ (s = Global <=> d.trigger # "xray_down") THEN t
                     ELSE NoTime]]
    <3>1. PICK r \in Ids, d \in Definition, t \in {0, NoTime} :
               /\ rules = [i \in {r} |-> [NewRule(d) EXCEPT !.last = t]]
               /\ fires = [i \in Ids |-> [s \in Scopes |->
                     IF i = r /\ (s = Global <=> d.trigger # "xray_down") THEN t
                     ELSE NoTime]]
      BY <2>2
    <3>2. t \in Times \cup {NoTime}
      BY <2>0
    <3>3. [NewRule(d) EXCEPT !.last = t] \in Rule
      BY <3>2, NewRuleTyped, RuleIs
    <3>4. DOMAIN rules = {r} /\ rules[r] \in Rule
      BY <3>1, <3>3
    <3>5. IsFiniteSet({r})
      BY FS_Singleton
    <3>6. \A i \in Ids, s \in Scopes :
             (IF i = r /\ (s = Global <=> d.trigger # "xray_down") THEN t ELSE NoTime)
                \in Times \cup {NoTime}
      BY <3>2
    <3>7. fires \in [Ids -> [Scopes -> Times \cup {NoTime}]]
      BY <3>1, <3>6
    <3> QED BY <3>4, <3>5, <3>7 DEF Init, RulesFile
  <2> QED BY <2>1, <2>2 DEF Init
<1>2. Rest
  BY <1>1, BoundsAssumption DEF Init, Rest, RulesFile, Times
<1>3. Functional
  BY BoundsAssumption DEF Init, Functional, Steps, Times
<1>4. Read
  BY EmptyFile, EmptyMap DEF Init, Read
<1>5. ASSUME NEW e \in Evaluators PROVE Own(e)
  <2>1. /\ pc[e] = "idle" /\ now[e] = 0 /\ todo[e] = {} /\ events[e] = {} /\ clock = 0
    BY DEF Init
  <2> QED BY <2>1 DEF Own, Steps
<1> QED BY <1>2, <1>3, <1>4, <1>5, TypedIs

\* A step of one evaluator is nothing to the others.
LEMMA OthersOwn ==
    ASSUME Typed, NEW e \in Evaluators, Own(e)', clock' = clock,
           \A f \in Evaluators \ {e} :
              /\ pc'[f] = pc[f] /\ now'[f] = now[f] /\ snap'[f] = snap[f]
              /\ todo'[f] = todo[f] /\ cur'[f] = cur[f] /\ events'[f] = events[f]
              /\ acting'[f] = acting[f]
    PROVE  \A f \in Evaluators : Own(f)'
<1> SUFFICES ASSUME NEW f \in Evaluators, f # e PROVE Own(f)'
  OBVIOUS
<1>1. Own(f)
  BY TypedIs
<1>2. /\ pc'[f] = pc[f] /\ now'[f] = now[f] /\ snap'[f] = snap[f]
      /\ todo'[f] = todo[f] /\ cur'[f] = cur[f] /\ events'[f] = events[f]
      /\ acting'[f] = acting[f] /\ clock' = clock
  OBVIOUS
<1> QED BY <1>1, <1>2, Zenon DEF Own

LEMMA FileKept ==
    ASSUME NEW rs, RulesFile(rs), made \subseteq made'
    PROVE  RulesFile(rs)'
  BY DEF RulesFile

LEMMA WakesTyped == ASSUME Typed, NEW e \in Evaluators, Wakes(e) PROVE Typed'
<1>1. Rest /\ Functional /\ Read /\ \A f \in Evaluators : Own(f)
  BY TypedIs
<1>2. /\ UNCHANGED <<rules, snap, todo, cur, events, acting, copy, clock, edits, made, lost,
                     down, fires>>
      /\ pc[e] = "idle" /\ pc' = [pc EXCEPT ![e] = "list"]
      /\ now' = [now EXCEPT ![e] = clock] /\ steady' \in {steady, down}
  BY DEF Wakes, time, users
<1>3. Rest'
  BY <1>1, <1>2 DEF Rest, RulesFile
<1>4. Functional'
  BY <1>1, <1>2 DEF Functional, Steps, Rest
<1>5. Read'
  BY <1>1, <1>2 DEF Read, RulesFile, Functional
<1>6. Own(e)'
  <2>1. pc'[e] = "list" /\ now'[e] = clock /\ clock \in Nat
    BY <1>1, <1>2, BoundsAssumption DEF Functional, Rest, Times
  <2>2. pc'[e] \in Steps /\ now'[e] \in 0 .. clock
    BY <2>1 DEF Steps
  <2>3. pc'[e] \notin {"act", "mark"} /\ acting[e] \notin events[e]
    BY <1>1, <1>2, <2>1, Zenon DEF Own
  <2> QED BY <1>1, <1>2, <2>2, <2>3, Zenon DEF Own
<1>7. \A f \in Evaluators : Own(f)'
  BY <1>1, <1>2, <1>6, OthersOwn DEF Functional
<1> QED BY <1>3, <1>4, <1>5, <1>7, TypedIsNext

LEMMA ListRulesTyped == ASSUME Typed, NEW e \in Evaluators, ListRules(e) PROVE Typed'
<1>1. Rest /\ Functional /\ Read /\ \A f \in Evaluators : Own(f)
  BY TypedIs
<1>2. /\ UNCHANGED <<rules, now, cur, events, acting, copy, clock, edits, made, lost,
                     down, fires, steady>>
      /\ pc[e] = "list" /\ pc' = [pc EXCEPT ![e] = "fire"]
      /\ snap' = [snap EXCEPT ![e] = rules]
      /\ todo' = [todo EXCEPT ![e] = Mine(e, rules, now[e])]
  BY DEF ListRules, time, users
<1>3. Rest'
  BY <1>1, <1>2 DEF Rest, RulesFile
<1>4. Mine(e, rules, now[e]) \subseteq DOMAIN rules /\ DOMAIN rules \subseteq Ids
  BY <1>1 DEF Mine, Rest, RulesFile
<1>5. Functional'
  BY <1>1, <1>2, <1>4 DEF Functional, Steps
<1>6. Read'
  BY <1>1, <1>2 DEF Read, Rest, RulesFile, Functional
<1>7. Own(e)'
  <2>1. events[e] = {}
    BY <1>1, <1>2 DEF Own, Read
  <2>2. acting[e] \notin events[e] /\ pc'[e] = "fire" /\ snap'[e] = rules
        /\ todo'[e] = Mine(e, rules, now[e])
    BY <1>1, <1>2, <2>1 DEF Functional
  <2>3. pc'[e] \in Steps /\ pc'[e] \notin {"act", "mark"}
    BY <2>2 DEF Steps
  <2> QED BY <1>1, <1>2, <1>4, <2>1, <2>2, <2>3, Zenon DEF Own
<1>8. \A f \in Evaluators : Own(f)'
  BY <1>1, <1>2, <1>7, OthersOwn DEF Functional
<1> QED BY <1>3, <1>5, <1>6, <1>8, TypedIsNext

LEMMA LooksTyped ==
    ASSUME Typed, NEW e \in Evaluators, NEW r \in todo[e], Looks(e, r)
    PROVE  Typed'
<1>1. Rest /\ Functional /\ Read /\ \A f \in Evaluators : Own(f)
  BY TypedIs
<1>2. /\ UNCHANGED <<rules, pc, now, snap, acting, copy, clock, edits, made, lost, down, fires>>
      /\ pc[e] = "fire" /\ events[e] = {}
      /\ todo' = [todo EXCEPT ![e] = todo[e] \ {r}]
      /\ cur' = [cur EXCEPT ![e] = r]
  BY DEF Looks, time, users
<1>3. PICK new \in SUBSET Scopes : events' = [events EXCEPT ![e] = new]
  BY <1>1 DEF Looks, Rest, Scopes
<1>4. steady' \in {steady, {}}
  BY DEF Looks
<1>5. Rest'
  BY <1>1, <1>2, <1>4 DEF Rest, RulesFile
<1>6. r \in Ids /\ r \in DOMAIN snap[e]
  BY <1>1 DEF Functional, Own
<1>7. Functional'
  BY <1>1, <1>2, <1>3, <1>6 DEF Functional
<1>8. Read'
  BY <1>1, <1>2 DEF Read, RulesFile
<1>9. Own(e)'
  <2>1. /\ events'[e] = new /\ todo'[e] = todo[e] \ {r} /\ cur'[e] = r
    BY <1>1, <1>2, <1>3 DEF Functional
  <2>2. acting[e] \notin new
    BY <1>1, <1>2, ValuesAssumption DEF Read
  <2> QED BY <1>1, <1>2, <1>6, <2>1, <2>2, Zenon DEF Own
<1>10. \A f \in Evaluators : Own(f)'
  BY <1>1, <1>2, <1>3, <1>9, OthersOwn DEF Functional
<1> QED BY <1>5, <1>7, <1>8, <1>10, TypedIsNext

LEMMA ActsTyped ==
    ASSUME Typed, NEW e \in Evaluators, NEW s \in events[e], Acts(e, s)
    PROVE  Typed'
<1>1. Rest /\ Functional /\ Read /\ \A f \in Evaluators : Own(f)
  BY TypedIs
<1>2. /\ UNCHANGED <<rules, now, snap, todo, cur, events, copy, clock, edits, made, lost, down,
                     steady>>
      /\ pc[e] = "fire" /\ pc' = [pc EXCEPT ![e] = "act"]
      /\ acting' = [acting EXCEPT ![e] = s]
      /\ fires' = [fires EXCEPT ![cur[e]][s] = now[e]]
  BY DEF Acts, time, users
<1>3. s \in Scopes /\ now[e] \in Times
  BY <1>1 DEF Functional
<1>4. fires' \in [Ids -> [Scopes -> Times \cup {NoTime}]]
  BY <1>1, <1>2, <1>3 DEF Rest
<1>5. Rest'
  BY <1>1, <1>2, <1>4 DEF Rest, RulesFile
<1>6. Functional'
  BY <1>1, <1>2, <1>3 DEF Functional, Steps
<1>7. Read'
  BY <1>1, <1>2 DEF Read, RulesFile, Functional
<1>8. Own(e)'
  <2>1. pc'[e] = "act" /\ acting'[e] = s
    BY <1>1, <1>2 DEF Functional
  <2> QED BY <1>1, <1>2, <2>1 DEF Own, Steps
<1>9. \A f \in Evaluators : Own(f)'
  BY <1>1, <1>2, <1>8, OthersOwn DEF Functional
<1> QED BY <1>5, <1>6, <1>7, <1>9, TypedIsNext

LEMMA MarkReadsTyped == ASSUME Typed, NEW e \in Evaluators, MarkReads(e) PROVE Typed'
<1>1. Rest /\ Functional /\ Read /\ \A f \in Evaluators : Own(f)
  BY TypedIs
<1>2. /\ UNCHANGED <<rules, now, snap, todo, cur, events, acting, clock, edits, made, lost, down,
                     fires, steady>>
      /\ pc[e] = "act" /\ pc' = [pc EXCEPT ![e] = "mark"]
      /\ copy' = [copy EXCEPT ![e] = rules]
  BY DEF MarkReads, time, users
<1>3. Rest'
  BY <1>1, <1>2 DEF Rest, RulesFile
<1>4. Functional'
  BY <1>1, <1>2 DEF Functional, Steps
<1>5. Read'
  BY <1>1, <1>2 DEF Read, RulesFile, Functional, Rest
<1>6. Own(e)'
  <2>1. pc'[e] = "mark"
    BY <1>1, <1>2 DEF Functional
  <2> QED BY <1>1, <1>2, <2>1 DEF Own, Steps
<1>7. \A f \in Evaluators : Own(f)'
  BY <1>1, <1>2, <1>6, OthersOwn DEF Functional
<1> QED BY <1>3, <1>4, <1>5, <1>7, TypedIsNext

LEMMA MarkWritesTyped == ASSUME Typed, NEW e \in Evaluators, MarkWrites(e) PROVE Typed'
<1>1. Rest /\ Functional /\ Read /\ \A f \in Evaluators : Own(f)
  BY TypedIs
<1>2. /\ UNCHANGED <<now, snap, todo, cur, clock, edits, made, lost, down, fires, steady>>
      /\ pc[e] = "mark" /\ pc' = [pc EXCEPT ![e] = "fire"]
      /\ rules' = Marked(copy[e], cur[e], acting[e], now[e])
      /\ events' = [events EXCEPT ![e] = events[e] \ {acting[e]}]
      /\ copy' = [copy EXCEPT ![e] = << >>]
      /\ acting' = [acting EXCEPT ![e] = NoRule]
  BY DEF MarkWrites, time, users
<1>3. acting[e] \in Scopes /\ now[e] \in Times /\ RulesFile(copy[e])
  BY <1>1, <1>2 DEF Own, Functional, Read
<1>4. RulesFile(rules)'
  <2> DEFINE m == Marked(copy[e], cur[e], acting[e], now[e])
  <2>1. \A i \in DOMAIN copy[e] : copy[e][i] \in Rule
    BY <1>3 DEF RulesFile
  <2>2. DOMAIN m = DOMAIN copy[e] /\ \A i \in DOMAIN m : m[i] \in Rule
    <3>1. acting[e] \in Scopes /\ now[e] \in Times
      BY <1>3
    <3>2. ASSUME NEW i \in DOMAIN copy[e]
          PROVE  m[i] \in Rule
      <4>1. CASE i # cur[e]
        BY <2>1, <4>1, MarkedOthers
      <4>2. CASE i = cur[e]
        BY <2>1, <3>1, <4>2, MarkedRule
      <4> QED BY <4>1, <4>2
    <3> QED BY <3>2, MarkedOthers
  <2> HIDE DEF m
  <2>3. rules' = m
    BY <1>2 DEF m
  <2> QED BY <1>2, <1>3, <2>2, <2>3 DEF RulesFile
<1>5. Rest'
  BY <1>1, <1>2, <1>4 DEF Rest
<1>6. Functional'
  BY <1>1, <1>2 DEF Functional, Steps
<1>7. Read'
  BY <1>1, <1>2, EmptyFile DEF Read, RulesFile, Functional
<1>8. Own(e)'
  <2>1. pc'[e] = "fire" /\ acting'[e] = NoRule /\ events'[e] = events[e] \ {acting[e]}
    BY <1>1, <1>2 DEF Functional
  <2>2. NoRule \notin Scopes
    BY ValuesAssumption
  <2> QED BY <1>1, <1>2, <2>1, <2>2 DEF Own, Steps
<1>9. \A f \in Evaluators : Own(f)'
  BY <1>1, <1>2, <1>8, OthersOwn DEF Functional
<1> QED BY <1>5, <1>6, <1>7, <1>9, TypedIsNext

LEMMA EndsTyped == ASSUME Typed, NEW e \in Evaluators, Ends(e) PROVE Typed'
<1>1. Rest /\ Functional /\ Read /\ \A f \in Evaluators : Own(f)
  BY TypedIs
<1>2. /\ UNCHANGED <<rules, todo, events, acting, copy, clock, edits, made, lost, down, fires,
                     steady>>
      /\ pc[e] = "fire" /\ events[e] = {} /\ todo[e] = {}
      /\ pc' = [pc EXCEPT ![e] = "idle"]
      /\ snap' = [snap EXCEPT ![e] = << >>] /\ now' = [now EXCEPT ![e] = 0]
      /\ cur' = [cur EXCEPT ![e] = NoRule]
  BY DEF Ends, Finished, users
<1>3. Rest'
  BY <1>1, <1>2 DEF Rest, RulesFile
<1>4. Functional'
  BY <1>1, <1>2, BoundsAssumption DEF Functional, Steps, Times
<1>5. Read'
  BY <1>1, <1>2, EmptyFile, EmptyMap DEF Read, RulesFile, Functional
<1>6. Own(e)'
  <2>1. pc'[e] = "idle" /\ now'[e] = 0 /\ clock \in Nat
    BY <1>1, <1>2, BoundsAssumption DEF Functional, Rest, Times
  <2>2. pc'[e] \in Steps /\ now'[e] \in 0 .. clock /\ pc'[e] \notin {"act", "mark"}
    BY <2>1 DEF Steps
  <2> QED BY <1>2, <2>2 DEF Own
<1>7. \A f \in Evaluators : Own(f)'
  BY <1>1, <1>2, <1>6, OthersOwn DEF Functional
<1> QED BY <1>3, <1>4, <1>5, <1>7, TypedIsNext

\* What users and the world do is nothing to an evaluator.
LEMMA WorldTyped ==
    ASSUME Typed, UNCHANGED evaluator, clock' \in Times, clock <= clock', Rest',
           made \subseteq made'
    PROVE  Typed'
<1>1. Rest /\ Functional /\ Read /\ \A f \in Evaluators : Own(f)
  BY TypedIs
<1>2. UNCHANGED <<pc, now, snap, todo, cur, events, acting, copy>>
  BY DEF evaluator
<1>3. Functional'
  BY <1>1, <1>2 DEF Functional
<1>4. Read'
  BY <1>1, <1>2 DEF Read, RulesFile
<1>5. ASSUME NEW e \in Evaluators PROVE Own(e)'
  <2>1. Own(e)
    BY <1>1
  <2>2. now[e] \in 0 .. clock'
    BY <1>1, <2>1, BoundsAssumption DEF Own, Rest, Times
  <2> QED BY <1>2, <2>1, <2>2, Zenon DEF Own
<1> QED BY <1>3, <1>4, <1>5, TypedIsNext

LEMMA UserTyped == ASSUME Typed, User PROVE Typed'
<1>1. Rest /\ Read
  BY TypedIs
<1>2. Edits
  BY DEF User, Create, Save, Delete
<1>3. /\ UNCHANGED <<evaluator, clock, lost, down, fires, steady>>
      /\ edits' \in 0 .. MaxEdits
  BY <1>1, <1>2, BoundsAssumption DEF Edits, Rest, time
<1>4. made \subseteq made' /\ made' \subseteq Ids /\ IsFiniteSet(made')
      /\ RulesFile(rules)'
  <2>1. RulesFile(rules) /\ made \subseteq Ids /\ IsFiniteSet(made)
    BY <1>1 DEF Rest
  <2>2. ASSUME NEW r \in Ids, NEW d \in Definition, Create(r, d)
        PROVE  made \subseteq made' /\ made' \subseteq Ids /\ IsFiniteSet(made')
               /\ RulesFile(rules)'
    <3>1. rules' = With(rules, r, NewRule(d)) /\ made' = made \cup {r}
      BY <2>2 DEF Create
    <3>2. DOMAIN rules' = DOMAIN rules \cup {r} /\ \A i \in DOMAIN rules' : rules'[i] \in Rule
      BY <2>1, <3>1, NewRuleTyped DEF With, RulesFile
    <3>3. IsFiniteSet(made \cup {r}) /\ IsFiniteSet(DOMAIN rules \cup {r})
      BY <2>1, FS_AddElement DEF RulesFile
    <3> QED BY <2>1, <3>1, <3>2, <3>3 DEF RulesFile
  <2>3. ASSUME NEW r \in Ids, NEW d \in Definition, Save(r, d)
        PROVE  made' = made /\ RulesFile(rules)'
    <3>1. rules' = [rules EXCEPT ![r] = Updated(rules[r], d)] /\ made' = made
          /\ r \in DOMAIN rules
      BY <2>3 DEF Save
    <3>2. DOMAIN rules' = DOMAIN rules /\ \A i \in DOMAIN rules' : rules'[i] \in Rule
      BY <2>1, <3>1, UpdatedTyped DEF RulesFile
    <3> QED BY <2>1, <3>1, <3>2 DEF RulesFile
  <2>4. ASSUME NEW r \in Ids, Delete(r)
        PROVE  made' = made /\ RulesFile(rules)'
    <3>1. rules' = [x \in DOMAIN rules \ {r} |-> rules[x]] /\ made' = made
      BY <2>4 DEF Delete, Restrict
    <3>2. DOMAIN rules' = DOMAIN rules \ {r} /\ \A i \in DOMAIN rules' : rules'[i] \in Rule
      BY <2>1, <3>1 DEF RulesFile
    <3>3. IsFiniteSet(DOMAIN rules \ {r})
      BY <2>1, FS_Subset DEF RulesFile
    <3> QED BY <2>1, <3>1, <3>2, <3>3 DEF RulesFile
  <2> QED BY <2>1, <2>2, <2>3, <2>4 DEF User
<1>5. Rest'
  BY <1>1, <1>3, <1>4 DEF Rest
<1>6. clock' \in Times /\ clock <= clock'
  BY <1>1, <1>3 DEF Rest, Times
<1> QED BY <1>3, <1>4, <1>5, <1>6, WorldTyped

LEMMA CrashTyped == ASSUME Typed, Crash PROVE Typed'
<1>1. Rest /\ UNCHANGED <<rules, clock, edits, made, lost, down, fires, steady>> /\ Asleep
  BY TypedIs DEF Crash, users
<1>2. Rest'
  BY <1>1 DEF Rest, RulesFile
<1>3. Functional'
  BY <1>1, BoundsAssumption DEF Asleep, Functional, Steps, Times
<1>4. Read'
  BY <1>1, EmptyFile, EmptyMap DEF Asleep, Read, RulesFile
<1>5. ASSUME NEW e \in Evaluators PROVE Own(e)'
  <2>1. /\ pc'[e] = "idle" /\ now'[e] = 0 /\ todo'[e] = {} /\ events'[e] = {}
        /\ clock' \in Nat
    BY <1>1, BoundsAssumption DEF Asleep, Rest, Times
  <2> QED BY <2>1 DEF Own, Steps
<1> QED BY <1>2, <1>3, <1>4, <1>5, TypedIsNext

LEMMA TornWriteTyped == ASSUME Typed, TornWrite PROVE Typed'
<1>1. /\ Rest /\ UNCHANGED <<clock, made, down, fires, steady>> /\ Asleep
      /\ rules' = << >> /\ lost' = lost \cup DOMAIN rules
      /\ edits' = edits \/ (edits < MaxEdits /\ edits' = edits + 1)
  BY TypedIs DEF TornWrite
<1>2. Rest'
  <2>1. edits' \in 0 .. MaxEdits
    BY <1>1, BoundsAssumption DEF Rest
  <2>2. lost' \subseteq made'
    BY <1>1 DEF Rest, RulesFile
  <2>3. RulesFile(rules)'
    BY <1>1, EmptyMap, FS_EmptySet DEF RulesFile
  <2> QED BY <1>1, <2>1, <2>2, <2>3 DEF Rest
<1>3. Functional'
  BY <1>1, BoundsAssumption DEF Asleep, Functional, Steps, Times
<1>4. Read'
  BY <1>1, EmptyFile, EmptyMap DEF Asleep, Read, RulesFile
<1>5. ASSUME NEW e \in Evaluators PROVE Own(e)'
  <2>1. /\ pc'[e] = "idle" /\ now'[e] = 0 /\ todo'[e] = {} /\ events'[e] = {}
        /\ clock' \in Nat
    BY <1>1, BoundsAssumption DEF Asleep, Rest, Times
  <2> QED BY <2>1 DEF Own, Steps
<1> QED BY <1>2, <1>3, <1>4, <1>5, TypedIsNext

LEMMA NextTyped == ASSUME Typed, [Next]_vars PROVE Typed'
<1>1. Rest
  BY TypedIs
<1>2. CASE \E e \in Evaluators : Evaluates(e)
  BY <1>2, WakesTyped, ListRulesTyped, LooksTyped, ActsTyped, MarkReadsTyped,
     MarkWritesTyped, EndsTyped DEF Evaluates
<1>3. CASE User
  BY <1>3, UserTyped
<1>4. CASE \E n \in Nodes : Changes(n)
  <2>1. UNCHANGED <<rules, evaluator, clock, edits, made, lost, fires>>
        /\ steady' \subseteq down' /\ down' \subseteq Nodes
    BY <1>1, <1>4 DEF Changes, time, users, Rest
  <2>2. Rest' /\ clock' \in Times /\ clock <= clock'
    BY <1>1, <2>1 DEF Rest, RulesFile, Times
  <2> QED BY <2>1, <2>2, WorldTyped
<1>5. CASE Advance
  <2>1. /\ UNCHANGED <<rules, evaluator, edits, made, lost, down, fires, steady>>
        /\ clock < MaxTime /\ clock' = clock + 1
    BY <1>5 DEF Advance, users
  <2>2. clock' \in Times /\ clock <= clock'
    BY <1>1, <2>1, BoundsAssumption DEF Rest, Times
  <2>3. Rest'
    BY <1>1, <2>1, <2>2 DEF Rest, RulesFile
  <2> QED BY <2>1, <2>2, <2>3, WorldTyped
<1>6. CASE Crash
  BY <1>6, CrashTyped
<1>7. CASE TornWrite
  BY <1>7, TornWriteTyped
<1>8. CASE UNCHANGED vars
  <2>1. UNCHANGED <<rules, evaluator, clock, edits, made, lost, down, fires, steady>>
    BY <1>8 DEF vars, time, users
  <2>2. Rest' /\ clock' \in Times /\ clock <= clock'
    BY <1>1, <2>1 DEF Rest, RulesFile, Times
  <2> QED BY <2>1, <2>2, WorldTyped
<1> QED BY <1>2, <1>3, <1>4, <1>5, <1>6, <1>7, <1>8 DEF Next

-----------------------------------------------------------------------------
(* Sole                                                                     *)

LEMMA SavedIs == RulesAsSaved <=> AsSaved
<1> DEFINE f == [r \in DOMAIN rules |-> Defined(rules[r])]
           g == [r \in DOMAIN saved \ lost |-> saved[r]]
           D == DOMAIN saved \ lost
<1>1. Restrict(saved, D) = g
  <2>1. DOMAIN saved \cap D = D
    OBVIOUS
  <2> QED BY <2>1 DEF Restrict
<1>2. f = g <=> AsSaved
  BY DEF AsSaved
<1> QED BY <1>1, <1>2 DEF RulesAsSaved

\* A mark leaves alone what users decided of the rules.
LEMMA MarkDefines ==
    ASSUME NEW rs, \A i \in DOMAIN rs : rs[i] \in Rule,
           NEW r, NEW s \in Scopes, NEW t \in Times
    PROVE  \A i \in DOMAIN rs : Defined(Marked(rs, r, s, t)[i]) = Defined(rs[i])
<1> SUFFICES ASSUME NEW i \in DOMAIN rs
             PROVE  Defined(Marked(rs, r, s, t)[i]) = Defined(rs[i])
  OBVIOUS
<1>1. CASE i # r
  BY <1>1, MarkedOthers
<1>2. CASE i = r
  BY <1>2, MarkedRule DEF Defined
<1> QED BY <1>1, <1>2

LEMMA EvaluatesSole ==
    ASSUME "split" \notin Odds, Typed, Sole, NEW e \in Evaluators, Evaluates(e)
    PROVE  Sole'
<1>1. Rest /\ Functional /\ Read /\ \A f \in Evaluators : Own(f)
  BY TypedIs
<1>2. saved' = saved /\ lost' = lost
  BY DEF Evaluates, Wakes, ListRules, Looks, Acts, MarkReads, MarkWrites, Ends, users
<1>3. CASE MarkReads(e)
  <2>1. /\ rules' = rules /\ pc' = [pc EXCEPT ![e] = "mark"]
        /\ copy' = [copy EXCEPT ![e] = rules]
    BY <1>3 DEF MarkReads
  <2>2. \A f \in Evaluators : pc[f] # "mark"
    BY <1>3 DEF MarkReads, Writable, Process
  <2> QED BY <1>1, <1>2, <2>1, <2>2 DEF Sole, AsSaved, Functional
<1>4. CASE MarkWrites(e)
  <2>1. /\ rules' = Marked(rules, cur[e], acting[e], now[e])
        /\ pc' = [pc EXCEPT ![e] = "fire"]
        /\ \A f \in Evaluators : pc[f] = "mark" => f = e
    BY <1>4 DEF MarkWrites, Sole
  <2>2. acting[e] \in Scopes /\ now[e] \in Times
    BY <1>1, <1>4 DEF MarkWrites, Own, Functional
  <2>3. \A i \in DOMAIN rules : rules[i] \in Rule
    BY <1>1 DEF Rest, RulesFile
  <2>4. DOMAIN rules' = DOMAIN rules
    BY <2>1, MarkedOthers
  <2>5. \A i \in DOMAIN rules : Defined(rules'[i]) = Defined(rules[i])
    BY <2>1, <2>2, <2>3, MarkDefines
  <2>6. AsSaved'
    BY <1>2, <2>4, <2>5 DEF Sole, AsSaved
  <2>7. \A f \in Evaluators : pc'[f] # "mark"
    BY <1>1, <2>1 DEF Functional
  <2> QED BY <2>6, <2>7 DEF Sole
<1>5. CASE \/ Wakes(e) \/ ListRules(e) \/ Ends(e)
           \/ \E r \in todo[e] : Looks(e, r)
           \/ \E s \in events[e] : Acts(e, s)
  <2>1. rules' = rules /\ copy' = copy
    BY <1>5 DEF Wakes, ListRules, Looks, Acts, Ends
  <2>2. pc' \in {pc, [pc EXCEPT ![e] = "list"], [pc EXCEPT ![e] = "fire"],
                 [pc EXCEPT ![e] = "act"], [pc EXCEPT ![e] = "idle"]}
    BY <1>5 DEF Wakes, ListRules, Looks, Acts, Ends
  <2>3. \A f \in Evaluators : pc'[f] = "mark" => pc[f] = "mark"
    BY <1>1, <2>2 DEF Functional
  <2> QED BY <1>2, <2>1, <2>3 DEF Sole, AsSaved
<1> QED BY <1>3, <1>4, <1>5 DEF Evaluates

LEMMA UserSole ==
    ASSUME "split" \notin Odds, Typed, Sole, User
    PROVE  Sole'
<1>1. Rest
  BY TypedIs
<1>2. Edits
  BY DEF User, Create, Save, Delete
<1>3. \A f \in Evaluators : pc'[f] # "mark"
  BY <1>2 DEF Edits, Writable, Process, evaluator
<1>4. \A i \in DOMAIN rules : rules[i] \in Rule /\ saved[i] = Defined(rules[i])
  BY <1>1 DEF Rest, RulesFile, Sole, AsSaved
<1>5. DOMAIN saved \ lost = DOMAIN rules /\ lost' = lost /\ lost \subseteq made
  BY <1>1, <1>2 DEF Sole, AsSaved, Rest, Edits
<1>6. ASSUME NEW r \in Ids, NEW d \in Definition, Create(r, d)
      PROVE  AsSaved'
  <2>1. rules' = With(rules, r, NewRule(d)) /\ saved' = With(saved, r, d) /\ r \notin made
    BY <1>6 DEF Create
  <2>2. Defined(NewRule(d)) = d
    BY DEF Defined, NewRule, Definition
  <2> QED BY <1>4, <1>5, <2>1, <2>2 DEF With, AsSaved
<1>7. ASSUME NEW r \in Ids, NEW d \in Definition, Save(r, d)
      PROVE  AsSaved'
  <2>1. /\ rules' = [rules EXCEPT ![r] = Updated(rules[r], d)] /\ r \in DOMAIN rules
        /\ saved' = [saved EXCEPT ![r] = d]
    BY <1>7 DEF Save
  <2>2. Defined(Updated(rules[r], d)) = d
    BY <1>4, <2>1, UpdatedTyped DEF Defined, Definition
  <2> QED BY <1>4, <1>5, <2>1, <2>2 DEF AsSaved
<1>8. ASSUME NEW r \in Ids, Delete(r)
      PROVE  AsSaved'
  BY <1>4, <1>5, <1>8 DEF Delete, Restrict, AsSaved
<1> QED BY <1>3, <1>6, <1>7, <1>8 DEF User, Sole

LEMMA NextSole ==
    ASSUME "split" \notin Odds, Typed, Sole, [Next]_vars
    PROVE  Sole'
<1>1. CASE \E e \in Evaluators : Evaluates(e)
  BY <1>1, EvaluatesSole
<1>2. CASE User
  BY <1>2, UserSole
<1>3. CASE (\E n \in Nodes : Changes(n)) \/ Advance \/ UNCHANGED vars
  <2>1. UNCHANGED <<rules, saved, lost, pc, copy>>
    BY <1>3 DEF Changes, Advance, vars, evaluator, users
  <2> QED BY <2>1 DEF Sole, AsSaved
<1>4. CASE Crash
  <2>1. UNCHANGED <<rules, saved, lost>> /\ \A e \in Evaluators : pc'[e] = "idle"
    BY <1>4 DEF Crash, Asleep, users
  <2> QED BY <2>1 DEF Sole, AsSaved
<1>5. CASE TornWrite
  <2>1. /\ DOMAIN rules' = {} /\ saved' = saved /\ lost' = lost \cup DOMAIN rules
        /\ \A e \in Evaluators : pc'[e] = "idle"
    BY <1>5, EmptyMap DEF TornWrite, Asleep
  <2>2. DOMAIN saved \ lost = DOMAIN rules
    BY DEF Sole, AsSaved
  <2> QED BY <2>1, <2>2 DEF Sole, AsSaved
<1> QED BY <1>1, <1>2, <1>3, <1>4, <1>5 DEF Next

LEMMA InitSole == Init => Sole
  BY DEF Init, Sole, AsSaved

-----------------------------------------------------------------------------
(* Kinds                                                                    *)

\* Evaluator e looks at rule r, or will.
Handles(e, r) == r \in todo[e] \/ (events[e] # {} /\ cur[e] = r)

LEMMA MineDriven ==
    ASSUME NEW e \in Evaluators, NEW rs, NEW t, NEW r \in Mine(e, rs, t)
    PROVE  r \in DOMAIN rs /\ rs[r].on /\ Drives(e, rs[r].trigger)
  BY DEF Mine, Drives

LEMMA HandlesRead ==
    ASSUME Typed, Kinds, NEW e \in Evaluators, NEW r, Handles(e, r)
    PROVE  r \in DOMAIN snap[e] /\ r \in made /\ r \in Ids /\ Drives(e, snap[e][r].trigger)
<1>1. Rest /\ Read /\ Own(e)
  BY TypedIs
<1> QED BY <1>1 DEF Handles, Own, Kinds, Read, RulesFile, Rest

LEMMA OneHandles ==
    ASSUME OneHook, Typed, Kinds, NEW e \in Evaluators, NEW f \in Evaluators, NEW r,
           Handles(e, r), Handles(f, r)
    PROVE  e = f
<1>1. /\ r \in DOMAIN snap[e] /\ Drives(e, snap[e][r].trigger)
      /\ r \in DOMAIN snap[f] /\ Drives(f, snap[f][r].trigger)
  BY HandlesRead
<1>2. snap[e][r].trigger = snap[f][r].trigger
  BY <1>1 DEF Kinds
<1> QED BY <1>1, <1>2 DEF Drives, OneHook, Evaluators

LEMMA ActingHandles ==
    ASSUME Typed, NEW e \in Evaluators, NEW r, NEW s, Acting(e, r, s)
    PROVE  Handles(e, r) /\ s \in events[e]
  BY TypedIs DEF Acting, Handles, Own

\* A step of e that reads and writes nothing of rules.
LEMMA KindsKept ==
    ASSUME Kinds, UNCHANGED <<snap, cur>>,
           \A e \in Evaluators : todo'[e] \subseteq todo[e] /\ events'[e] \subseteq events[e],
           \A r \in DOMAIN rules' : \/ r \in DOMAIN rules /\ rules'[r].trigger = rules[r].trigger
                                    \/ \A e \in Evaluators : r \notin DOMAIN snap[e]
    PROVE  Kinds'
  BY DEF Kinds

LEMMA EvaluatesKinds ==
    ASSUME "split" \notin Odds, Typed, Sole, Kinds, NEW e \in Evaluators, Evaluates(e)
    PROVE  Kinds'
<1>1. Rest /\ Functional /\ Read /\ \A f \in Evaluators : Own(f)
  BY TypedIs
<1>2. CASE Wakes(e) \/ MarkReads(e) \/ \E s \in events[e] : Acts(e, s)
  <2>1. UNCHANGED <<rules, snap, todo, cur, events>>
    BY <1>2 DEF Wakes, MarkReads, Acts
  <2> QED BY <2>1 DEF Kinds
<1>3. CASE ListRules(e)
  <2>1. /\ UNCHANGED <<rules, cur, events>> /\ pc[e] = "list"
        /\ snap' = [snap EXCEPT ![e] = rules]
        /\ todo' = [todo EXCEPT ![e] = Mine(e, rules, now[e])]
    BY <1>3 DEF ListRules
  <2>2. events[e] = {}
    BY <1>1, <2>1 DEF Own, Read
  <2>3. snap'[e] = rules /\ todo'[e] = Mine(e, rules, now[e])
    BY <1>1, <2>1 DEF Functional
  <2>4. \A f \in Evaluators \ {e} : snap'[f] = snap[f] /\ todo'[f] = todo[f]
    BY <1>1, <2>1 DEF Functional
  <2>5. ASSUME NEW f \in Evaluators
        PROVE  /\ \A r \in todo'[f] : Drives(f, snap'[f][r].trigger)
               /\ events'[f] # {} => Drives(f, snap'[f][cur'[f]].trigger)
               /\ \A s \in events'[f] : s \in ScopesOf(snap'[f][cur'[f]].trigger)
               /\ \A r \in DOMAIN snap'[f] \cap DOMAIN rules' :
                      snap'[f][r].trigger = rules'[r].trigger
    <3>1. CASE f = e
      BY <2>1, <2>2, <2>3, <3>1, MineDriven
    <3>2. CASE f # e
      BY <2>1, <2>4, <3>2 DEF Kinds
    <3> QED BY <3>1, <3>2
  <2>6. ASSUME NEW f \in Evaluators, NEW g \in Evaluators,
               NEW r \in DOMAIN snap'[f] \cap DOMAIN snap'[g]
        PROVE  snap'[f][r].trigger = snap'[g][r].trigger
    <3>1. CASE f = e /\ g = e
      BY <3>1
    <3>2. CASE f = e /\ g # e
      BY <2>3, <2>4, <3>2 DEF Kinds
    <3>3. CASE f # e /\ g = e
      BY <2>3, <2>4, <3>3 DEF Kinds
    <3>4. CASE f # e /\ g # e
      BY <2>4, <3>4 DEF Kinds
    <3> QED BY <3>1, <3>2, <3>3, <3>4
  <2> QED BY <2>5, <2>6 DEF Kinds
<1>4. ASSUME NEW r \in todo[e], Looks(e, r)
      PROVE  Kinds'
  <2>1. /\ UNCHANGED <<rules, snap>>
        /\ todo' = [todo EXCEPT ![e] = todo[e] \ {r}]
        /\ cur' = [cur EXCEPT ![e] = r]
    BY <1>4 DEF Looks
  <2>2. PICK new : /\ events' = [events EXCEPT ![e] = new]
                   /\ new \subseteq ScopesOf(snap[e][r].trigger)
    BY ZenonT(40), <1>1, <1>4 DEF Looks, Rest, ScopesOf
  <2>3. ASSUME NEW f \in Evaluators
        PROVE  /\ \A q \in todo'[f] : Drives(f, snap'[f][q].trigger)
               /\ events'[f] # {} => Drives(f, snap'[f][cur'[f]].trigger)
               /\ \A s \in events'[f] : s \in ScopesOf(snap'[f][cur'[f]].trigger)
    <3>1. CASE f = e
      <4>1. todo'[f] = todo[e] \ {r} /\ cur'[f] = r /\ events'[f] = new
        BY <1>1, <2>1, <2>2, <3>1 DEF Functional
      <4> QED BY <2>1, <2>2, <3>1, <4>1 DEF Kinds
    <3>2. CASE f # e
      <4>1. todo'[f] = todo[f] /\ cur'[f] = cur[f] /\ events'[f] = events[f]
        BY <1>1, <2>1, <2>2, <3>2 DEF Functional
      <4> QED BY <2>1, <4>1 DEF Kinds
    <3> QED BY <3>1, <3>2
  <2> QED BY <2>1, <2>3 DEF Kinds
<1>5. CASE MarkWrites(e)
  <2>1. /\ UNCHANGED <<snap, todo, cur>>
        /\ rules' = Marked(rules, cur[e], acting[e], now[e])
        /\ events' = [events EXCEPT ![e] = events[e] \ {acting[e]}]
    BY <1>5 DEF MarkWrites, Sole
  <2>2. acting[e] \in Scopes /\ now[e] \in Times
    BY <1>1, <1>5 DEF MarkWrites, Own, Functional
  <2>3. \A i \in DOMAIN rules : rules[i] \in Rule
    BY <1>1 DEF Rest, RulesFile
  <2>4. DOMAIN rules' = DOMAIN rules
    BY <2>1, MarkedOthers
  <2>5. ASSUME NEW i \in DOMAIN rules PROVE rules'[i].trigger = rules[i].trigger
    <3>1. CASE i # cur[e]
      BY <2>1, <3>1, MarkedOthers
    <3>2. CASE i = cur[e]
      BY <2>1, <2>2, <2>3, <3>2, MarkedRule
    <3> QED BY <3>1, <3>2
  <2>6. \A f \in Evaluators : todo'[f] \subseteq todo[f] /\ events'[f] \subseteq events[f]
    BY <1>1, <2>1 DEF Functional
  <2> QED BY <2>1, <2>4, <2>5, <2>6, KindsKept
<1>6. CASE Ends(e)
  <2>1. /\ UNCHANGED <<rules, todo, events>> /\ events[e] = {} /\ todo[e] = {}
        /\ snap' = [snap EXCEPT ![e] = << >>]
        /\ cur' = [cur EXCEPT ![e] = NoRule]
    BY <1>6 DEF Ends, Finished
  <2>2. DOMAIN snap'[e] = {} /\ \A f \in Evaluators \ {e} : snap'[f] = snap[f] /\ cur'[f] = cur[f]
    BY <1>1, <2>1, EmptyMap DEF Functional
  <2>3. ASSUME NEW f \in Evaluators
        PROVE  /\ \A r \in todo'[f] : Drives(f, snap'[f][r].trigger)
               /\ events'[f] # {} => Drives(f, snap'[f][cur'[f]].trigger)
               /\ \A s \in events'[f] : s \in ScopesOf(snap'[f][cur'[f]].trigger)
               /\ \A r \in DOMAIN snap'[f] \cap DOMAIN rules' :
                      snap'[f][r].trigger = rules'[r].trigger
    <3>1. CASE f = e
      BY <2>1, <2>2, <3>1
    <3>2. CASE f # e
      BY <2>1, <2>2, <3>2 DEF Kinds
    <3> QED BY <3>1, <3>2
  <2>4. ASSUME NEW f \in Evaluators, NEW g \in Evaluators,
               NEW r \in DOMAIN snap'[f] \cap DOMAIN snap'[g]
        PROVE  snap'[f][r].trigger = snap'[g][r].trigger
    BY <2>2 DEF Kinds
  <2> QED BY <2>3, <2>4 DEF Kinds
<1> QED BY <1>2, <1>3, <1>4, <1>5, <1>6 DEF Evaluates

LEMMA UserKinds ==
    ASSUME "retrigger" \notin Odds, Typed, Kinds, User
    PROVE  Kinds'
<1>1. Rest /\ Read
  BY TypedIs
<1>2. UNCHANGED <<snap, cur, todo, events>>
  BY DEF User, Create, Save, Delete, Edits, evaluator
<1>3. ASSUME NEW i \in DOMAIN rules'
      PROVE  \/ i \in DOMAIN rules /\ rules'[i].trigger = rules[i].trigger
             \/ \A e \in Evaluators : i \notin DOMAIN snap[e]
  <2>1. ASSUME NEW r \in Ids, NEW d \in Definition, Create(r, d)
        PROVE  \/ i \in DOMAIN rules /\ rules'[i].trigger = rules[i].trigger
               \/ \A e \in Evaluators : i \notin DOMAIN snap[e]
    <3>1. rules' = With(rules, r, NewRule(d)) /\ r \notin made
      BY <2>1 DEF Create
    <3>2. \A e \in Evaluators : r \notin DOMAIN snap[e]
      BY <1>1, <3>1 DEF Read, RulesFile
    <3> QED BY <3>1, <3>2 DEF With
  <2>2. ASSUME NEW r \in Ids, NEW d \in Definition, Save(r, d)
        PROVE  \/ i \in DOMAIN rules /\ rules'[i].trigger = rules[i].trigger
               \/ \A e \in Evaluators : i \notin DOMAIN snap[e]
    <3>1. rules' = [rules EXCEPT ![r] = Updated(rules[r], d)] /\ r \in DOMAIN rules
      BY <2>2 DEF Save
    <3>2. \/ d.trigger = rules[r].trigger
          \/ \A e \in Evaluators : r \notin DOMAIN snap[e]
      BY <2>2 DEF Save, Retriggers
    <3>3. Updated(rules[r], d).trigger = d.trigger
      BY <1>1, <3>1, UpdatedTyped DEF Rest, RulesFile
    <3> QED BY <3>1, <3>2, <3>3
  <2>3. ASSUME NEW r \in Ids, Delete(r)
        PROVE  i \in DOMAIN rules /\ rules'[i].trigger = rules[i].trigger
    BY <2>3 DEF Delete, Restrict
  <2> QED BY <2>1, <2>2, <2>3 DEF User
<1> QED BY <1>2, <1>3, KindsKept

LEMMA CrashKinds == ASSUME Crash \/ TornWrite PROVE Kinds'
<1>1. \A e \in Evaluators : DOMAIN snap'[e] = {} /\ todo'[e] = {} /\ events'[e] = {}
  BY EmptyMap DEF Crash, TornWrite, Asleep
<1> QED BY <1>1 DEF Kinds

LEMMA NextKinds ==
    ASSUME Odds = {}, Typed, Sole, Kinds, [Next]_vars
    PROVE  Kinds'
<1>1. CASE \E e \in Evaluators : Evaluates(e)
  BY <1>1, EvaluatesKinds
<1>2. CASE User
  BY <1>2, UserKinds
<1>3. CASE (\E n \in Nodes : Changes(n)) \/ Advance \/ UNCHANGED vars
  <2>1. UNCHANGED <<rules, snap, cur, todo, events>>
    BY <1>3 DEF Changes, Advance, vars, evaluator
  <2> QED BY <2>1 DEF Kinds
<1>4. CASE Crash \/ TornWrite
  BY <1>4, CrashKinds
<1> QED BY <1>1, <1>2, <1>3, <1>4 DEF Next

-----------------------------------------------------------------------------
(* Noted                                                                    *)

\* The clock of the ticks does not go back.
LEMMA TickLater ==
    ASSUME Typed, [Next]_vars
    PROVE  Tick \in Nat /\ Tick' \in Nat /\ Tick <= Tick'
<1>1. Rest /\ Functional /\ Scheduler \in Evaluators /\ Own(Scheduler)
  BY TypedIs DEF Evaluators
<1>2. clock \in Nat /\ now[Scheduler] \in Nat /\ now[Scheduler] <= clock
  BY <1>1, BoundsAssumption DEF Rest, Functional, Own, Times
<1>3. CASE \E e \in Evaluators : Wakes(e)
  <2>1. PICK e \in Evaluators : Wakes(e)
    BY <1>3
  <2>2. pc[e] = "idle" /\ pc' = [pc EXCEPT ![e] = "list"] /\ now' = [now EXCEPT ![e] = clock]
        /\ clock' = clock
    BY <2>1 DEF Wakes, time
  <2> QED BY <1>1, <1>2, <2>2 DEF Tick, Functional
<1>4. CASE \E e \in Evaluators : Ends(e)
  <2>1. PICK e \in Evaluators : Ends(e)
    BY <1>4
  <2>2. pc[e] = "fire" /\ pc' = [pc EXCEPT ![e] = "idle"] /\ now' = [now EXCEPT ![e] = 0]
        /\ clock' = clock
    BY <2>1 DEF Ends, Finished
  <2> QED BY <1>1, <1>2, <2>2 DEF Tick, Functional
<1>5. CASE Crash \/ TornWrite
  <2>1. pc'[Scheduler] = "idle" /\ clock' = clock
    BY <1>1, <1>5 DEF Crash, TornWrite, Asleep
  <2> QED BY <1>2, <2>1 DEF Tick
<1>6. CASE User \/ (\E n \in Nodes : Changes(n)) \/ Advance \/ UNCHANGED vars
  <2>1. UNCHANGED <<pc, now>> /\ (clock' = clock \/ clock' = clock + 1)
    BY <1>6 DEF User, Create, Save, Delete, Edits, Changes, Advance, vars, evaluator, time
  <2> QED BY <1>2, <2>1 DEF Tick
<1>7. CASE \E e \in Evaluators : \/ ListRules(e) \/ MarkReads(e) \/ MarkWrites(e)
                                 \/ \E r \in todo[e] : Looks(e, r)
                                 \/ \E s \in events[e] : Acts(e, s)
  <2>1. PICK e \in Evaluators : \/ ListRules(e) \/ MarkReads(e) \/ MarkWrites(e)
                                \/ \E r \in todo[e] : Looks(e, r)
                                \/ \E s \in events[e] : Acts(e, s)
    BY <1>7
  <2>2. now' = now /\ clock' = clock
    BY <2>1 DEF ListRules, MarkReads, MarkWrites, Looks, Acts, time
  <2>3. pc[e] # "idle" /\ \E p \in Steps \ {"idle"} : pc' \in {pc, [pc EXCEPT ![e] = p]}
    BY <2>1 DEF ListRules, MarkReads, MarkWrites, Looks, Acts, Steps
  <2>4. pc'[Scheduler] = "idle" <=> pc[Scheduler] = "idle"
    BY <1>1, <2>3 DEF Functional
  <2> QED BY <1>2, <2>2, <2>4 DEF Tick
<1> QED BY <1>3, <1>4, <1>5, <1>6, <1>7 DEF Next, Evaluates

LEMMA NotedLater ==
    ASSUME NEW rule, NEW f \in Times \cup {NoTime}, NEW s, NEW t \in Nat, NEW u \in Nat,
           t <= u, NotedIn(rule, f, s, t)
    PROVE  NotedIn(rule, f, s, u)
<1>1. f # NoTime => f \in Nat
  BY BoundsAssumption DEF Times
<1>2. Cooldown \in Nat
  BY TimesAssumption
<1>3. f # NoTime /\ f + Cooldown <= t => f + Cooldown <= u
  BY <1>1, <1>2
<1> QED BY <1>3 DEF NotedIn

\* What was noted is still so later, if nothing fires.
LEMMA NotedStill ==
    ASSUME Typed, Noted, [Next]_vars, fires' = fires
    PROVE  /\ \A r \in Ids \ made : \A s \in Scopes : fires'[r][s] = NoTime
           /\ \A r \in DOMAIN rules, s \in Scopes :
                 \/ \E e \in Evaluators : Acting(e, r, s)
                 \/ NotedIn(rules[r], fires'[r][s], s, Tick')
           /\ \A e \in Evaluators : \A r \in todo[e], s \in Scopes :
                 NotedIn(snap[e][r], fires'[r][s], s, Tick')
<1>1. Rest /\ Functional
  BY TypedIs
<1>2. Tick \in Nat /\ Tick' \in Nat /\ Tick <= Tick'
  BY TickLater
<1>3. \A r \in Ids, s \in Scopes : fires[r][s] \in Times \cup {NoTime}
  BY <1>1 DEF Rest
<1>4. ASSUME NEW r \in DOMAIN rules, NEW s \in Scopes
      PROVE  \/ \E e \in Evaluators : Acting(e, r, s)
             \/ NotedIn(rules[r], fires'[r][s], s, Tick')
  <2>1. r \in Ids
    BY <1>1 DEF Rest, RulesFile
  <2>2. NotedAt(rules[r], r, s) => NotedIn(rules[r], fires'[r][s], s, Tick')
    BY <1>2, <1>3, <2>1, NotedLater DEF NotedAt
  <2> QED BY <2>2 DEF Noted
<1>5. ASSUME NEW e \in Evaluators, NEW r \in todo[e], NEW s \in Scopes
      PROVE  NotedIn(snap[e][r], fires'[r][s], s, Tick')
  <2>1. r \in Ids
    BY <1>1 DEF Functional
  <2>2. NotedAt(snap[e][r], r, s)
    BY DEF Noted
  <2> QED BY <1>2, <1>3, <2>1, <2>2, NotedLater DEF NotedAt
<1> QED BY <1>4, <1>5 DEF Noted

\* A step that neither reads nor writes rules, nor ends the actions of any.
LEMMA NotedKept ==
    ASSUME Typed, Noted, [Next]_vars, fires' = fires, rules' = rules, made' = made,
           \A e \in Evaluators : \A r \in todo'[e] : r \in todo[e] /\ snap'[e] = snap[e],
           \A e \in Evaluators : \A r, s : Acting(e, r, s) => Acting(e, r, s)'
    PROVE  Noted'
  BY NotedStill DEF Noted, NotedAt

\* Nothing is due, or noted, between the steps of others.
LEMMA OthersHandle ==
    ASSUME OneHook, Typed, Kinds, NEW e \in Evaluators, events[e] # {}
    PROVE  \A f \in Evaluators \ {e} :
              cur[e] \notin todo[f] /\ (events[f] # {} => cur[f] # cur[e])
  BY OneHandles DEF Handles

LEMMA ActsNoted ==
    ASSUME OneHook, Typed, Kinds, Noted, NEW e \in Evaluators, NEW s \in events[e], Acts(e, s)
    PROVE  Noted'
<1>1. Rest /\ Functional /\ Own(e)
  BY TypedIs
<1> DEFINE q == cur[e]
<1>2. /\ UNCHANGED <<rules, snap, todo, cur, made, now, clock>> /\ pc[e] = "fire"
      /\ pc' = [pc EXCEPT ![e] = "act"] /\ acting' = [acting EXCEPT ![e] = s]
      /\ fires' = [fires EXCEPT ![q][s] = now[e]]
  BY DEF Acts, time, users
<1>3. q \in made /\ q \in Ids
  BY HandlesRead DEF Handles
<1>5. \A f \in Evaluators : \A r, x : Acting(f, r, x) => Acting(f, r, x)'
  BY <1>1, <1>2 DEF Acting, Functional
<1>6. \A r \in Ids, x \in Scopes : r # q \/ x # s => fires'[r][x] = fires[r][x]
  BY <1>1, <1>2 DEF Rest
<1>7. Tick' = Tick
  BY <1>1, <1>2 DEF Tick, Functional
<1> HIDE DEF q
<1>8. \A r \in Ids \ made', x \in Scopes : fires'[r][x] = NoTime
  BY <1>2, <1>3, <1>6 DEF Noted
<1>9. ASSUME NEW r \in DOMAIN rules', NEW x \in Scopes
      PROVE  (\E f \in Evaluators : Acting(f, r, x)') \/ NotedAt(rules[r], r, x)'
  <2>1. CASE r = q /\ x = s
    BY <1>1, <1>2, <2>1 DEF Acting, Functional, q
  <2>2. CASE r # q \/ x # s
    <3>1. r \in Ids /\ fires'[r][x] = fires[r][x]
      BY <1>1, <1>2, <1>6, <2>2 DEF Rest, RulesFile
    <3>2. (\E f \in Evaluators : Acting(f, r, x)) \/ NotedAt(rules[r], r, x)
      BY <1>2 DEF Noted
    <3>3. CASE \E f \in Evaluators : Acting(f, r, x)
      BY <1>5, <3>3
    <3>4. CASE NotedAt(rules[r], r, x)
      BY <1>2, <1>7, <3>1, <3>4 DEF NotedAt
    <3> QED BY <3>2, <3>3, <3>4
  <2> QED BY <2>1, <2>2
<1>10. ASSUME NEW f \in Evaluators, NEW r \in todo'[f], NEW x \in Scopes
       PROVE  NotedAt(snap[f][r], r, x)'
  <2>1. r # q /\ r \in Ids
    BY <1>1, <1>2, OthersHandle DEF Own, Functional, q
  <2>2. NotedAt(snap[f][r], r, x)
    BY <1>2 DEF Noted
  <2> QED BY <1>2, <1>6, <1>7, <2>1, <2>2 DEF NotedAt
<1> QED BY <1>8, <1>9, <1>10 DEF Noted

\* A mark notes one firing, and goes on with the notes of a rule that had none
\* per scope only when those are too old to matter.
LEMMA MarkNotes ==
    ASSUME NEW x \in Rule, NEW y, NEW s \in Scopes, NEW t \in Times, NEW tick,
           y.trigger = x.trigger, y.fired = With(Before(x), s, t),
           Before(x) \in Maps,
           NEW z \in Scopes, NEW f \in Times \cup {NoTime},
           z = s => f = t,
           z # s => NotedIn(x, f, z, tick),
           z # s /\ x.fired = NoMap /\ f # NoTime => z \in Nodes /\ f + Cooldown <= tick
    PROVE  NotedIn(y, f, z, tick)
<1> DEFINE m == With(Before(x), s, t)
<1>1. /\ m \in Maps /\ DOMAIN m = DOMAIN Before(x) \cup {s} /\ m[s] = t
      /\ \A i \in DOMAIN Before(x) : i # s => m[i] = Before(x)[i]
  BY MapWith
<1>2. y.fired = m /\ m # NoMap
  BY <1>1, MapFacts
<1> HIDE DEF m
<1>3. CASE z = s
  BY <1>1, <1>2, <1>3 DEF NotedIn
<1>4. CASE z # s /\ x.fired = NoMap
  BY <1>1, <1>2, <1>4, EmptyMap DEF NotedIn, Before
<1>5. CASE z # s /\ x.fired # NoMap
  BY <1>1, <1>2, <1>5 DEF NotedIn, Before
<1> QED BY <1>3, <1>4, <1>5

LEMMA MarkWritesNoted ==
    ASSUME OneHook, Typed, Sole, Kinds, Noted, Due, NEW e \in Evaluators, MarkWrites(e),
           [Next]_vars
    PROVE  Noted'
<1>1. Rest /\ Functional /\ Own(e)
  BY TypedIs
<1> DEFINE q == cur[e]
           s == acting[e]
<1>2. /\ UNCHANGED <<snap, todo, cur, made, now, clock, fires>> /\ pc[e] = "mark"
      /\ rules' = Marked(rules, q, s, now[e])
      /\ pc' = [pc EXCEPT ![e] = "fire"] /\ acting' = [acting EXCEPT ![e] = NoRule]
  BY DEF MarkWrites, time, users, Sole
<1>3. s \in events[e] /\ s \in Scopes /\ now[e] \in Times
  BY <1>1, <1>2 DEF Own, Functional
<1>4. Acting(e, q, s) /\ fires[q][s] = now[e]
  BY <1>2, <1>3 DEF Due, Acting
<1>5. \A f \in Evaluators \ {e} : \A r, x : Acting(f, r, x) => Acting(f, r, x)'
  BY <1>1, <1>2 DEF Acting, Functional
<1>6. /\ \A r \in Ids \ made : \A x \in Scopes : fires'[r][x] = NoTime
      /\ \A r \in DOMAIN rules, x \in Scopes :
            \/ \E f \in Evaluators : Acting(f, r, x)
            \/ NotedIn(rules[r], fires'[r][x], x, Tick')
      /\ \A f \in Evaluators : \A r \in todo[f], x \in Scopes :
            NotedIn(snap[f][r], fires'[r][x], x, Tick')
  BY <1>2, NotedStill
<1>7. DOMAIN rules' = DOMAIN rules /\ \A r \in DOMAIN rules : r # q => rules'[r] = rules[r]
  BY <1>2, MarkedOthers
<1>8. ASSUME NEW r \in DOMAIN rules, r # q, NEW x \in Scopes
      PROVE  \/ \E f \in Evaluators : Acting(f, r, x)'
             \/ NotedIn(rules'[r], fires'[r][x], x, Tick')
  <2>1. \A f \in Evaluators : Acting(f, r, x) => f # e
    BY <1>8 DEF Acting
  <2> QED BY <1>5, <1>6, <1>7, <1>8, <2>1
<1>9. ASSUME q \in DOMAIN rules, NEW x \in Scopes
      PROVE  NotedIn(rules'[q], fires'[q][x], x, Tick')
  <2>1. rules[q] \in Rule /\ q \in Ids /\ fires[q][x] \in Times \cup {NoTime}
    BY <1>1, <1>9 DEF Rest, RulesFile
  <2>2. /\ rules'[q].trigger = rules[q].trigger
        /\ rules'[q].fired = With(Before(rules[q]), s, now[e])
        /\ Before(rules[q]) \in Maps
    BY <1>2, <1>3, <1>9, <2>1, MarkedRule
  <2>3. x = s => fires'[q][x] = now[e]
    BY <1>2, <1>4
  <2>4. x # s => NotedIn(rules[q], fires'[q][x], x, Tick')
    <3>1. \A f \in Evaluators : Acting(f, q, x) => f = e
      BY <1>3, ActingHandles, OneHandles DEF Handles
    <3> QED BY <1>6, <1>9, <3>1 DEF Acting
  <2>5. ASSUME x # s, rules[q].fired = NoMap, fires'[q][x] # NoTime
        PROVE  x \in Nodes /\ fires'[q][x] + Cooldown <= Tick'
    <3>1. /\ x \in ScopesOf(rules[q].trigger)
          /\ fires[q][x] = rules[q].last /\ rules[q].last # NoTime
      BY <1>2, <2>4, <2>5 DEF NotedIn
    <3>2. q \in DOMAIN snap[e] /\ snap[e][q].trigger = rules[q].trigger
      BY <1>1, <1>3, <1>9 DEF Own, Kinds
    <3>3. s \in ScopesOf(rules[q].trigger)
      BY <1>3, <3>2 DEF Kinds
    <3>4. rules[q].trigger = "xray_down"
      BY <2>5, <3>1, <3>3 DEF ScopesOf
    <3>5. x \in Nodes /\ e = Scheduler
      BY <1>3, <3>1, <3>2, <3>4 DEF ScopesOf, Kinds, Drives
    <3>6. now[e] - rules[q].last >= Cooldown
      BY <1>2, <1>3, <1>9, <2>5, <3>1 DEF Due
    <3>7. Tick' = now[e]
      BY <1>1, <1>2, <3>5 DEF Tick, Functional
    <3>8. now[e] \in Nat /\ rules[q].last \in Nat /\ Cooldown \in Nat
      BY <1>3, <2>1, <3>1, RuleParts, BoundsAssumption, TimesAssumption DEF Times
    <3> QED BY <1>2, <3>1, <3>5, <3>6, <3>7, <3>8
  <2> HIDE DEF q, s
  <2>6. fires'[q][x] \in Times \cup {NoTime}
    BY <1>2, <2>1
  <2> QED BY <1>3, <2>1, <2>2, <2>3, <2>4, <2>5, <2>6, MarkNotes
<1>10. \A r \in DOMAIN rules', x \in Scopes :
          (\E f \in Evaluators : Acting(f, r, x)') \/ NotedAt(rules[r], r, x)'
  BY <1>7, <1>8, <1>9 DEF NotedAt
<1> QED BY <1>2, <1>6, <1>10 DEF Noted, NotedAt

\* A list is read while nobody else fires its rules.
LEMMA ListRulesNoted ==
    ASSUME OneHook, Typed, Kinds, Noted, NEW e \in Evaluators, ListRules(e), [Next]_vars
    PROVE  Noted'
<1>1. Rest /\ Functional /\ Own(e)
  BY TypedIs
<1>2. /\ UNCHANGED <<rules, cur, acting, made, fires>> /\ pc[e] = "list"
      /\ pc' = [pc EXCEPT ![e] = "fire"] /\ snap' = [snap EXCEPT ![e] = rules]
      /\ todo' = [todo EXCEPT ![e] = Mine(e, rules, now[e])]
  BY DEF ListRules, users
<1>3. /\ \A r \in Ids \ made : \A x \in Scopes : fires'[r][x] = NoTime
      /\ \A r \in DOMAIN rules, x \in Scopes :
            \/ \E f \in Evaluators : Acting(f, r, x)
            \/ NotedIn(rules[r], fires'[r][x], x, Tick')
      /\ \A f \in Evaluators : \A r \in todo[f], x \in Scopes :
            NotedIn(snap[f][r], fires'[r][x], x, Tick')
  BY <1>2, NotedStill
<1>4. \A f \in Evaluators : \A r, x : Acting(f, r, x) => Acting(f, r, x)'
  BY <1>1, <1>2 DEF Acting, Functional
<1>5. ASSUME NEW r \in Mine(e, rules, now[e]), NEW x \in Scopes
      PROVE  NotedIn(rules[r], fires'[r][x], x, Tick')
  <2>1. r \in DOMAIN rules /\ Drives(e, rules[r].trigger)
    BY MineDriven
  <2>2. ASSUME NEW f \in Evaluators, Acting(f, r, x) PROVE FALSE
    <3>1. r \in DOMAIN snap[f] /\ Drives(f, snap[f][r].trigger)
      BY <2>2, ActingHandles, HandlesRead
    <3>2. snap[f][r].trigger = rules[r].trigger
      BY <2>1, <3>1 DEF Kinds
    <3>3. f = e
      BY <2>1, <3>1, <3>2 DEF Drives, OneHook, Evaluators
    <3> QED BY <1>2, <2>2, <3>3 DEF Acting
  <2> QED BY <1>3, <2>1, <2>2
<1>6. ASSUME NEW f \in Evaluators, NEW r \in todo'[f], NEW x \in Scopes
      PROVE  NotedIn(snap'[f][r], fires'[r][x], x, Tick')
  <2>1. CASE f = e
    <3>1. todo'[f] = Mine(e, rules, now[e]) /\ snap'[f] = rules
      BY <1>1, <1>2, <2>1 DEF Functional
    <3> QED BY <1>5, <3>1
  <2>2. CASE f # e
    <3>1. todo'[f] = todo[f] /\ snap'[f] = snap[f]
      BY <1>1, <1>2, <2>2 DEF Functional
    <3> QED BY <1>3, <3>1
  <2> QED BY <2>1, <2>2
<1>7. \A r \in DOMAIN rules', x \in Scopes :
         (\E f \in Evaluators : Acting(f, r, x)') \/ NotedAt(rules[r], r, x)'
  BY <1>2, <1>3, <1>4 DEF NotedAt
<1> QED BY <1>2, <1>3, <1>6, <1>7 DEF Noted, NotedAt

LEMMA EvaluatesNoted ==
    ASSUME OneHook, Typed, Sole, Kinds, Noted, Due, NEW e \in Evaluators, Evaluates(e),
           [Next]_vars
    PROVE  Noted'
<1>1. Rest /\ Functional /\ Own(e)
  BY TypedIs
<1>2. CASE Wakes(e) \/ MarkReads(e)
  <2>1. /\ UNCHANGED <<rules, snap, todo, cur, acting, made, fires>>
        /\ \/ pc[e] = "idle" /\ pc' = [pc EXCEPT ![e] = "list"]
           \/ pc[e] = "act" /\ pc' = [pc EXCEPT ![e] = "mark"]
    BY <1>2 DEF Wakes, MarkReads, users
  <2>2. \A f \in Evaluators : \A r, s : Acting(f, r, s) => Acting(f, r, s)'
    BY <1>1, <2>1 DEF Acting, Functional
  <2> QED BY <2>1, <2>2, NotedKept
<1>3. CASE (\E r \in todo[e] : Looks(e, r)) \/ Ends(e)
  <2>1. /\ UNCHANGED <<rules, acting, made, fires>> /\ pc[e] = "fire"
        /\ \E r : cur' = [cur EXCEPT ![e] = r]
        /\ \E p : pc' = [pc EXCEPT ![e] = p]
    BY <1>1, <1>3 DEF Looks, Ends, Finished, users, Functional
  <2>2. \A f \in Evaluators : \A r, s : Acting(f, r, s) => Acting(f, r, s)'
    BY <1>1, <2>1 DEF Acting, Functional
  <2>3. \/ /\ snap' = snap
           /\ \E r : todo' = [todo EXCEPT ![e] = todo[e] \ {r}]
        \/ /\ todo[e] = {} /\ todo' = todo
           /\ snap' = [snap EXCEPT ![e] = << >>]
    BY <1>3 DEF Looks, Ends, Finished
  <2>4. \A f \in Evaluators : \A r \in todo'[f] : r \in todo[f] /\ snap'[f] = snap[f]
    BY <1>1, <2>3 DEF Functional
  <2> QED BY <2>1, <2>2, <2>4, NotedKept
<1>4. CASE ListRules(e)
  BY <1>4, ListRulesNoted
<1>5. CASE \E s \in events[e] : Acts(e, s)
  BY <1>5, ActsNoted
<1>6. CASE MarkWrites(e)
  BY <1>6, MarkWritesNoted
<1> QED BY <1>2, <1>3, <1>4, <1>5, <1>6 DEF Evaluates

LEMMA UserNoted ==
    ASSUME Odds = {}, Typed, Noted, User, [Next]_vars
    PROVE  Noted'
<1>1. Rest /\ Functional
  BY TypedIs
<1>2. UNCHANGED <<pc, snap, cur, todo, acting, fires>>
  BY DEF User, Create, Save, Delete, Edits, evaluator
<1>3. /\ \A r \in Ids \ made : \A x \in Scopes : fires'[r][x] = NoTime
      /\ \A r \in DOMAIN rules, x \in Scopes :
            \/ \E f \in Evaluators : Acting(f, r, x)
            \/ NotedIn(rules[r], fires'[r][x], x, Tick')
      /\ \A f \in Evaluators : \A r \in todo[f], x \in Scopes :
            NotedIn(snap[f][r], fires'[r][x], x, Tick')
  BY <1>2, NotedStill
<1>4. made \subseteq made'
  BY DEF User, Create, Save, Delete
<1>5. ASSUME NEW i \in DOMAIN rules', NEW x \in Scopes
      PROVE  \/ \E f \in Evaluators : Acting(f, i, x)
             \/ NotedIn(rules'[i], fires'[i][x], x, Tick')
  <2>1. ASSUME NEW r \in Ids, NEW d \in Definition, Create(r, d)
        PROVE  \/ \E f \in Evaluators : Acting(f, i, x)
               \/ NotedIn(rules'[i], fires'[i][x], x, Tick')
    <3>1. rules' = With(rules, r, NewRule(d)) /\ r \notin made
      BY <2>1 DEF Create
    <3>2. CASE i = r
      <4>1. rules'[i] = NewRule(d) /\ fires'[i][x] = NoTime
        BY <1>3, <3>1, <3>2 DEF With
      <4> QED BY <4>1, NewRuleTyped DEF NotedIn
    <3>3. CASE i # r
      BY <1>3, <3>1, <3>3 DEF With
    <3> QED BY <3>2, <3>3
  <2>2. ASSUME NEW r \in Ids, NEW d \in Definition, Save(r, d)
        PROVE  \/ \E f \in Evaluators : Acting(f, i, x)
               \/ NotedIn(rules'[i], fires'[i][x], x, Tick')
    <3>1. rules' = [rules EXCEPT ![r] = Updated(rules[r], d)] /\ r \in DOMAIN rules
      BY <2>2 DEF Save
    <3>2. \/ d.trigger = rules[r].trigger
          \/ rules[r].fired = NoMap => rules[r].last = NoTime
      BY <2>2 DEF Save, Retriggers
    <3>3. /\ Updated(rules[r], d).trigger = d.trigger
          /\ Updated(rules[r], d).last = rules[r].last
          /\ Updated(rules[r], d).fired = rules[r].fired
      BY <1>1, <3>1, UpdatedTyped DEF Rest, RulesFile
    <3>4. CASE i = r
      <4>1. rules'[i] = Updated(rules[r], d)
        BY <3>1, <3>4
      <4>2. NotedIn(rules[i], fires'[i][x], x, Tick')
            => NotedIn(rules'[i], fires'[i][x], x, Tick')
        BY <3>2, <3>3, <3>4, <4>1 DEF NotedIn
      <4> QED BY <1>3, <3>1, <3>4, <4>2
    <3>5. CASE i # r
      BY <1>3, <3>1, <3>5
    <3> QED BY <3>4, <3>5
  <2>3. ASSUME NEW r \in Ids, Delete(r)
        PROVE  \/ \E f \in Evaluators : Acting(f, i, x)
               \/ NotedIn(rules'[i], fires'[i][x], x, Tick')
    <3>1. i \in DOMAIN rules /\ rules'[i] = rules[i]
      BY <2>3 DEF Delete, Restrict
    <3> QED BY <1>3, <3>1
  <2> QED BY <2>1, <2>2, <2>3 DEF User
<1>6. \A f \in Evaluators : \A r, x : Acting(f, r, x) => Acting(f, r, x)'
  BY <1>2 DEF Acting
<1>7. \A i \in DOMAIN rules', x \in Scopes :
         (\E f \in Evaluators : Acting(f, i, x)') \/ NotedAt(rules[i], i, x)'
  BY <1>5, <1>6 DEF NotedAt
<1> QED BY <1>2, <1>3, <1>4, <1>7 DEF Noted, NotedAt

LEMMA NextNoted ==
    ASSUME OneHook, Odds = {}, Typed, Sole, Kinds, Noted, Due, [Next]_vars
    PROVE  Noted'
<1>1. CASE \E e \in Evaluators : Evaluates(e)
  BY <1>1, EvaluatesNoted
<1>2. CASE User
  BY <1>2, UserNoted
<1>3. CASE (\E n \in Nodes : Changes(n)) \/ Advance \/ UNCHANGED vars
  <2>1. UNCHANGED <<rules, pc, snap, cur, todo, acting, made, fires>>
    BY <1>3 DEF Changes, Advance, vars, evaluator, users
  <2>2. \A f \in Evaluators : \A r, s : Acting(f, r, s) => Acting(f, r, s)'
    BY <2>1 DEF Acting
  <2> QED BY <2>1, <2>2, NotedKept
<1>4. CASE Crash
  <2>1. /\ UNCHANGED <<rules, made, fires>> /\ \A e \in Evaluators : todo'[e] = {}
        /\ \A e \in Evaluators : pc[e] \notin {"act", "mark"}
    BY <1>4 DEF Crash, Asleep, users
  <2>2. \A f \in Evaluators : \A r, s : Acting(f, r, s) => Acting(f, r, s)'
    BY <2>1 DEF Acting
  <2> QED BY <2>1, <2>2, NotedKept
<1>5. CASE TornWrite
  <2>1. /\ UNCHANGED <<made, fires>> /\ DOMAIN rules' = {}
        /\ \A e \in Evaluators : todo'[e] = {}
    BY <1>5, EmptyMap DEF TornWrite, Asleep
  <2> QED BY <2>1 DEF Noted
<1> QED BY <1>1, <1>2, <1>3, <1>4, <1>5 DEF Next

-----------------------------------------------------------------------------
(* Due                                                                      *)

\* What Due says of one evaluator.
DueFor(e) ==
    /\ \A s \in events[e] :
          \/ Acting(e, cur[e], s) /\ fires[cur[e]][s] = now[e]
          \/ ~Acting(e, cur[e], s) /\
             (fires[cur[e]][s] # NoTime => now[e] - fires[cur[e]][s] >= Cooldown)
    /\ events[e] # {} /\ pc[e] \in {"act", "mark"} /\ cur[e] \in DOMAIN rules
       /\ rules[cur[e]].fired = NoMap /\ rules[cur[e]].last # NoTime =>
          now[e] - rules[cur[e]].last >= Cooldown

LEMMA DueIs == (Due <=> \A e \in Evaluators : DueFor(e))
               /\ (Due' <=> \A e \in Evaluators : DueFor(e)')
  BY DEF Due, DueFor

\* An evaluator to whose rule nothing happens.
LEMMA DueKept ==
    ASSUME NEW e \in Evaluators, DueFor(e),
           events'[e] # {} =>
              /\ events'[e] = events[e] /\ cur'[e] = cur[e] /\ now'[e] = now[e]
              /\ acting'[e] = acting[e]
              /\ pc'[e] \in {"act", "mark"} <=> pc[e] \in {"act", "mark"}
              /\ fires'[cur[e]] = fires[cur[e]]
              /\ cur[e] \in DOMAIN rules' =>
                    /\ cur[e] \in DOMAIN rules
                    /\ rules'[cur[e]].fired = rules[cur[e]].fired
                    /\ rules'[cur[e]].last = rules[cur[e]].last
    PROVE  DueFor(e)'
<1>1. CASE events'[e] = {}
  BY <1>1 DEF DueFor
<1>2. CASE events'[e] # {}
  <2>1. \A s : Acting(e, cur[e], s)' <=> Acting(e, cur[e], s)
    BY <1>2 DEF Acting
  <2> QED BY <1>2, <2>1 DEF DueFor
<1> QED BY <1>1, <1>2

\* An evaluator that has no events, and none while it has nothing read.
LEMMA NoEvents ==
    ASSUME Typed, NEW e \in Evaluators, pc[e] \in {"idle", "list"}
    PROVE  events[e] = {}
  BY TypedIs DEF Own, Read

\* What evaluate lets through is due.
LEMMA LooksDue ==
    ASSUME Typed, Kinds, Noted, NEW e \in Evaluators, NEW r \in todo[e], Looks(e, r),
           NEW s \in events'[e]
    PROVE  fires[r][s] # NoTime => now[e] - fires[r][s] >= Cooldown
<1>1. Rest /\ Functional /\ Own(e) /\ Read
  BY TypedIs
<1> DEFINE rule == snap[e][r]
<1>2. /\ pc[e] = "fire" /\ s \in ScopesOf(rule.trigger) /\ ShouldFire(rule, s, now[e])
      /\ s \in Scopes
  BY <1>1 DEF Looks, Functional, Rest, ScopesOf, Scopes
<1>3. NotedIn(rule, fires[r][s], s, Tick)
  BY <1>2 DEF Noted, NotedAt
<1>4. r \in Ids /\ fires[r][s] \in Times \cup {NoTime} /\ now[e] \in Nat /\ Cooldown \in Nat
  BY <1>1, <1>2, BoundsAssumption, TimesAssumption DEF Functional, Rest, Times
<1>5. Drives(e, rule.trigger)
  BY DEF Kinds
<1> HIDE DEF rule
<1>6. CASE rule.fired = NoMap
  BY <1>2, <1>3, <1>6 DEF NotedIn, ShouldFire, LastFired
<1>7. CASE rule.fired # NoMap /\ s \in DOMAIN rule.fired
  BY <1>2, <1>3, <1>7 DEF NotedIn, ShouldFire, LastFired
<1>8. CASE rule.fired # NoMap /\ s \notin DOMAIN rule.fired /\ fires[r][s] # NoTime
  <2>1. s \in Nodes /\ fires[r][s] + Cooldown <= Tick
    BY <1>3, <1>8 DEF NotedIn
  <2>2. e = Scheduler
    BY <1>2, <1>5, <2>1, ScopesAssumption DEF ScopesOf, Drives
  <2>3. Tick = now[e]
    BY <1>2, <2>2 DEF Tick
  <2>4. fires[r][s] \in Nat
    BY <1>4, <1>8, BoundsAssumption DEF Times
  <2> QED BY <1>4, <2>1, <2>3, <2>4
<1> QED BY <1>6, <1>7, <1>8

LEMMA ActsDue ==
    ASSUME OneHook, Typed, Kinds, Noted, Due, NEW e \in Evaluators, NEW s \in events[e],
           Acts(e, s)
    PROVE  Due'
<1>1. Rest /\ Functional /\ Own(e)
  BY TypedIs
<1> DEFINE q == cur[e]
<1>2. /\ UNCHANGED <<rules, cur, events, now>> /\ pc[e] = "fire"
      /\ pc' = [pc EXCEPT ![e] = "act"] /\ acting' = [acting EXCEPT ![e] = s]
      /\ fires' = [fires EXCEPT ![q][s] = now[e]]
  BY DEF Acts
<1>3. q \in Ids /\ s \in Scopes /\ q \in DOMAIN snap[e]
  BY <1>1, HandlesRead DEF Handles, Own
<1>4. fires[q][s] # NoTime => now[e] - fires[q][s] >= Cooldown
  BY <1>2 DEF Due, Acting
<1>5. ASSUME NEW x \in events[e], x # s
      PROVE  ~Acting(e, q, x) /\ (fires[q][x] # NoTime => now[e] - fires[q][x] >= Cooldown)
  BY <1>2 DEF Due, Acting
<1>6. /\ pc'[e] = "act" /\ acting'[e] = s /\ fires'[q][s] = now[e]
      /\ \A x \in Scopes : x # s => fires'[q][x] = fires[q][x]
      /\ \A r \in Ids : r # q => fires'[r] = fires[r]
  BY <1>1, <1>2, <1>3 DEF Functional, Rest
<1>7. ASSUME q \in DOMAIN rules, rules[q].fired = NoMap, rules[q].last # NoTime
      PROVE  now[e] - rules[q].last >= Cooldown
  <2>1. \A f \in Evaluators : ~Acting(f, q, s)
    BY <1>2, ActingHandles, OneHandles DEF Acting, Handles
  <2>2. NotedAt(rules[q], q, s)
    BY <1>3, <1>7, <2>1 DEF Noted
  <2>3. s \in ScopesOf(rules[q].trigger)
    BY <1>3, <1>7 DEF Kinds
  <2> QED BY <1>4, <1>7, <2>2, <2>3 DEF NotedAt, NotedIn
<1>8. DueFor(e)'
  <2>1. cur'[e] = q /\ now'[e] = now[e] /\ events'[e] = events[e] /\ rules' = rules
    BY <1>2
  <2>2. events[e] \subseteq Scopes
    BY <1>1 DEF Own
  <2> HIDE DEF q
  <2>3. ASSUME NEW x \in events[e]
        PROVE  \/ Acting(e, cur[e], x)' /\ (fires[cur[e]][x] = now[e])'
               \/ ~Acting(e, cur[e], x)' /\
                  (fires[cur[e]][x] # NoTime => now[e] - fires[cur[e]][x] >= Cooldown)'
    BY <1>5, <1>6, <2>1, <2>2 DEF Acting
  <2> QED BY <1>7, <2>1, <2>3 DEF DueFor
<1>9. ASSUME NEW f \in Evaluators, f # e
      PROVE  DueFor(f)'
  <2>1. events[f] # {} => cur[f] # q
    BY <1>9, OthersHandle
  <2>2. events[f] # {} => cur[f] \in Ids
    BY HandlesRead DEF Handles
  <2>3. /\ events'[f] = events[f] /\ cur'[f] = cur[f] /\ now'[f] = now[f]
        /\ acting'[f] = acting[f] /\ pc'[f] = pc[f] /\ rules' = rules
    BY <1>1, <1>2, <1>9 DEF Functional
  <2>4. events[f] # {} => fires'[cur[f]] = fires[cur[f]]
    <3>1. \A r \in Ids : r # q => fires'[r] = fires[r]
      BY <1>6
    <3> QED BY <2>1, <2>2, <3>1
  <2>5. DueFor(f)
    BY DueIs
  <2> QED BY <2>3, <2>4, <2>5, DueKept
<1> QED BY <1>8, <1>9, DueIs

LEMMA MarkWritesDue ==
    ASSUME OneHook, Typed, Sole, Kinds, Due, NEW e \in Evaluators, MarkWrites(e)
    PROVE  Due'
<1>1. Rest /\ Functional /\ Own(e)
  BY TypedIs
<1> DEFINE q == cur[e]
           s == acting[e]
<1>2. /\ UNCHANGED <<cur, now, fires>> /\ pc[e] = "mark"
      /\ rules' = Marked(rules, q, s, now[e])
      /\ pc' = [pc EXCEPT ![e] = "fire"] /\ acting' = [acting EXCEPT ![e] = NoRule]
      /\ events' = [events EXCEPT ![e] = events[e] \ {s}]
  BY DEF MarkWrites, Sole
<1>3. events[e] # {}
  BY <1>1, <1>2 DEF Own
<1>4. DueFor(e)'
  <2>1. /\ pc'[e] = "fire" /\ cur'[e] = q /\ now'[e] = now[e] /\ fires' = fires
        /\ events'[e] = events[e] \ {s}
    BY <1>1, <1>2 DEF Functional
  <2>2. \A x \in events[e] \ {s} : fires[q][x] # NoTime => now[e] - fires[q][x] >= Cooldown
    BY DEF Due, Acting
  <2> HIDE DEF q, s
  <2> QED BY <2>1, <2>2 DEF DueFor, Acting
<1>5. ASSUME NEW f \in Evaluators, f # e
      PROVE  DueFor(f)'
  <2>1. events[f] # {} => cur[f] # q
    BY <1>3, <1>5, OthersHandle
  <2>2. /\ events'[f] = events[f] /\ cur'[f] = cur[f] /\ now'[f] = now[f]
        /\ acting'[f] = acting[f] /\ pc'[f] = pc[f] /\ fires' = fires
    BY <1>1, <1>2, <1>5 DEF Functional
  <2>3. events[f] # {} /\ cur[f] \in DOMAIN rules' =>
           cur[f] \in DOMAIN rules /\ rules'[cur[f]] = rules[cur[f]]
    BY <1>2, <2>1, MarkedOthers
  <2> QED BY <2>2, <2>3, DueIs, DueKept
<1> QED BY <1>4, <1>5, DueIs

LEMMA EvaluatesDue ==
    ASSUME OneHook, Typed, Sole, Kinds, Noted, Due, NEW e \in Evaluators, Evaluates(e)
    PROVE  Due'
<1>1. Rest /\ Functional /\ Own(e)
  BY TypedIs
<1>2. CASE Wakes(e) \/ ListRules(e) \/ MarkReads(e) \/ Ends(e)
  <2>1. /\ UNCHANGED <<rules, events, acting, fires>>
        /\ \/ events[e] = {}
           \/ pc[e] = "act" /\ pc' = [pc EXCEPT ![e] = "mark"] /\ now' = now /\ cur' = cur
    BY <1>2, NoEvents DEF Wakes, ListRules, MarkReads, Ends, Finished
  <2>2. \A f \in Evaluators \ {e} : pc'[f] = pc[f] /\ now'[f] = now[f] /\ cur'[f] = cur[f]
    BY <1>1, <1>2 DEF Wakes, ListRules, MarkReads, Ends, Functional
  <2>3. ASSUME NEW f \in Evaluators PROVE DueFor(f)'
    <3>1. CASE f = e
      BY <1>1, <2>1, <3>1, DueIs, DueKept DEF Functional
    <3>2. CASE f # e
      BY <2>1, <2>2, <3>2, DueIs, DueKept
    <3> QED BY <3>1, <3>2
  <2> QED BY <2>3, DueIs
<1>3. ASSUME NEW r \in todo[e], Looks(e, r)
      PROVE  Due'
  <2>1. /\ UNCHANGED <<rules, pc, now, acting, fires>> /\ pc[e] = "fire"
        /\ cur' = [cur EXCEPT ![e] = r] /\ \E x : events' = [events EXCEPT ![e] = x]
    BY <1>3 DEF Looks
  <2>2. DueFor(e)'
    <3>1. cur'[e] = r
      BY <1>1, <2>1 DEF Functional
    <3> QED BY <1>3, <2>1, <3>1, LooksDue DEF DueFor, Acting
  <2>3. ASSUME NEW f \in Evaluators, f # e PROVE DueFor(f)'
    <3>1. cur'[f] = cur[f] /\ events'[f] = events[f]
      BY <1>1, <2>1, <2>3 DEF Functional
    <3> QED BY <2>1, <3>1, DueIs, DueKept
  <2> QED BY <2>2, <2>3, DueIs
<1>4. CASE \E s \in events[e] : Acts(e, s)
  BY <1>4, ActsDue
<1>5. CASE MarkWrites(e)
  BY <1>5, MarkWritesDue
<1> QED BY <1>2, <1>3, <1>4, <1>5 DEF Evaluates

LEMMA UserDue ==
    ASSUME Typed, Due, User
    PROVE  Due'
<1>1. Rest /\ Functional /\ Read
  BY TypedIs
<1>2. UNCHANGED <<pc, now, cur, events, acting, fires>>
  BY DEF User, Create, Save, Delete, Edits, evaluator
<1>3. ASSUME NEW e \in Evaluators, events[e] # {}, cur[e] \in DOMAIN rules'
      PROVE  /\ cur[e] \in DOMAIN rules
             /\ rules'[cur[e]].fired = rules[cur[e]].fired
             /\ rules'[cur[e]].last = rules[cur[e]].last
  <2>1. cur[e] \in made
    <3>1. Own(e)
      BY TypedIs
    <3> QED BY <1>1, <1>3, <3>1 DEF Own, Read, RulesFile
  <2>2. ASSUME NEW r \in Ids, NEW d \in Definition, Create(r, d)
        PROVE  cur[e] \in DOMAIN rules /\ rules'[cur[e]] = rules[cur[e]]
    BY <1>3, <2>1, <2>2 DEF Create, With
  <2>3. ASSUME NEW r \in Ids, NEW d \in Definition, Save(r, d)
        PROVE  /\ cur[e] \in DOMAIN rules
               /\ rules'[cur[e]].fired = rules[cur[e]].fired
               /\ rules'[cur[e]].last = rules[cur[e]].last
    <3>1. rules' = [rules EXCEPT ![r] = Updated(rules[r], d)] /\ r \in DOMAIN rules
      BY <2>3 DEF Save
    <3>2. /\ Updated(rules[r], d).last = rules[r].last
          /\ Updated(rules[r], d).fired = rules[r].fired
      BY <1>1, <3>1, UpdatedTyped DEF Rest, RulesFile
    <3> QED BY <1>3, <3>1, <3>2
  <2>4. ASSUME NEW r \in Ids, Delete(r)
        PROVE  cur[e] \in DOMAIN rules /\ rules'[cur[e]] = rules[cur[e]]
    BY <1>3, <2>4 DEF Delete, Restrict
  <2> QED BY <2>2, <2>3, <2>4 DEF User
<1>4. ASSUME NEW e \in Evaluators PROVE DueFor(e)'
  BY <1>2, <1>3, DueIs, DueKept
<1> QED BY <1>4, DueIs

LEMMA NextDue ==
    ASSUME OneHook, Typed, Sole, Kinds, Noted, Due, [Next]_vars
    PROVE  Due'
<1>1. CASE \E e \in Evaluators : Evaluates(e)
  BY <1>1, EvaluatesDue
<1>2. CASE User
  BY <1>2, UserDue
<1>3. CASE (\E n \in Nodes : Changes(n)) \/ Advance \/ UNCHANGED vars
  <2>1. UNCHANGED <<rules, pc, now, cur, events, acting, fires>>
    BY <1>3 DEF Changes, Advance, vars, evaluator
  <2> QED BY <2>1, DueIs, DueKept
<1>4. CASE Crash \/ TornWrite
  BY <1>4 DEF Crash, TornWrite, Asleep, Due
<1> QED BY <1>1, <1>2, <1>3, <1>4 DEF Next

-----------------------------------------------------------------------------
(* Told                                                                     *)

\* The scheduler has looked at r, and n has been down throughout its tick.
ToldOf(r, n) ==
    \/ cur[Scheduler] = r /\ n \in events[Scheduler]
    \/ fires[r][n] = now[Scheduler]
    \/ fires[r][n] # NoTime /\ now[Scheduler] - fires[r][n] < Cooldown

Watches(rs, r) == rs[r].on /\ rs[r].trigger = "xray_down"

LEMMA ToldIs ==
    /\ Told <=> \A r \in DOMAIN snap[Scheduler] \ todo[Scheduler] :
                   Watches(snap[Scheduler], r) => \A n \in steady : ToldOf(r, n)
    /\ Told' <=> \A r \in DOMAIN snap'[Scheduler] \ todo'[Scheduler] :
                   Watches(snap'[Scheduler], r) => \A n \in steady' : ToldOf(r, n)'
  BY DEF Told, Watches, ToldOf

\* The scheduler does not move, and nothing fires that it has read.
LEMMA ToldKept ==
    ASSUME Told, steady' \subseteq steady,
           /\ snap'[Scheduler] = snap[Scheduler] /\ todo'[Scheduler] = todo[Scheduler]
           /\ cur'[Scheduler] = cur[Scheduler] /\ events'[Scheduler] = events[Scheduler]
           /\ now'[Scheduler] = now[Scheduler],
           \A r \in DOMAIN snap[Scheduler] :
              Watches(snap[Scheduler], r) => fires'[r] = fires[r]
    PROVE  Told'
<1>1. ASSUME NEW r \in DOMAIN snap'[Scheduler] \ todo'[Scheduler],
             Watches(snap'[Scheduler], r), NEW n \in steady'
      PROVE  ToldOf(r, n)'
  <2>1. r \in DOMAIN snap[Scheduler] \ todo[Scheduler] /\ Watches(snap[Scheduler], r)
        /\ n \in steady /\ fires'[r] = fires[r]
    BY <1>1
  <2>2. ToldOf(r, n)
    BY <2>1, ToldIs
  <2> QED BY <2>1, <2>2 DEF ToldOf
<1> QED BY <1>1, ToldIs

\* What evaluate does not let through has fired within its cooldown.
LEMMA Silenced ==
    ASSUME Typed, Noted, NEW r \in todo[Scheduler], NEW n \in Nodes,
           snap[Scheduler][r].trigger = "xray_down",
           ~ShouldFire(snap[Scheduler][r], n, now[Scheduler])
    PROVE  fires[r][n] # NoTime /\ now[Scheduler] - fires[r][n] < Cooldown
<1> DEFINE rule == snap[Scheduler][r]
<1>1. Rest /\ Functional /\ Own(Scheduler) /\ Read
  BY TypedIs DEF Evaluators
<1>2. NotedIn(rule, fires[r][n], n, Tick)
  BY DEF Noted, NotedAt, Evaluators, Scopes
<1>3. rule \in Rule
  BY <1>1 DEF Own, Read, RulesFile, Evaluators
<1>4. n # Global /\ n \in ScopesOf(rule.trigger)
  BY ScopesAssumption DEF ScopesOf
<1>5. /\ LastFired(rule, n) # NoTime
      /\ ~(now[Scheduler] - LastFired(rule, n) >= Cooldown)
  BY DEF ShouldFire
<1> HIDE DEF rule
<1>6. fires[r][n] = LastFired(rule, n)
  BY <1>2, <1>4, <1>5 DEF NotedIn, LastFired
<1>7. LastFired(rule, n) \in Times
  <2>1. rule.last \in Times \cup {NoTime} /\ rule.fired \in {NoMap} \cup Maps
    BY <1>3, RuleParts
  <2>2. rule.fired # NoMap => rule.fired \in [DOMAIN rule.fired -> Times]
    BY <2>1, MapFacts
  <2> QED BY <1>5, <2>1, <2>2 DEF LastFired
<1>8. now[Scheduler] \in Nat /\ LastFired(rule, n) \in Nat /\ Cooldown \in Nat
  BY <1>1, <1>7, BoundsAssumption, TimesAssumption DEF Functional, Times, Evaluators
<1> QED BY <1>5, <1>6, <1>8

LEMMA LooksTold ==
    ASSUME Typed, Noted, Told, NEW e \in Evaluators, NEW r \in todo[e], Looks(e, r)
    PROVE  Told'
<1>1. Rest /\ Functional /\ Own(e)
  BY TypedIs
<1>2. /\ UNCHANGED <<snap, now, fires>> /\ events[e] = {} /\ steady' \subseteq steady
      /\ todo' = [todo EXCEPT ![e] = todo[e] \ {r}] /\ cur' = [cur EXCEPT ![e] = r]
  BY DEF Looks
<1>3. CASE e # Scheduler
  <2>1. \E x : events' = [events EXCEPT ![e] = x]
    BY DEF Looks
  <2>2. /\ todo'[Scheduler] = todo[Scheduler] /\ cur'[Scheduler] = cur[Scheduler]
        /\ events'[Scheduler] = events[Scheduler]
    BY <1>1, <1>2, <1>3, <2>1 DEF Functional, Evaluators
  <2> QED BY <1>2, <2>2, ToldKept
<1>4. CASE e = Scheduler
  <2>1. todo'[e] = todo[e] \ {r} /\ cur'[e] = r
    BY <1>1, <1>2 DEF Functional
  <2>2. ASSUME NEW i \in DOMAIN snap'[e] \ todo'[e], Watches(snap'[e], i), NEW n \in steady'
        PROVE  ToldOf(i, n)'
    <3>1. CASE i # r
      <4>1. ToldOf(i, n)
        BY <1>2, <1>4, <2>1, <2>2, <3>1, ToldIs
      <4>2. fires[i][n] = now[Scheduler] \/ (fires[i][n] # NoTime /\ now[Scheduler] - fires[i][n] < Cooldown)
        BY <1>2, <1>4, <4>1 DEF ToldOf
      <4> QED BY <1>2, <4>2 DEF ToldOf
    <3>2. CASE i = r
      <4>1. n \in down /\ n \in Nodes /\ snap[e][r].trigger = "xray_down"
        BY <1>1, <1>2, <2>2, <3>2 DEF Rest, Watches
      <4>2. events'[e] = {s \in down : ShouldFire(snap[e][r], s, now[e])}
        BY <1>1, <2>2, <4>1 DEF Looks, Functional
      <4>3. CASE ShouldFire(snap[e][r], n, now[e])
        BY <1>4, <2>1, <3>2, <4>1, <4>2, <4>3 DEF ToldOf
      <4>4. CASE ~ShouldFire(snap[e][r], n, now[e])
        <5>1. fires[r][n] # NoTime /\ now[Scheduler] - fires[r][n] < Cooldown
          BY <1>4, <4>1, <4>4, Silenced
        <5> QED BY <1>2, <3>2, <5>1 DEF ToldOf
      <4> QED BY <4>3, <4>4
    <3> QED BY <3>1, <3>2
  <2> QED BY <1>4, <2>2, ToldIs
<1> QED BY <1>3, <1>4

LEMMA EvaluatesTold ==
    ASSUME OneHook, Typed, Kinds, Noted, Due, Told, NEW e \in Evaluators, Evaluates(e)
    PROVE  Told'
<1>1. Rest /\ Functional /\ Own(e) /\ Read /\ Scheduler \in Evaluators
  BY TypedIs DEF Evaluators
<1>2. CASE Wakes(e) \/ Ends(e)
  <2>1. /\ UNCHANGED <<todo, events, fires>> /\ (steady' = steady \/ e = Scheduler)
        /\ snap' \in {snap, [snap EXCEPT ![e] = << >>]}
        /\ pc[e] = "idle" \/ snap' = [snap EXCEPT ![e] = << >>]
        /\ \A f \in Evaluators \ {e} : now'[f] = now[f] /\ cur'[f] = cur[f]
    BY <1>1, <1>2 DEF Wakes, Ends, Functional
  <2>2. CASE e = Scheduler
    <3>1. DOMAIN snap'[Scheduler] = {}
      BY <1>1, <2>1, <2>2, EmptyMap DEF Read, Functional
    <3> QED BY <3>1, ToldIs
  <2>3. CASE e # Scheduler
    <3>1. /\ snap'[Scheduler] = snap[Scheduler] /\ now'[Scheduler] = now[Scheduler]
          /\ cur'[Scheduler] = cur[Scheduler]
      BY <1>1, <2>1, <2>3 DEF Functional
    <3> QED BY <2>1, <2>3, <3>1, ToldKept
  <2> QED BY <2>2, <2>3
<1>3. CASE ListRules(e)
  <2>1. /\ UNCHANGED <<now, cur, events, fires, steady>>
        /\ snap' = [snap EXCEPT ![e] = rules]
        /\ todo' = [todo EXCEPT ![e] = Mine(e, rules, now[e])]
    BY <1>3 DEF ListRules
  <2>2. CASE e = Scheduler
    <3>1. snap'[e] = rules /\ todo'[e] = Mine(e, rules, now[e])
      BY <1>1, <2>1 DEF Functional
    <3>2. \A r \in DOMAIN rules : Watches(rules, r) => r \in Mine(e, rules, now[e])
      BY <2>2 DEF Watches, Mine
    <3> QED BY <2>2, <3>1, <3>2, ToldIs
  <2>3. CASE e # Scheduler
    <3>1. snap'[Scheduler] = snap[Scheduler] /\ todo'[Scheduler] = todo[Scheduler]
      BY <1>1, <2>1, <2>3 DEF Functional
    <3> QED BY <2>1, <3>1, ToldKept
  <2> QED BY <2>2, <2>3
<1>4. CASE \E r \in todo[e] : Looks(e, r)
  BY <1>4, LooksTold
<1>5. ASSUME NEW s \in events[e], Acts(e, s)
      PROVE  Told'
  <2>1. /\ UNCHANGED <<now, snap, todo, cur, events, steady>>
        /\ fires' = [fires EXCEPT ![cur[e]][s] = now[e]]
    BY <1>5 DEF Acts
  <2>2. cur[e] \in Ids /\ s \in Scopes /\ cur[e] \in DOMAIN snap[e]
        /\ Drives(e, snap[e][cur[e]].trigger)
    BY <1>1, <1>5, HandlesRead DEF Handles, Own
  <2>3. CASE e = Scheduler
    <3>1. ASSUME NEW i \in DOMAIN snap[e] \ todo[e], Watches(snap[e], i), NEW n \in steady
          PROVE  ToldOf(i, n)'
      <4>1. ToldOf(i, n)
        BY <2>3, <3>1, ToldIs
      <4>2. i \in Ids /\ n \in Scopes
        BY <1>1, <2>3 DEF Read, RulesFile, Rest, Scopes
      <4>3. fires'[i][n] = IF i = cur[e] /\ n = s THEN now[e] ELSE fires[i][n]
        BY <1>1, <2>1, <2>2, <4>2 DEF Rest
      <4> QED BY <2>1, <2>3, <4>1, <4>3 DEF ToldOf
    <3> QED BY <2>1, <2>3, <3>1, ToldIs
  <2>4. CASE e # Scheduler
    <3>1. snap[e][cur[e]].trigger = "webhook"
      BY <2>2, <2>4 DEF Drives
    <3>2. ASSUME NEW r \in DOMAIN snap[Scheduler], Watches(snap[Scheduler], r)
          PROVE  fires'[r] = fires[r]
      <4>1. r # cur[e]
        BY <1>1, <2>2, <3>1, <3>2 DEF Kinds, Watches
      <4>2. r \in Ids
        BY <1>1 DEF Read, RulesFile, Rest
      <4> QED BY <1>1, <2>1, <4>1, <4>2 DEF Rest
    <3> QED BY <2>1, <3>2, ToldKept
  <2> QED BY <2>3, <2>4
<1>6. CASE MarkReads(e)
  <2>1. UNCHANGED <<now, snap, todo, cur, events, fires, steady>>
    BY <1>6 DEF MarkReads
  <2> QED BY <2>1, ToldKept
<1>7. CASE MarkWrites(e)
  <2>1. /\ UNCHANGED <<now, snap, todo, cur, fires, steady>> /\ pc[e] = "mark"
        /\ events' = [events EXCEPT ![e] = events[e] \ {acting[e]}]
    BY <1>7 DEF MarkWrites
  <2>2. CASE e = Scheduler
    <3>1. events'[e] = events[e] \ {acting[e]} /\ acting[e] \in events[e]
      BY <1>1, <2>1 DEF Functional, Own
    <3>2. fires[cur[e]][acting[e]] = now[e]
      BY <2>1, <3>1 DEF Due, Acting
    <3>3. ASSUME NEW i \in DOMAIN snap[e] \ todo[e], Watches(snap[e], i), NEW n \in steady
          PROVE  ToldOf(i, n)'
      <4>1. ToldOf(i, n)
        BY <2>2, <3>3, ToldIs
      <4> QED BY <2>1, <2>2, <3>1, <3>2, <4>1 DEF ToldOf
    <3> QED BY <2>1, <2>2, <3>3, ToldIs
  <2>3. CASE e # Scheduler
    <3>1. events'[Scheduler] = events[Scheduler]
      BY <1>1, <2>1, <2>3 DEF Functional
    <3> QED BY <2>1, <3>1, ToldKept
  <2> QED BY <2>2, <2>3
<1> QED BY <1>2, <1>3, <1>4, <1>5, <1>6, <1>7 DEF Evaluates

LEMMA NextTold ==
    ASSUME OneHook, Typed, Kinds, Noted, Due, Told, [Next]_vars
    PROVE  Told'
<1>1. CASE \E e \in Evaluators : Evaluates(e)
  BY <1>1, EvaluatesTold
<1>2. CASE User \/ (\E n \in Nodes : Changes(n)) \/ Advance \/ UNCHANGED vars
  <2>1. UNCHANGED <<snap, todo, now, cur, events, fires>> /\ steady' \subseteq steady
    BY <1>2 DEF User, Create, Save, Delete, Edits, Changes, Advance, vars, evaluator
  <2> QED BY <2>1, ToldKept
<1>3. CASE Crash \/ TornWrite
  <2>1. DOMAIN snap'[Scheduler] = {}
    BY <1>3, EmptyMap DEF Crash, TornWrite, Asleep, Evaluators
  <2> QED BY <2>1, ToldIs
<1> QED BY <1>1, <1>2, <1>3 DEF Next

-----------------------------------------------------------------------------
(* Theorems                                                                 *)

\* A rule that has fired before there were scopes has noted so.
LEMMA InitTimely == Init => Timely
<1> SUFFICES ASSUME Init PROVE Timely
  OBVIOUS
<1>1. \A e \in Evaluators : /\ DOMAIN snap[e] = {} /\ todo[e] = {} /\ events[e] = {}
  BY EmptyMap DEF Init
<1>2. Kinds /\ Due /\ Told
  BY <1>1 DEF Kinds, Due, Told, Evaluators
<1>3. CASE rules = << >> /\ fires = [r \in Ids |-> [s \in Scopes |-> NoTime]]
  BY <1>1, <1>2, <1>3, EmptyMap DEF Noted, Timely
<1>4. ASSUME NEW r \in Ids, NEW d \in Definition, NEW t \in {0, NoTime},
             rules = [i \in {r} |-> [NewRule(d) EXCEPT !.last = t]],
             fires = [i \in Ids |-> [s \in Scopes |->
                IF i = r /\ (s = Global <=> d.trigger # "xray_down") THEN t
                ELSE NoTime]]
      PROVE  Noted
  <2>1. made = {r} /\ DOMAIN rules = {r}
    BY <1>4 DEF Init
  <2>2. rules[r].trigger = d.trigger /\ rules[r].last = t /\ rules[r].fired = NoMap
    BY <1>4, NewRuleTyped, RuleIs
  <2>3. \A i \in Ids \ made : \A s \in Scopes : fires[i][s] = NoTime
    BY <1>4, <2>1
  <2>4. ASSUME NEW s \in Scopes PROVE NotedAt(rules[r], r, s)
    <3>1. s \in ScopesOf(d.trigger) <=> (s = Global <=> d.trigger # "xray_down")
      BY ScopesAssumption DEF ScopesOf, Scopes
    <3>2. fires[r][s] = IF s \in ScopesOf(d.trigger) THEN t ELSE NoTime
      BY <1>4, <3>1
    <3> QED BY <2>2, <3>2 DEF NotedAt, NotedIn
  <2> QED BY <1>1, <2>1, <2>3, <2>4 DEF Noted
<1> QED BY <1>2, <1>3, <1>4 DEF Init, Timely

\* However evaluators and users mix, also with two processes that write
\* rules.json, and whatever dies in between: the file is a file of rules, and an
\* evaluator works on a rule it has read.
THEOREM TypeCorrect == Spec => []TypeOK
<1>1. Init => Typed
  BY InitTyped
<1>2. Typed /\ [Next]_vars => Typed'
  BY NextTyped
<1>3. Typed => TypeOK
  BY DEF Typed
<1> QED BY <1>1, <1>2, <1>3, PTL DEF Spec

\* Where one process writes rules.json, nothing a user saved is lost to a mark
\* of a firing, and no deleted rule comes back: mark_fired reads and writes
\* without an await in between, and update, create and delete do so too. The
\* process may die at any point; where it dies inside a write, the rules in the
\* file are lost, but no others, and none of them comes back.
THEOREM RulesAsSavedHolds ==
    ASSUME "split" \notin Odds
    PROVE  Spec => []RulesAsSaved
<1>1. Init => Typed /\ Sole
  BY InitTyped, InitSole
<1>2. Typed /\ Sole /\ [Next]_vars => (Typed /\ Sole)'
  BY NextTyped, NextSole
<1>3. Sole => RulesAsSaved
  BY SavedIs DEF Sole
<1> QED BY <1>1, <1>2, <1>3, PTL DEF Spec

\* With one delivery of a webhook at a time, one process, no death between the
\* actions and mark_fired and no trigger changed while its old notes count: an
\* alarm is neither repeated within its cooldown, though the cooldown is judged
\* on a list that was read before the actions of other rules were awaited, nor
\* missing for a node that was down throughout the tick.
THEOREM AlarmsOnTimeHolds ==
    ASSUME OneHook, Odds = {}
    PROVE  Spec => AlarmsOnTime
<1> DEFINE IInv == Typed /\ Sole /\ Timely
<1>1. Init => IInv
  BY InitTyped, InitSole, InitTimely
<1>2. IInv /\ [Next]_vars => IInv'
  <2> SUFFICES ASSUME IInv, [Next]_vars PROVE IInv'
    OBVIOUS
  <2>1. Typed' /\ Sole'
    BY NextTyped, NextSole
  <2>2. Kinds' /\ Noted' /\ Due' /\ Told'
    BY NextKinds, NextNoted, NextDue, NextTold DEF Timely
  <2> QED BY <2>1, <2>2 DEF Timely
<1>3. ASSUME IInv, [Next]_vars, NEW r \in Ids, NEW s \in Scopes,
             fires'[r][s] # fires[r][s], fires[r][s] # NoTime
      PROVE  fires'[r][s] - fires[r][s] >= Cooldown
  <2>1. PICK e \in Evaluators : \E x \in events[e] : Acts(e, x)
    BY <1>3 DEF Next, Evaluates, Wakes, ListRules, Looks, MarkReads, MarkWrites, Ends,
                User, Create, Save, Delete, Edits, Changes, Advance, Crash,
                TornWrite, vars
  <2>2. PICK x \in events[e] : fires' = [fires EXCEPT ![cur[e]][x] = now[e]] /\ pc[e] = "fire"
    BY <2>1 DEF Acts
  <2>3. fires \in [Ids -> [Scopes -> Times \cup {NoTime}]]
    BY <1>3, TypedIs DEF Rest
  <2>4. r = cur[e] /\ s = x /\ fires'[r][s] = now[e]
    BY <1>3, <2>2, <2>3
  <2>5. ~Acting(e, cur[e], x)
    BY <2>2 DEF Acting
  <2> QED BY <1>3, <2>4, <2>5 DEF Timely, Due
<1>4. ASSUME IInv, Finished(Scheduler), NEW r \in DOMAIN snap[Scheduler],
             snap[Scheduler][r].on, snap[Scheduler][r].trigger = "xray_down",
             NEW n \in steady
      PROVE  \/ fires[r][n] = now[Scheduler]
             \/ /\ fires[r][n] # NoTime
                /\ now[Scheduler] - fires[r][n] < Cooldown
  BY <1>4 DEF Finished, Timely, Told
<1> DEFINE Step ==
       /\ \A r \in Ids, s \in Scopes :
             fires'[r][s] # fires[r][s] /\ fires[r][s] # NoTime
             => fires'[r][s] - fires[r][s] >= Cooldown
       /\ Finished(Scheduler) /\ pc'[Scheduler] = "idle" =>
             \A r \in DOMAIN snap[Scheduler] :
                LET rule == snap[Scheduler][r] IN
                rule.on /\ rule.trigger = "xray_down" =>
                \A n \in steady :
                   \/ fires[r][n] = now[Scheduler]
                   \/ /\ fires[r][n] # NoTime
                      /\ now[Scheduler] - fires[r][n] < Cooldown
<1>5. IInv /\ [Next]_vars => [Step]_vars
  BY <1>3, <1>4
<1> HIDE DEF IInv
<1> QED BY <1>1, <1>2, <1>5, PTL DEF Spec, AlarmsOnTime
=============================================================================
