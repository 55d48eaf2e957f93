------------------------- MODULE DeployCardsProofs -------------------------
(***************************************************************************)
(* The cards of the deploy page, for any tabs, addresses, colours, bounds  *)
(* and odds.                                                               *)
(*                                                                         *)
(*   Server    the file, and the file as a writer of a verdict has read it *)
(*   PageIn    the lists of a tab                                          *)
(*   WireIn    its requests and the replies on their way; what deletes was *)
(*             asked for                                                   *)
(*   Clear     the task of its deploy is on no list it has, or gets before *)
(*             the reply to the deploy                                     *)
(*                                                                         *)
(* A list has one card for an id, and only ids that were given out.        *)
(*                                                                         *)
(* Without the odds also, for what a page shows:                           *)
(*                                                                         *)
(*   Queued    a list is waited for alone, and asked for last              *)
(*   Faithful  per id: what the page has is what the server, and the       *)
(*             store, will have when the requests on their way are served  *)
(*   Mirror    so it is for every tab that nobody interfered with          *)
(***************************************************************************)
EXTENDS DeployCards, FiniteSetTheorems, SequenceTheorems, TLAPS

AnyColor == Colors \union {NoColor}

\* A list of cards with ids in ids.
ListIn(cs, ids) ==
    /\ IsFiniteSet(cs) /\ cs \subseteq CardSet /\ IdsOf(cs) \subseteq ids
    /\ \A c, d \in cs : c.id = d.id => c = d

\* Ids that were given out, and the tasks that replace another.
Issued == {i \in TaskIds : tasks[i].state # "none"} \union {Legacy} \union Addrs
Replacing == {tasks[i].restarted_as : i \in TaskIds}

TaskSet == [state : {"none", "waiting", "going", "over"}, addr : Addrs \union {NoId},
            restarted_as : TaskIds \union {NoId}]

Server ==
    /\ ListIn(cards, Issued) /\ ListIn(copy.cards, Issued)
    /\ tombs \subseteq Ids /\ asked \subseteq Ids /\ gone \subseteq tombs
    /\ tasks \in [TaskIds -> TaskSet]
    /\ \A i \in TaskIds : tasks[i].state # "none" => tasks[i].addr \in Addrs
    /\ Replacing \subseteq Issued \union {NoId}
    /\ events \in 0 .. MaxEvents

Ops == {"get", "reget", "post", "delete", "deploy", "restart", "sync"}

\* A card, the id of one, or the form of a deploy.
CardParts ==
    CardSet \union [id : Ids \union {NoId}]
    \union [id : {NoId}, addr : Addrs, status : {"none"}, color : {NoColor}]

RequestSet == [op : Ops, card : CardParts, why : {"plain", "migrate"}, load : Nat]
MessageSet == [req : RequestSet, res : {"ok", "refused", "failed"},
               got : SUBSET (CardSet \union TaskIds)]

\* A request names cards that were given out, and deletes what was asked for.
Valid(r, ids, ask) ==
    /\ r.op = "post" => r.card \in CardSet /\ r.card.id \in ids
    /\ r.op = "delete" => r.card.id \in ask
    /\ r.op = "deploy" => /\ r.card.addr \in Addrs /\ r.card.color \in AnyColor
                          /\ r.card.id \in ask \union {NoId}
    /\ r.op = "restart" => r.card \in CardSet /\ r.card.id \in ask

\* ... and a reply a list, or the id of a task.
Answers(m, ids) ==
    m.res = "ok" =>
       /\ m.req.op \in {"get", "reget"} => ListIn(m.got, ids)
       /\ m.req.op \in {"deploy", "restart"} => \E i \in TaskIds \cap ids : m.got = {i}

PageIn(js, sn, td, ids) == ListIn(js, ids) /\ ListIn(sn, ids) /\ td \subseteq IdsOf(js)

WireIn(o, b, ids, ask) ==
    /\ o \in Seq(RequestSet) /\ b \in Seq(MessageSet)
    /\ \A k \in 1 .. Len(o) : Valid(o[k], ids, ask)
    /\ \A k \in 1 .. Len(b) : Valid(b[k].req, ids, ask) /\ Answers(b[k], ids)

Says(m, op) == m.req.op = op /\ m.res = "ok"

\* The tasks of deploys whose replies are in b.
Pending(b) == UNION {IF Says(b[k], "deploy") THEN b[k].got ELSE {} : k \in 1 .. Len(b)}

Posted(o) == {o[k].card.id : k \in {j \in 1 .. Len(o) : o[j].op = "post"}}

\* The k-th reply in b is the first that has i.
First(b, k, i) ==
    \A j \in 1 .. Len(b) :
       /\ j < k /\ (Says(b[j], "get") \/ Says(b[j], "reget")) => i \notin IdsOf(b[j].got)
       /\ j # k /\ Says(b[j], "deploy") => i \notin b[j].got
       /\ Says(b[j], "restart") => i \notin b[j].got

Ordered(b) ==
    \A k \in 1 .. Len(b) : Says(b[k], "deploy") => \A i \in b[k].got : First(b, k, i)

Clear(js, sn, o, b, re) ==
    /\ Pending(b) \cap (IdsOf(js) \union IdsOf(sn) \union Posted(o) \union re) = {}
    /\ Ordered(b)

TabIn(js, sn, td, o, b, ids, ask, re) ==
    PageIn(js, sn, td, ids) /\ WireIn(o, b, ids, ask) /\ Clear(js, sn, o, b, re)

Shaped ==
    /\ DOMAIN jobs = Tabs /\ DOMAIN snap = Tabs /\ DOMAIN told = Tabs
    /\ load \in [Tabs -> Nat] /\ DOMAIN out = Tabs /\ DOMAIN inbox = Tabs

IInv ==
    /\ Server /\ Shaped
    /\ \A t \in Tabs :
          TabIn(jobs[t], snap[t], told[t], out[t], inbox[t], Issued, asked, Replacing)

-----------------------------------------------------------------------------
(* Lists                                                                    *)

LEMMA EmptyList == ASSUME NEW ids PROVE ListIn({}, ids) /\ IdsOf({}) = {}
  BY FS_EmptySet DEF ListIn, IdsOf

LEMMA SubList ==
    ASSUME NEW ids, NEW cs, ListIn(cs, ids), NEW ds, ds \subseteq cs
    PROVE  ListIn(ds, ids)
<1>1. IsFiniteSet(ds)
  BY FS_Subset DEF ListIn
<1> QED BY <1>1 DEF ListIn, IdsOf

LEMMA LaterList ==
    ASSUME NEW ids, NEW cs, ListIn(cs, ids), NEW more, ids \subseteq more
    PROVE  ListIn(cs, more)
  BY DEF ListIn

LEMMA WithoutList ==
    ASSUME NEW ids, NEW cs, ListIn(cs, ids), NEW i
    PROVE  ListIn(Without(cs, i), ids) /\ IdsOf(Without(cs, i)) = IdsOf(cs) \ {i}
<1>1. Without(cs, i) \subseteq cs
  BY DEF Without
<1>2. ListIn(Without(cs, i), ids)
  BY <1>1, SubList
<1> QED BY <1>2 DEF Without, IdsOf

LEMMA AddList ==
    ASSUME NEW ids, NEW cs, ListIn(cs, ids), NEW c \in CardSet, c.id \in ids,
           c.id \notin IdsOf(cs)
    PROVE  ListIn(cs \union {c}, ids) /\ IdsOf(cs \union {c}) = IdsOf(cs) \union {c.id}
<1>1. IsFiniteSet(cs \union {c})
  BY FS_AddElement DEF ListIn
<1> QED BY <1>1 DEF ListIn, IdsOf

LEMMA WithList ==
    ASSUME NEW ids, NEW cs, ListIn(cs, ids), NEW c \in CardSet, c.id \in ids
    PROVE  ListIn(With(cs, c), ids) /\ IdsOf(With(cs, c)) = IdsOf(cs) \union {c.id}
<1>1. ListIn(Without(cs, c.id), ids) /\ IdsOf(Without(cs, c.id)) = IdsOf(cs) \ {c.id}
  BY WithoutList
<1>2. c.id \notin IdsOf(Without(cs, c.id))
  BY <1>1
<1> QED BY <1>1, <1>2, AddList DEF With

\* One card for an id: as many ids as cards.
LEMMA OneEach ==
    ASSUME NEW ids, NEW cs, ListIn(cs, ids)
    PROVE  IsFiniteSet(IdsOf(cs)) /\ Cardinality(IdsOf(cs)) = Cardinality(cs)
<1> DEFINE f == [c \in cs |-> c.id]
<1>1. f \in Surjection(cs, IdsOf(cs)) /\ f \in Injection(cs, IdsOf(cs))
  BY DEF Surjection, Injection, IsInjective, IdsOf, ListIn
<1> QED BY <1>1, FS_Surjection DEF ListIn

LEMMA CardTyped ==
    ASSUME NEW i \in Ids, NEW a \in Addrs, NEW s \in Statuses, NEW col \in AnyColor
    PROVE  /\ Card(i, a, s, col) \in CardSet /\ Card(i, a, s, col).id = i
           /\ Card(i, a, s, col).addr = a
  BY DEF Card, CardSet, AnyColor

LEMMA CardIs ==
    ASSUME NEW c \in CardSet
    PROVE  /\ c.id \in Ids /\ c.addr \in Addrs /\ c.status \in Statuses
           /\ c.color \in AnyColor
           /\ \A s \in Statuses : [c EXCEPT !.status = s] \in CardSet
                                  /\ [c EXCEPT !.status = s].id = c.id
           /\ \A x \in AnyColor : [c EXCEPT !.color = x] \in CardSet
                                  /\ [c EXCEPT !.color = x].id = c.id
  BY DEF CardSet, AnyColor

LEMMA NoIdIsNone == NoId \notin Ids /\ TaskIds \subseteq Ids /\ Legacy \notin TaskIds
                    /\ Legacy \in Ids /\ Addrs \subseteq Ids /\ TaskIds \cap Addrs = {}
                    /\ NoColor \in AnyColor
<1>1. TaskIds \subseteq Nat /\ Legacy \notin TaskIds /\ Legacy \in Nat
  BY BoundAssumption DEF TaskIds, Legacy
<1> QED BY <1>1, ValueAssumption DEF Ids, AnyColor

LEMMA LegacyList ==
    ASSUME NEW ids, Legacy \in ids
    PROVE  ListIn(LegacyCards, ids) /\ IdsOf(LegacyCards) = {Legacy}
<1> DEFINE a == CHOOSE x \in Addrs : TRUE
           c == Card(Legacy, a, "done", NoColor)
<1>1. a \in Addrs
  BY ValueAssumption
<1>2. c \in CardSet /\ c.id = Legacy
  BY <1>1, CardTyped, NoIdIsNone DEF Statuses
<1>3. LegacyCards = {c}
  BY DEF LegacyCards
<1> HIDE DEF c
<1>4. IsFiniteSet({c})
  BY FS_Singleton
<1> QED BY <1>2, <1>3, <1>4 DEF ListIn, IdsOf

-----------------------------------------------------------------------------
(* Sequences                                                                *)

LEMMA Removes ==
    ASSUME NEW S, NEW s \in Seq(S), NEW k \in 1 .. Len(s)
    PROVE  /\ RemoveAt(s, k) \in Seq(S) /\ Len(RemoveAt(s, k)) = Len(s) - 1
           /\ \A i \in 1 .. Len(s) - 1 : RemoveAt(s, k)[i] = IF i < k THEN s[i] ELSE s[i + 1]
<1> DEFINE n == Len(s)
           a == SubSeq(s, 1, k - 1)
           b == SubSeq(s, k + 1, n)
<1>1. n \in Nat /\ k \in 1 .. n /\ \A i \in 1 .. n : s[i] \in S
  OBVIOUS
<1>2. /\ a \in Seq(S) /\ Len(a) = k - 1 /\ \A i \in 1 .. k - 1 : a[i] = s[i]
  BY <1>1, SubSeqProperties
<1>3. /\ b \in Seq(S) /\ Len(b) = n - k /\ \A i \in 1 .. n - k : b[i] = s[k + i]
  BY <1>1, SubSeqProperties
<1> HIDE DEF a, b, n
<1>4. /\ a \o b \in Seq(S) /\ Len(a \o b) = n - 1
      /\ \A i \in 1 .. n - 1 : (a \o b)[i] = IF i <= k - 1 THEN a[i] ELSE b[i - (k - 1)]
  <2>1. /\ a \o b \in Seq(S) /\ Len(a \o b) = Len(a) + Len(b)
        /\ \A i \in 1 .. Len(a) + Len(b) :
              (a \o b)[i] = IF i <= Len(a) THEN a[i] ELSE b[i - Len(a)]
    BY <1>2, <1>3, ConcatProperties
  <2>2. Len(a) + Len(b) = n - 1
    BY <1>1, <1>2, <1>3
  <2> QED BY <1>2, <2>1, <2>2
<1>5. ASSUME NEW i \in 1 .. n - 1
      PROVE  (a \o b)[i] = IF i < k THEN s[i] ELSE s[i + 1]
  <2>1. CASE i < k
    <3>1. i <= k - 1 /\ i \in 1 .. k - 1
      BY <1>1, <2>1
    <3> QED BY <1>2, <1>4, <2>1, <3>1
  <2>2. CASE ~(i < k)
    <3>1. i - (k - 1) \in 1 .. n - k /\ k + (i - (k - 1)) = i + 1 /\ ~(i <= k - 1)
      BY <1>1, <2>2
    <3> QED BY <1>3, <1>4, <2>2, <3>1
  <2> QED BY <2>1, <2>2
<1> QED BY <1>4, <1>5 DEF RemoveAt, a, b, n

LEMMA Appends ==
    ASSUME NEW S, NEW s \in Seq(S), NEW e \in S
    PROVE  /\ Append(s, e) \in Seq(S) /\ Len(Append(s, e)) = Len(s) + 1
           /\ \A i \in 1 .. Len(s) : Append(s, e)[i] = s[i]
           /\ Append(s, e)[Len(s) + 1] = e
           /\ Append(s, e) = s \o <<e>> /\ <<e>> \in Seq(S) /\ Len(<<e>>) = 1 /\ <<e>>[1] = e
  OBVIOUS

LEMMA Concats ==
    ASSUME NEW S, NEW s \in Seq(S), NEW u \in Seq(S)
    PROVE  /\ s \o u \in Seq(S) /\ Len(s \o u) = Len(s) + Len(u)
           /\ \A i \in 1 .. Len(s \o u) :
                 \/ i \in 1 .. Len(s) /\ (s \o u)[i] = s[i]
                 \/ \E j \in 1 .. Len(u) : (s \o u)[i] = u[j]
<1>1. /\ s \o u \in Seq(S) /\ Len(s \o u) = Len(s) + Len(u)
      /\ Len(s) \in Nat /\ Len(u) \in Nat
      /\ \A i \in 1 .. Len(s) : (s \o u)[i] = s[i]
      /\ \A j \in 1 .. Len(u) : (s \o u)[Len(s) + j] = u[j]
  OBVIOUS
<1>2. ASSUME NEW i \in 1 .. Len(s \o u), i \notin 1 .. Len(s)
      PROVE  \E j \in 1 .. Len(u) : (s \o u)[i] = u[j]
  <2>1. i - Len(s) \in 1 .. Len(u) /\ Len(s) + (i - Len(s)) = i
    BY <1>1, <1>2
  <2> QED BY <1>1, <2>1
<1> QED BY <1>1, <1>2

LEMMA Tails ==
    ASSUME NEW S, NEW s \in Seq(S), s # <<>>
    PROVE  /\ Tail(s) \in Seq(S) /\ Len(Tail(s)) = Len(s) - 1 /\ 1 \in 1 .. Len(s)
           /\ Head(s) = s[1] /\ s[1] \in S /\ Len(s) \in Nat
           /\ \A i \in 1 .. Len(s) - 1 : Tail(s)[i] = s[i + 1] /\ i + 1 \in 1 .. Len(s)
  OBVIOUS

\* The elements of a finite set, in some order.
LEMMA InSomeOrder ==
    ASSUME NEW S, IsFiniteSet(S)
    PROVE  /\ SetToSeq(S) \in Seq(S)
           /\ \A i \in 1 .. Len(SetToSeq(S)) : SetToSeq(S)[i] \in S
           /\ \A x \in S : \E i \in 1 .. Len(SetToSeq(S)) : SetToSeq(S)[i] = x
<1>1. Cardinality(S) \in Nat /\ ExistsBijection(1 .. Cardinality(S), S)
  BY FS_CardinalityType
<1>2. PICK f \in [1 .. Cardinality(S) -> S] : IsInjective(f)
  BY <1>1 DEF ExistsBijection, Bijection, Injection
<1>3. SetToSeq(S) \in [1 .. Cardinality(S) -> S] /\ IsInjective(SetToSeq(S))
  BY <1>2 DEF SetToSeq
<1> HIDE DEF SetToSeq
<1>4. SetToSeq(S) \in Surjection(1 .. Cardinality(S), S)
  <2>1. Cardinality(1 .. Cardinality(S)) = Cardinality(S)
    BY <1>1, FS_Interval
  <2>2. SetToSeq(S) \in Injection(1 .. Cardinality(S), S)
    BY <1>3 DEF Injection
  <2> QED BY <2>1, <2>2, FS_Injection
<1>5. \A x \in S : \E i \in 1 .. Cardinality(S) : SetToSeq(S)[i] = x
  BY <1>4 DEF Surjection
<1> QED BY <1>1, <1>3, <1>5

-----------------------------------------------------------------------------
(* What a page sends                                                        *)

LEMMA ReqTyped ==
    ASSUME Shaped, NEW t \in Tabs, NEW op \in Ops, NEW c \in CardParts,
           NEW why \in {"plain", "migrate"}
    PROVE  /\ Req(t, op, c, why) \in RequestSet
           /\ Req(t, op, c, why).op = op /\ Req(t, op, c, why).card = c
  BY DEF Req, RequestSet, Shaped

\* What syncDiff sends: cards that have left the list, and cards of the list.
Differs(r, left, posted) ==
    \/ r.op = "delete" /\ r.card.id \in left
    \/ r.op = "post" /\ r.card \in posted

\* d is what a page of load n sends for the change from js to next.
Difference(d, js, next, touched, n) ==
    LET left == IdsOf(js) \ IdsOf(next)
        posted == {c \in next : c.id \in touched}
    IN /\ d \in Seq(RequestSet)
       /\ \A k \in 1 .. Len(d) : /\ Differs(d[k], left, posted)
                                 /\ d[k].why # "migrate" /\ d[k].load = n
       /\ \A i \in left : \E k \in 1 .. Len(d) : d[k].op = "delete" /\ d[k].card.id = i
       /\ \A c \in posted : \E k \in 1 .. Len(d) : d[k].op = "post" /\ d[k].card = c

LEMMA DiffIs ==
    ASSUME Shaped, NEW t \in Tabs, NEW ids, ids \subseteq Ids, ListIn(jobs[t], ids),
           NEW next, ListIn(next, ids), NEW touched
    PROVE  Difference(Diff(t, next, touched), jobs[t], next, touched, load[t])
<1> DEFINE R == Removed(jobs[t], next, touched)
           f == [i \in R |-> Req(t, "delete", [id |-> i], "plain")]
           P == {d \in next : d.id \in touched}
           g == [c \in P |-> Req(t, "post", c, "plain")]
           D == {Req(t, "delete", [id |-> i], "plain") : i \in R}
           Q == {Req(t, "post", c, "plain") : c \in P}
<1>1. R \subseteq Ids /\ R = IdsOf(jobs[t]) \ IdsOf(next)
  BY DEF Removed, ListIn
<1>2. IsFiniteSet(R)
  <2>1. IsFiniteSet(IdsOf(jobs[t]))
    BY OneEach
  <2> QED BY <1>1, <2>1, FS_Subset
<1>3. IsFiniteSet(P)
  BY FS_Subset DEF ListIn
<1> HIDE DEF R, P
<1>4. IsFiniteSet(D) /\ IsFiniteSet(Q)
  <2>1. f \in Surjection(R, D) /\ g \in Surjection(P, Q)
    BY DEF Surjection
  <2> QED BY <1>2, <1>3, <2>1, FS_Surjection
<1>5. \A r \in D : r \in RequestSet /\ r.op = "delete" /\ r.card.id \in R
  <2>1. ASSUME NEW i \in R
        PROVE  /\ Req(t, "delete", [id |-> i], "plain") \in RequestSet
               /\ Req(t, "delete", [id |-> i], "plain").op = "delete"
               /\ Req(t, "delete", [id |-> i], "plain").card.id \in R
    <3>1. [id |-> i] \in CardParts /\ "delete" \in Ops
      BY <1>1 DEF CardParts, Ops
    <3>2. /\ Req(t, "delete", [id |-> i], "plain") \in RequestSet
          /\ Req(t, "delete", [id |-> i], "plain").op = "delete"
          /\ Req(t, "delete", [id |-> i], "plain").card = [id |-> i]
      BY <3>1, ReqTyped
    <3>3. [id |-> i].id = i
      OBVIOUS
    <3> QED BY <3>2, <3>3
  <2> QED BY <2>1
<1>6. \A r \in Q : r \in RequestSet /\ r.op = "post" /\ r.card \in P
  <2>1. ASSUME NEW c \in P
        PROVE  /\ Req(t, "post", c, "plain") \in RequestSet
               /\ Req(t, "post", c, "plain").op = "post" /\ Req(t, "post", c, "plain").card \in P
    <3>1. c \in CardParts /\ "post" \in Ops
      BY DEF CardParts, P, ListIn, Ops
    <3>2. /\ Req(t, "post", c, "plain") \in RequestSet
          /\ Req(t, "post", c, "plain").op = "post" /\ Req(t, "post", c, "plain").card = c
      BY <3>1, ReqTyped
    <3> QED BY <3>2
  <2> QED BY <2>1
<1>7. Diff(t, next, touched) = SetToSeq(D) \o SetToSeq(Q)
  BY DEF Diff, P, R
<1>8. /\ SetToSeq(D) \in Seq(RequestSet) /\ SetToSeq(Q) \in Seq(RequestSet)
      /\ \A i \in 1 .. Len(SetToSeq(D)) : SetToSeq(D)[i] \in D
      /\ \A i \in 1 .. Len(SetToSeq(Q)) : SetToSeq(Q)[i] \in Q
      /\ \A r \in D : \E i \in 1 .. Len(SetToSeq(D)) : SetToSeq(D)[i] = r
      /\ \A r \in Q : \E i \in 1 .. Len(SetToSeq(Q)) : SetToSeq(Q)[i] = r
  <2>1. D \subseteq RequestSet /\ Q \subseteq RequestSet
    BY <1>5, <1>6
  <2> HIDE DEF D, Q
  <2>2. Seq(D) \subseteq Seq(RequestSet) /\ Seq(Q) \subseteq Seq(RequestSet)
    BY <2>1
  <2> QED BY <1>4, <2>2, InSomeOrder
<1> HIDE DEF D, Q
<1>9. \A k \in 1 .. Len(Diff(t, next, touched)) :
         Diff(t, next, touched)[k] \in D \union Q
  BY <1>7, <1>8, Concats
<1>10. Diff(t, next, touched) \in Seq(RequestSet)
  BY <1>7, <1>8
<1>11. \A r \in D \union Q : \E k \in 1 .. Len(Diff(t, next, touched)) :
          Diff(t, next, touched)[k] = r
  <2> DEFINE a == SetToSeq(D)
             b == SetToSeq(Q)
  <2>1. /\ a \in Seq(RequestSet) /\ b \in Seq(RequestSet) /\ Diff(t, next, touched) = a \o b
        /\ \A r \in D : \E i \in 1 .. Len(a) : a[i] = r
        /\ \A r \in Q : \E i \in 1 .. Len(b) : b[i] = r
    BY <1>7, <1>8
  <2> HIDE DEF a, b
  <2>2. /\ Len(a) \in Nat /\ Len(b) \in Nat /\ Len(a \o b) = Len(a) + Len(b)
        /\ \A i \in 1 .. Len(a) : (a \o b)[i] = a[i]
        /\ \A i \in 1 .. Len(b) : (a \o b)[Len(a) + i] = b[i]
    <3>1. a \in Seq(RequestSet) /\ b \in Seq(RequestSet)
      BY <2>1
    <3> QED BY <3>1
  <2>3. ASSUME NEW r \in D
        PROVE  \E k \in 1 .. Len(a \o b) : (a \o b)[k] = r
    <3>1. PICK i \in 1 .. Len(a) : a[i] = r
      BY <2>1
    <3>2. i \in 1 .. Len(a \o b) /\ (a \o b)[i] = r
      BY <2>2, <3>1
    <3> QED BY <3>2
  <2>4. ASSUME NEW r \in Q
        PROVE  \E k \in 1 .. Len(a \o b) : (a \o b)[k] = r
    <3>1. PICK i \in 1 .. Len(b) : b[i] = r
      BY <2>1
    <3>2. Len(a) + i \in 1 .. Len(a \o b) /\ (a \o b)[Len(a) + i] = r
      BY <2>2, <3>1
    <3> QED BY <3>2
  <2> QED BY <2>1, <2>3, <2>4
<1>12. \A op, c : /\ Req(t, op, c, "plain").op = op /\ Req(t, op, c, "plain").card = c
                  /\ Req(t, op, c, "plain").why # "migrate"
                  /\ Req(t, op, c, "plain").load = load[t]
  BY DEF Req
<1>13. /\ \A r \in D \union Q : r.why # "migrate" /\ r.load = load[t]
       /\ \A i \in R : \E r \in D : r.op = "delete" /\ r.card.id = i
       /\ \A c \in P : \E r \in Q : r.op = "post" /\ r.card = c
  <2>2. \A r \in D \union Q : \E op, c : r = Req(t, op, c, "plain")
    BY Zenon DEF D, Q
  <2>4. /\ \A i \in R : Req(t, "delete", [id |-> i], "plain") \in D
        /\ \A c \in P : Req(t, "post", c, "plain") \in Q
    BY Zenon DEF D, Q
  <2> HIDE DEF D, Q
  <2>5. ASSUME NEW r \in D \union Q PROVE r.why # "migrate" /\ r.load = load[t]
    <3>1. PICK op, c : r = Req(t, op, c, "plain")
      BY <2>2
    <3>2. /\ Req(t, op, c, "plain").why # "migrate"
          /\ Req(t, op, c, "plain").load = load[t]
      BY <1>12
    <3> QED BY <3>1, <3>2
  <2>6. ASSUME NEW i \in R PROVE \E r \in D : r.op = "delete" /\ r.card.id = i
    <3> DEFINE c == [id |-> i]
               r == Req(t, "delete", c, "plain")
    <3>1. c.id = i
      OBVIOUS
    <3>2. r \in D
      BY <2>4, <2>6
    <3> HIDE DEF c
    <3>3. r.op = "delete" /\ r.card = c
      BY <1>12
    <3> HIDE DEF r
    <3> QED BY <3>1, <3>2, <3>3
  <2>7. \A c \in P : \E r \in Q : r.op = "post" /\ r.card = c
    BY <1>12, <2>4
  <2> QED BY <2>5, <2>6, <2>7
<1> DEFINE d == Diff(t, next, touched)
<1>14. \A k \in 1 .. Len(d) : /\ Differs(d[k], R, P)
                             /\ d[k].why # "migrate" /\ d[k].load = load[t]
  BY <1>5, <1>6, <1>9, <1>13 DEF Differs
<1>15. /\ \A i \in R : \E k \in 1 .. Len(d) : d[k].op = "delete" /\ d[k].card.id = i
       /\ \A c \in P : \E k \in 1 .. Len(d) : d[k].op = "post" /\ d[k].card = c
  BY <1>11, <1>13
<1> QED BY <1>1, <1>10, <1>14, <1>15 DEF Difference, P

-----------------------------------------------------------------------------
(* Replies                                                                  *)

LEMMA PendingIs ==
    ASSUME NEW b
    PROVE  \A i : i \in Pending(b) <=>
                     \E k \in 1 .. Len(b) : Says(b[k], "deploy") /\ i \in b[k].got
  BY DEF Pending

LEMMA PostedIs ==
    ASSUME NEW o
    PROVE  \A i : i \in Posted(o) <=>
                     \E k \in 1 .. Len(o) : o[k].op = "post" /\ o[k].card.id = i
  BY DEF Posted

LEMMA PendingIn ==
    ASSUME NEW o, NEW b, NEW ids, NEW ask, WireIn(o, b, ids, ask)
    PROVE  Pending(b) \subseteq TaskIds \cap ids
<1>1. ASSUME NEW k \in 1 .. Len(b), Says(b[k], "deploy")
      PROVE  b[k].got \subseteq TaskIds \cap ids
  BY <1>1 DEF WireIn, Answers, Says
<1> QED BY <1>1, PendingIs

\* The first reply is taken.
LEMMA TakesReply ==
    ASSUME NEW o, NEW b, NEW ids, NEW ask, WireIn(o, b, ids, ask), Ordered(b), b # <<>>
    PROVE  /\ WireIn(o, Tail(b), ids, ask) /\ Ordered(Tail(b))
           /\ Pending(Tail(b)) \subseteq Pending(b)
           /\ Head(b) \in MessageSet /\ Valid(Head(b).req, ids, ask) /\ Answers(Head(b), ids)
           /\ Says(Head(b), "get") \/ Says(Head(b), "reget") =>
                 Pending(Tail(b)) \cap IdsOf(Head(b).got) = {}
           /\ Says(Head(b), "restart") => Pending(b) \cap Head(b).got = {}
           /\ Says(Head(b), "deploy") => /\ Head(b).got \subseteq Pending(b)
                                         /\ Pending(Tail(b)) \cap Head(b).got = {}
<1> DEFINE c == Tail(b)
           n == Len(b)
<1>1. b \in Seq(MessageSet)
  BY DEF WireIn
<1>2. /\ c \in Seq(MessageSet) /\ Len(c) = n - 1 /\ Head(b) = b[1] /\ 1 \in 1 .. n
      /\ n \in Nat /\ b[1] \in MessageSet
      /\ \A k \in 1 .. n - 1 : c[k] = b[k + 1] /\ k + 1 \in 1 .. n
  BY <1>1, Tails
<1> HIDE DEF c, n
<1>3. WireIn(o, c, ids, ask)
  BY <1>2 DEF WireIn, n
<1>4. Ordered(c)
  <2> SUFFICES ASSUME NEW k \in 1 .. n - 1, Says(c[k], "deploy"), NEW i \in c[k].got,
                      NEW j \in 1 .. n - 1
               PROVE  /\ j < k /\ (Says(c[j], "get") \/ Says(c[j], "reget"))
                         => i \notin IdsOf(c[j].got)
                      /\ j # k /\ Says(c[j], "deploy") => i \notin c[j].got
                      /\ Says(c[j], "restart") => i \notin c[j].got
    BY <1>2 DEF Ordered, First
  <2>1. First(b, k + 1, i)
    BY <1>2 DEF Ordered, n
  <2>2. j + 1 \in 1 .. n /\ (j < k => j + 1 < k + 1) /\ (j # k => j + 1 # k + 1)
    BY <1>2
  <2> QED BY <1>2, <2>1, <2>2 DEF First, n
<1>5. \A i \in Pending(c) : \E k \in 2 .. n : Says(b[k], "deploy") /\ i \in b[k].got
  <2> SUFFICES ASSUME NEW i \in Pending(c)
               PROVE  \E k \in 2 .. n : Says(b[k], "deploy") /\ i \in b[k].got
    OBVIOUS
  <2>1. PICK k \in 1 .. n - 1 : Says(c[k], "deploy") /\ i \in c[k].got
    BY <1>2, PendingIs
  <2>2. k + 1 \in 2 .. n
    BY <1>2
  <2> QED BY <1>2, <2>1, <2>2
<1>6. \A i \in Pending(c) : \E k \in 2 .. n : /\ Says(b[k], "deploy") /\ i \in b[k].got
                                              /\ First(b, k, i) /\ k \in 1 .. n
  BY <1>2, <1>5 DEF Ordered, n
<1>7. Pending(c) \subseteq Pending(b)
  BY <1>6, PendingIs DEF n
<1>8. /\ Says(b[1], "get") \/ Says(b[1], "reget") => Pending(c) \cap IdsOf(b[1].got) = {}
      /\ Says(b[1], "deploy") => Pending(c) \cap b[1].got = {}
  <2>1. \A k \in 2 .. n : 1 < k /\ 1 # k
    BY <1>2
  <2> QED BY <1>2, <1>6, <2>1 DEF First, n
<1>9. Says(b[1], "restart") => Pending(b) \cap b[1].got = {}
  BY <1>2, PendingIs DEF Ordered, First, n
<1>10. Says(b[1], "deploy") => b[1].got \subseteq Pending(b)
  BY <1>2, PendingIs DEF n
<1>11. Valid(b[1].req, ids, ask) /\ Answers(b[1], ids)
  BY <1>2 DEF WireIn, n
<1> QED BY <1>2, <1>3, <1>4, <1>7, <1>8, <1>9, <1>10, <1>11 DEF c

\* The k-th request is served, without a reply to wait for.
LEMMA TakesRequest ==
    ASSUME NEW o, NEW b, NEW ids, NEW ask, WireIn(o, b, ids, ask), NEW k \in 1 .. Len(o)
    PROVE  /\ WireIn(RemoveAt(o, k), b, ids, ask)
           /\ Posted(RemoveAt(o, k)) \subseteq Posted(o)
           /\ o[k] \in RequestSet /\ Valid(o[k], ids, ask)
<1> DEFINE q == RemoveAt(o, k)
           n == Len(o)
<1>1. n \in Nat /\ k \in 1 .. n /\ o \in Seq(RequestSet) /\ \A i \in 1 .. n : o[i] \in RequestSet
  BY DEF WireIn
<1>2. /\ q \in Seq(RequestSet) /\ Len(q) = n - 1
      /\ \A i \in 1 .. n - 1 : q[i] = IF i < k THEN o[i] ELSE o[i + 1]
  BY <1>1, Removes
<1> HIDE DEF q, n
<1>3. \A i \in 1 .. n - 1 : \E j \in 1 .. n : q[i] = o[j]
  <2> SUFFICES ASSUME NEW i \in 1 .. n - 1 PROVE \E j \in 1 .. n : q[i] = o[j]
    OBVIOUS
  <2>1. i \in 1 .. n /\ i + 1 \in 1 .. n
    BY <1>1
  <2> QED BY <1>2, <2>1
<1>4. WireIn(q, b, ids, ask)
  BY <1>2, <1>3 DEF WireIn, n
<1>5. Posted(q) \subseteq Posted(o)
  BY <1>2, <1>3, PostedIs DEF n
<1> QED BY <1>1, <1>4, <1>5 DEF WireIn, q, n

\* A reply more: a list, a refusal, or a task on which no deploy waits.
LEMMA AddsReply ==
    ASSUME NEW o, NEW b, NEW ids, NEW ask, WireIn(o, b, ids, ask), Ordered(b),
           NEW m \in MessageSet, Valid(m.req, ids, ask), Answers(m, ids),
           ~Says(m, "deploy"), Says(m, "restart") => Pending(b) \cap m.got = {}
    PROVE  /\ WireIn(o, Append(b, m), ids, ask) /\ Ordered(Append(b, m))
           /\ Pending(Append(b, m)) = Pending(b)
<1> DEFINE c == Append(b, m)
           n == Len(b)
<1>1. /\ n \in Nat /\ c \in Seq(MessageSet) /\ Len(c) = n + 1 /\ c[n + 1] = m
      /\ \A k \in 1 .. n : c[k] = b[k]
      /\ \A k \in 1 .. n + 1 : k \in 1 .. n \/ k = n + 1
  BY Appends DEF WireIn
<1> HIDE DEF c, n
<1>2. WireIn(o, c, ids, ask)
  BY <1>1 DEF WireIn, n
<1>3. \A k \in 1 .. n + 1 : Says(c[k], "deploy") => k \in 1 .. n /\ c[k] = b[k]
  BY <1>1
<1>4. \A k \in 1 .. n : k \in 1 .. n + 1
  BY <1>1
<1>5. Pending(c) = Pending(b)
  BY <1>1, <1>3, <1>4, PendingIs DEF n
<1>6. Ordered(c)
  <2> SUFFICES ASSUME NEW k \in 1 .. n, Says(b[k], "deploy"), NEW i \in b[k].got,
                      NEW j \in 1 .. n + 1
               PROVE  /\ j < k /\ (Says(c[j], "get") \/ Says(c[j], "reget"))
                         => i \notin IdsOf(c[j].got)
                      /\ j # k /\ Says(c[j], "deploy") => i \notin c[j].got
                      /\ Says(c[j], "restart") => i \notin c[j].got
    BY <1>1, <1>3 DEF Ordered, First
  <2>1. First(b, k, i) /\ i \in Pending(b)
    BY PendingIs DEF Ordered, n
  <2>2. CASE j \in 1 .. n
    BY <1>1, <2>1, <2>2 DEF First, n
  <2>3. CASE j = n + 1
    <3>1. ~(j < k)
      BY <1>1, <2>3
    <3> QED BY <1>1, <2>1, <2>3, <3>1
  <2> QED BY <1>1, <2>2, <2>3
<1> QED BY <1>2, <1>5, <1>6 DEF c

\* The reply to a deploy: a new task.
LEMMA AddsTask ==
    ASSUME NEW o, NEW b, NEW ids, NEW ask, WireIn(o, b, ids, ask), Ordered(b),
           NEW more, ids \subseteq more, NEW x \in TaskIds \cap more, x \notin ids,
           NEW m \in MessageSet, Valid(m.req, more, ask), Says(m, "deploy"), m.got = {x},
           WireIn(o, b, more, ask)
    PROVE  /\ WireIn(o, Append(b, m), more, ask) /\ Ordered(Append(b, m))
           /\ Pending(Append(b, m)) = Pending(b) \union {x}
<1> DEFINE c == Append(b, m)
           n == Len(b)
<1>1. /\ n \in Nat /\ c \in Seq(MessageSet) /\ Len(c) = n + 1 /\ c[n + 1] = m
      /\ \A k \in 1 .. n : c[k] = b[k] /\ k \in 1 .. n + 1
      /\ \A k \in 1 .. n + 1 : k \in 1 .. n \/ k = n + 1
      /\ n + 1 \in 1 .. n + 1
  BY Appends DEF WireIn
<1> HIDE DEF c, n
<1>2. Answers(m, more)
  BY DEF Answers, Says
<1>3. WireIn(o, c, more, ask)
  BY <1>1, <1>2 DEF WireIn, n
<1>4. Pending(c) = Pending(b) \union {x}
  BY <1>1, PendingIs DEF n
<1>5. \A j \in 1 .. n :
         /\ Says(b[j], "get") \/ Says(b[j], "reget") => x \notin IdsOf(b[j].got)
         /\ Says(b[j], "deploy") \/ Says(b[j], "restart") => x \notin b[j].got
  <2> SUFFICES ASSUME NEW j \in 1 .. n
               PROVE  /\ Says(b[j], "get") \/ Says(b[j], "reget") => x \notin IdsOf(b[j].got)
                      /\ Says(b[j], "deploy") \/ Says(b[j], "restart") => x \notin b[j].got
    OBVIOUS
  <2>1. Answers(b[j], ids)
    BY DEF WireIn, n
  <2> QED BY <2>1 DEF Answers, Says, ListIn
<1>6. Ordered(c)
  <2> SUFFICES ASSUME NEW k \in 1 .. n + 1, Says(c[k], "deploy"), NEW i \in c[k].got
               PROVE  First(c, k, i)
    BY <1>1 DEF Ordered
  <2>1. CASE k = n + 1
    <3>1. i = x
      BY <1>1, <2>1
    <3>2. \A j \in 1 .. n + 1 : j < k \/ j # k => j \in 1 .. n
      BY <1>1, <2>1
    <3>3. ~Says(m, "restart")
      BY DEF Says
    <3> QED BY <1>1, <1>5, <2>1, <3>1, <3>2, <3>3 DEF First
  <2>2. CASE k \in 1 .. n
    <3>1. First(b, k, i) /\ i # x
      BY <1>1, <1>5, <2>2 DEF Ordered, n
    <3>2. ~(n + 1 < k) /\ ~Says(m, "restart")
      BY <1>1, <2>2 DEF Says
    <3>3. \A j \in 1 .. n : c[j] = b[j]
      BY <1>1
    <3> QED BY <1>1, <3>1, <3>2, <3>3 DEF First, n
  <2> QED BY <1>1, <2>1, <2>2
<1> QED BY <1>3, <1>4, <1>6 DEF c

\* Requests more.
LEMMA AddsRequests ==
    ASSUME NEW o, NEW b, NEW ids, NEW ask, WireIn(o, b, ids, ask),
           NEW s \in Seq(RequestSet), \A k \in 1 .. Len(s) : Valid(s[k], ids, ask)
    PROVE  /\ WireIn(o \o s, b, ids, ask) /\ Posted(o \o s) \subseteq Posted(o) \union Posted(s)
<1> DEFINE q == o \o s
<1>1. o \in Seq(RequestSet)
  BY DEF WireIn
<1>2. /\ q \in Seq(RequestSet)
      /\ \A i \in 1 .. Len(q) : \/ i \in 1 .. Len(o) /\ q[i] = o[i]
                                \/ \E j \in 1 .. Len(s) : q[i] = s[j]
  BY <1>1, Concats
<1> HIDE DEF q
<1>3. WireIn(q, b, ids, ask)
  BY <1>2 DEF WireIn
<1>4. Posted(q) \subseteq Posted(o) \union Posted(s)
  BY <1>2 DEF Posted
<1> QED BY <1>3, <1>4 DEF q

LEMMA NoReplies ==
    ASSUME NEW o, NEW b, NEW ids, NEW ask, WireIn(o, b, ids, ask)
    PROVE  WireIn(o, <<>>, ids, ask) /\ Ordered(<<>>) /\ Pending(<<>>) = {}
  BY DEF WireIn, Ordered, Pending

\* More ids are given out, more is asked for.
LEMMA LaterTab ==
    ASSUME NEW js, NEW sn, NEW td, NEW o, NEW b, NEW ids, NEW ask, NEW re,
           TabIn(js, sn, td, o, b, ids, ask, re),
           NEW more, ids \subseteq more, NEW ask2, ask \subseteq ask2,
           NEW re2, re2 \cap ids \subseteq re
    PROVE  TabIn(js, sn, td, o, b, more, ask2, re2)
<1>1. PageIn(js, sn, td, more)
  BY LaterList DEF TabIn, PageIn
<1>2. \A r : Valid(r, ids, ask) => Valid(r, more, ask2)
  BY DEF Valid
<1>3. \A m : Answers(m, ids) => Answers(m, more)
  BY LaterList DEF Answers
<1>4. WireIn(o, b, more, ask2)
  BY <1>2, <1>3 DEF TabIn, WireIn
<1>5. Pending(b) \subseteq ids
  BY PendingIn DEF TabIn
<1>6. Clear(js, sn, o, b, re2)
  BY <1>5 DEF TabIn, Clear
<1> QED BY <1>1, <1>4, <1>6 DEF TabIn

-----------------------------------------------------------------------------
(* Steps                                                                    *)

\* A step of, or for, one tab.
LEMMA OneTab ==
    ASSUME IInv, Server', Shaped', NEW t \in Tabs,
           \A u \in Tabs \ {t} :
              /\ jobs'[u] = jobs[u] /\ snap'[u] = snap[u] /\ told'[u] = told[u]
              /\ out'[u] = out[u] /\ inbox'[u] = inbox[u],
           Issued \subseteq Issued', asked \subseteq asked', Replacing' \cap Issued \subseteq Replacing,
           TabIn(jobs'[t], snap'[t], told'[t], out'[t], inbox'[t], Issued', asked', Replacing')
    PROVE  IInv'
<1>1. ASSUME NEW u \in Tabs, u # t
      PROVE  TabIn(jobs'[u], snap'[u], told'[u], out'[u], inbox'[u], Issued', asked', Replacing')
  <2>1. TabIn(jobs[u], snap[u], told[u], out[u], inbox[u], Issued, asked, Replacing)
    BY DEF IInv
  <2>2. TabIn(jobs[u], snap[u], told[u], out[u], inbox[u], Issued', asked', Replacing')
    BY <2>1, LaterTab
  <2> QED BY <1>1, <2>2
<1> QED BY <1>1 DEF IInv

\* A step that no tab notices.
LEMMA NoTab ==
    ASSUME IInv, Server', UNCHANGED <<jobs, snap, told, load, out, inbox>>,
           Issued \subseteq Issued', asked \subseteq asked', Replacing' \cap Issued \subseteq Replacing
    PROVE  IInv'
<1>1. Shaped'
  BY DEF IInv, Shaped
<1>2. ASSUME NEW u \in Tabs
      PROVE  TabIn(jobs'[u], snap'[u], told'[u], out'[u], inbox'[u], Issued', asked', Replacing')
  <2>1. TabIn(jobs[u], snap[u], told[u], out[u], inbox[u], Issued, asked, Replacing)
    BY DEF IInv
  <2>2. TabIn(jobs[u], snap[u], told[u], out[u], inbox[u], Issued', asked', Replacing')
    BY <2>1, LaterTab
  <2> QED BY <2>2
<1> QED BY <1>1, <1>2 DEF IInv

LEMMA SameTasks ==
    ASSUME tasks' = tasks
    PROVE  Issued' = Issued /\ Replacing' = Replacing
  BY DEF Issued, Replacing

LEMMA IssuedIds == Issued \subseteq Ids /\ Legacy \in Issued /\ Addrs \subseteq Issued
  BY DEF Issued, Ids

\* The k-th request of t is answered, or was sent by a page that is gone.
LEMMA Answered ==
    ASSUME IInv, NEW t \in Tabs, NEW k \in 1 .. Len(out[t]),
           NEW res \in {"ok", "refused", "failed"}, NEW got \in SUBSET (CardSet \union TaskIds),
           Answer(t, k, res, got)
    PROVE  LET m == [req |-> out[t][k], res |-> res, got |-> got] IN
           /\ m \in MessageSet /\ m.req = out[t][k] /\ m.res = res /\ m.got = got
           /\ out'[t] = RemoveAt(out[t], k) /\ inbox'[t] \in {inbox[t], Append(inbox[t], m)}
           /\ DOMAIN out' = Tabs /\ DOMAIN inbox' = Tabs
           /\ \A u \in Tabs \ {t} : out'[u] = out[u] /\ inbox'[u] = inbox[u]
<1> DEFINE m == [req |-> out[t][k], res |-> res, got |-> got]
<1>1. DOMAIN out = Tabs /\ DOMAIN inbox = Tabs
  BY DEF IInv, Shaped
<1>2. out[t][k] \in RequestSet
  BY TakesRequest DEF IInv, TabIn
<1>3. m \in MessageSet /\ m.req = out[t][k] /\ m.res = res /\ m.got = got
  BY <1>2 DEF MessageSet
<1>4. /\ out' = [out EXCEPT ![t] = RemoveAt(out[t], k)]
      /\ inbox' \in {inbox, [inbox EXCEPT ![t] = Append(inbox[t], m)]}
  BY DEF Answer
<1> HIDE DEF m
<1>5. /\ out'[t] = RemoveAt(out[t], k) /\ inbox'[t] \in {inbox[t], Append(inbox[t], m)}
      /\ DOMAIN out' = Tabs /\ DOMAIN inbox' = Tabs
      /\ \A u \in Tabs \ {t} : out'[u] = out[u] /\ inbox'[u] = inbox[u]
  BY <1>1, <1>4
<1> QED BY <1>3, <1>5 DEF m

\* ... with no new task.
LEMMA AnsweredTab ==
    ASSUME IInv, NEW t \in Tabs, NEW k \in 1 .. Len(out[t]),
           NEW res \in {"ok", "refused", "failed"}, NEW got \in SUBSET (CardSet \union TaskIds),
           Answer(t, k, res, got), UNCHANGED <<jobs, snap, told, load>>, Server',
           Issued \subseteq Issued', asked \subseteq asked', Replacing' \cap Issued \subseteq Replacing,
           res = "ok" => /\ out[t][k].op # "deploy"
                         /\ out[t][k].op \in {"get", "reget"} => ListIn(got, Issued')
                         /\ out[t][k].op = "restart" =>
                               /\ \E i \in TaskIds \cap Issued' : got = {i}
                               /\ Pending(inbox[t]) \cap got = {}
    PROVE  IInv'
<1> DEFINE m == [req |-> out[t][k], res |-> res, got |-> got]
           o == RemoveAt(out[t], k)
<1>1. /\ m \in MessageSet /\ m.req = out[t][k] /\ m.res = res /\ m.got = got
      /\ out'[t] = o /\ inbox'[t] \in {inbox[t], Append(inbox[t], m)}
      /\ DOMAIN out' = Tabs /\ DOMAIN inbox' = Tabs
      /\ \A u \in Tabs \ {t} : out'[u] = out[u] /\ inbox'[u] = inbox[u]
  BY Answered
<1> HIDE DEF m
<1>2. TabIn(jobs[t], snap[t], told[t], out[t], inbox[t], Issued', asked', Replacing')
  BY LaterTab DEF IInv
<1>3. /\ WireIn(o, inbox[t], Issued', asked') /\ Posted(o) \subseteq Posted(out[t])
      /\ Valid(out[t][k], Issued', asked')
  BY <1>2, TakesRequest DEF TabIn
<1> HIDE DEF o
<1>4. Answers(m, Issued') /\ ~Says(m, "deploy")
      /\ (Says(m, "restart") => Pending(inbox[t]) \cap m.got = {})
  BY <1>1 DEF Answers, Says
<1>5. Ordered(inbox[t])
  BY <1>2 DEF TabIn, Clear
<1>6. /\ WireIn(o, Append(inbox[t], m), Issued', asked') /\ Ordered(Append(inbox[t], m))
      /\ Pending(Append(inbox[t], m)) = Pending(inbox[t])
  BY <1>1, <1>3, <1>4, <1>5, AddsReply
<1>7. /\ WireIn(o, inbox'[t], Issued', asked') /\ Ordered(inbox'[t])
      /\ Pending(inbox'[t]) = Pending(inbox[t])
  BY <1>1, <1>3, <1>5, <1>6
<1>8. TabIn(jobs'[t], snap'[t], told'[t], out'[t], inbox'[t], Issued', asked', Replacing')
  BY <1>1, <1>2, <1>3, <1>7 DEF TabIn, Clear
<1>9. Shaped'
  BY <1>1 DEF IInv, Shaped
<1> QED BY <1>1, <1>8, <1>9, OneTab

\* A write is served: the store has its list at once.
LEMMA RepliedTab ==
    ASSUME IInv, NEW t \in Tabs, NEW k \in 1 .. Len(out[t]), Server',
           tasks' = tasks, jobs' = jobs, told' = told, load' = load, inbox' = inbox,
           asked' = asked, out' = [out EXCEPT ![t] = RemoveAt(out[t], k)],
           NEW list, ListIn(list, Issued),
           snap' = snap \/ snap' = [snap EXCEPT ![t] = list],
           IdsOf(list) \subseteq IdsOf(snap[t]) \union Posted(out[t])
    PROVE  IInv'
<1> DEFINE o == RemoveAt(out[t], k)
<1>1. Issued' = Issued /\ Replacing' = Replacing /\ asked' = asked
  BY SameTasks
<1>2. TabIn(jobs[t], snap[t], told[t], out[t], inbox[t], Issued, asked, Replacing)
  BY DEF IInv
<1>3. WireIn(o, inbox[t], Issued, asked) /\ Posted(o) \subseteq Posted(out[t])
  BY <1>2, TakesRequest DEF TabIn
<1>4. /\ out'[t] = o /\ snap'[t] \in {snap[t], list} /\ DOMAIN out' = Tabs /\ DOMAIN snap' = Tabs
      /\ \A u \in Tabs \ {t} : out'[u] = out[u] /\ snap'[u] = snap[u]
  BY DEF IInv, Shaped
<1> HIDE DEF o
<1>5. TabIn(jobs[t], snap'[t], told[t], o, inbox[t], Issued, asked, Replacing)
  BY <1>2, <1>3, <1>4 DEF TabIn, Clear, PageIn
<1>6. Shaped'
  BY <1>4 DEF IInv, Shaped
<1> QED BY <1>1, <1>4, <1>5, <1>6, OneTab

\* A request goes, and nothing comes of it.
LEMMA SentTab ==
    ASSUME IInv, NEW t \in Tabs, NEW k \in 1 .. Len(out[t]), Server', tasks' = tasks,
           jobs' = jobs, snap' = snap, told' = told, load' = load, inbox' = inbox,
           asked' = asked, out' = [out EXCEPT ![t] = RemoveAt(out[t], k)]
    PROVE  IInv'
<1>1. /\ ListIn(snap[t], Issued)
      /\ IdsOf(snap[t]) \subseteq IdsOf(snap[t]) \union Posted(out[t])
  BY DEF IInv, TabIn, PageIn
<1> QED BY <1>1, RepliedTab

\* A tab goes on: with lists of its own, the rest of its replies, more requests.
LEMMA TabGoesOn ==
    ASSUME IInv, NEW t \in Tabs, Server', Shaped', tasks' = tasks, asked \subseteq asked',
           \A u \in Tabs \ {t} :
              /\ jobs'[u] = jobs[u] /\ snap'[u] = snap[u] /\ told'[u] = told[u]
              /\ out'[u] = out[u] /\ inbox'[u] = inbox[u],
           NEW s \in Seq(RequestSet), out'[t] = out[t] \o s,
           \A k \in 1 .. Len(s) : Valid(s[k], Issued, asked'),
           Posted(s) \subseteq IdsOf(jobs'[t]) \union {Legacy},
           PageIn(jobs'[t], snap'[t], told'[t], Issued),
           \/ inbox'[t] \in {inbox[t], <<>>}
           \/ inbox[t] # <<>> /\ inbox'[t] = Tail(inbox[t]),
           Pending(inbox'[t]) \cap (IdsOf(jobs'[t]) \union IdsOf(snap'[t])) = {}
    PROVE  IInv'
<1> DEFINE b == inbox'[t]
<1>1. Issued' = Issued /\ Replacing' = Replacing
  BY SameTasks
<1>2. TabIn(jobs[t], snap[t], told[t], out[t], inbox[t], Issued, asked', Replacing)
  BY <1>1, LaterTab DEF IInv
<1>3. WireIn(out[t], b, Issued, asked') /\ Ordered(b) /\ Pending(b) \subseteq Pending(inbox[t])
  <2>1. CASE b = inbox[t]
    BY <1>2, <2>1 DEF TabIn, Clear
  <2>2. CASE b = <<>>
    BY <1>2, <2>2, NoReplies DEF TabIn, Clear
  <2>3. CASE inbox[t] # <<>> /\ b = Tail(inbox[t])
    BY <1>2, <2>3, TakesReply DEF TabIn, Clear
  <2> QED BY <2>1, <2>2, <2>3
<1> HIDE DEF b
<1>4. WireIn(out[t] \o s, b, Issued, asked') /\ Posted(out[t] \o s) \subseteq Posted(out[t]) \union Posted(s)
  BY <1>3, AddsRequests
<1>5. Pending(b) \cap {Legacy} = {}
  BY <1>3, PendingIn, NoIdIsNone
<1>6. Clear(jobs'[t], snap'[t], out[t] \o s, b, Replacing)
  BY <1>2, <1>3, <1>4, <1>5 DEF TabIn, Clear, b
<1>7. TabIn(jobs'[t], snap'[t], told'[t], out'[t], inbox'[t], Issued, asked', Replacing)
  BY <1>4, <1>6 DEF TabIn, b
<1> QED BY <1>1, <1>7, OneTab

-----------------------------------------------------------------------------
(* The server                                                               *)

LEMMA Counts ==
    ASSUME Server, Counted \/ events' = events
    PROVE  events' \in 0 .. MaxEvents
<1>1. events \in 0 .. MaxEvents /\ MaxEvents \in Nat
  BY BoundAssumption DEF Server
<1>2. CASE events' = events
  BY <1>1, <1>2
<1>3. CASE events < MaxEvents /\ events' = events + 1
  BY <1>1, <1>3
<1> QED BY <1>2, <1>3 DEF Counted

\* The file changes, and no task.
LEMMA FileStep ==
    ASSUME Server, tasks' = tasks, ListIn(cards', Issued), ListIn(copy'.cards, Issued),
           tombs' \subseteq Ids, asked' \subseteq Ids, gone' \subseteq tombs',
           Counted \/ events' = events
    PROVE  Server'
<1>1. Issued' = Issued /\ Replacing' = Replacing
  BY SameTasks
<1>2. events' \in 0 .. MaxEvents
  BY Counts
<1> QED BY <1>1, <1>2 DEF Server

LEMMA NewTaskIs ==
    ASSUME NEW i \in NewTask
    PROVE  i \in TaskIds /\ i \notin Issued /\ tasks[i].state = "none"
<1>1. i \in TaskIds /\ tasks[i].state = "none"
  BY DEF NewTask
<1> QED BY <1>1, NoIdIsNone DEF Issued

\* A deploy is taken on.
LEMMA Deployed ==
    ASSUME Server, NEW i \in NewTask, NEW s \in {"waiting", "going"}, NEW a \in Addrs,
           tasks' = [tasks EXCEPT ![i] = Task(s, a, NoId)]
    PROVE  /\ Issued' = Issued \union {i} /\ Replacing' \cap Issued \subseteq Replacing
           /\ i \notin Replacing'
           /\ tasks' \in [TaskIds -> TaskSet] /\ Replacing' \subseteq Issued' \union {NoId}
           /\ \A k \in TaskIds : tasks'[k].state # "none" => tasks'[k].addr \in Addrs
<1>1. i \in TaskIds /\ i \notin Issued
  BY NewTaskIs
<1>2. /\ Task(s, a, NoId) \in TaskSet /\ Task(s, a, NoId).state = s
      /\ Task(s, a, NoId).addr = a /\ Task(s, a, NoId).restarted_as = NoId
      /\ s # "none"
  BY DEF Task, TaskSet
<1>3. /\ tasks' \in [TaskIds -> TaskSet] /\ tasks'[i] = Task(s, a, NoId)
      /\ \A k \in TaskIds \ {i} : tasks'[k] = tasks[k]
  BY <1>1, <1>2 DEF Server
<1>4. Issued' = Issued \union {i}
  BY <1>1, <1>2, <1>3 DEF Issued
<1>5. Replacing' \subseteq Replacing \union {NoId}
  BY <1>2, <1>3 DEF Replacing
<1>6. NoId \notin Issued
  BY IssuedIds, NoIdIsNone
<1>7. \A k \in TaskIds : tasks'[k].state # "none" => tasks'[k].addr \in Addrs
  BY <1>2, <1>3 DEF Server
<1>8. i # NoId /\ Replacing \subseteq Issued \union {NoId}
  BY <1>1, NoIdIsNone DEF Server
<1> QED BY <1>1, <1>3, <1>4, <1>5, <1>6, <1>7, <1>8

\* A deploy that waits is replaced.
LEMMA Restarted ==
    ASSUME Server, NEW i \in TaskIds, tasks[i].state = "waiting", NEW j \in NewTask,
           tasks' = [tasks EXCEPT ![i] = Task("over", tasks[i].addr, j),
                                  ![j] = Task("going", tasks[i].addr, NoId)]
    PROVE  /\ Issued' = Issued \union {j} /\ Replacing' \cap Issued \subseteq Replacing
           /\ tasks' \in [TaskIds -> TaskSet] /\ Replacing' \subseteq Issued' \union {NoId}
           /\ \A k \in TaskIds : tasks'[k].state # "none" => tasks'[k].addr \in Addrs
           /\ tasks[i].addr \in Addrs
<1> DEFINE a == tasks[i].addr
           x == Task("over", a, j)
           y == Task("going", a, NoId)
<1>1. j \in TaskIds /\ j \notin Issued /\ i # j
  BY NewTaskIs
<1>2. a \in Addrs
  BY DEF Server
<1>3. i \in Issued
  BY DEF Issued
<1>4. /\ tasks' = [tasks EXCEPT ![i] = x, ![j] = y] /\ tasks \in [TaskIds -> TaskSet]
      /\ \A k \in TaskIds : tasks[k].state # "none" => tasks[k].addr \in Addrs
      /\ Replacing \subseteq Issued \union {NoId}
  BY DEF Server
<1> HIDE DEF a
<1>5. /\ x \in TaskSet /\ x.state = "over" /\ x.addr = a /\ x.restarted_as = j
      /\ y \in TaskSet /\ y.state = "going" /\ y.addr = a /\ y.restarted_as = NoId
  BY <1>1, <1>2 DEF Task, TaskSet
<1> HIDE DEF x, y
<1>6. /\ tasks' \in [TaskIds -> TaskSet] /\ tasks'[i] = x /\ tasks'[j] = y
      /\ \A k \in TaskIds \ {i, j} : tasks'[k] = tasks[k]
  BY <1>1, <1>4, <1>5
<1>7. Issued' = Issued \union {j}
  <2>1. \A k \in TaskIds : tasks'[k].state # "none" <=> tasks[k].state # "none" \/ k = j
    BY <1>5, <1>6
  <2> QED BY <1>1, <2>1 DEF Issued
<1>8. Replacing' \subseteq Replacing \union {NoId, j}
  BY <1>5, <1>6 DEF Replacing
<1>9. NoId \notin Issued
  BY IssuedIds, NoIdIsNone
<1>10. \A k \in TaskIds : tasks'[k].state # "none" => tasks'[k].addr \in Addrs
  BY <1>2, <1>4, <1>5, <1>6
<1> QED BY <1>1, <1>2, <1>4, <1>6, <1>7, <1>8, <1>9, <1>10 DEF a

LEMMA JoinList ==
    ASSUME NEW ids, NEW cs, ListIn(cs, ids), NEW ds, ListIn(ds, ids),
           IdsOf(cs) \cap IdsOf(ds) = {}
    PROVE  ListIn(cs \union ds, ids)
<1>1. IsFiniteSet(cs \union ds)
  BY FS_Union DEF ListIn
<1> QED BY <1>1 DEF ListIn, IdsOf

\* What the panel's nodes bring: a card for each.
LEMMA NodeCards ==
    ASSUME NEW nodes \in SUBSET Addrs
    PROVE  LET added == {Card(a, a, "done", NoColor) : a \in nodes} IN
           ListIn(added, Issued) /\ IdsOf(added) = nodes
<1> DEFINE f == [a \in nodes |-> Card(a, a, "done", NoColor)]
           added == {Card(a, a, "done", NoColor) : a \in nodes}
<1>1. IsFiniteSet(nodes)
  BY FS_Subset, ValueAssumption
<1>2. \A a \in nodes : Card(a, a, "done", NoColor) \in CardSet
                       /\ Card(a, a, "done", NoColor).id = a
  <2> TAKE a \in nodes
  <2>1. a \in Ids /\ a \in Addrs /\ "done" \in Statuses /\ NoColor \in AnyColor
    BY NoIdIsNone DEF Statuses
  <2> QED BY <2>1, CardTyped
<1>3. f \in Surjection(nodes, added)
  BY DEF Surjection
<1>4. IsFiniteSet(added)
  BY <1>1, <1>3, FS_Surjection
<1>5. nodes \subseteq Issued
  BY IssuedIds
<1> QED BY <1>2, <1>4, <1>5 DEF ListIn, IdsOf

-----------------------------------------------------------------------------
(* The gateway                                                              *)

LEMMA TabParts ==
    ASSUME IInv, NEW t \in Tabs
    PROVE  /\ PageIn(jobs[t], snap[t], told[t], Issued)
           /\ WireIn(out[t], inbox[t], Issued, asked)
           /\ Clear(jobs[t], snap[t], out[t], inbox[t], Replacing)
           /\ Server /\ Shaped
  BY DEF IInv, TabIn

LEMMA RequestIs ==
    ASSUME IInv, NEW t \in Tabs, NEW k \in 1 .. Len(out[t])
    PROVE  /\ out[t][k] \in RequestSet /\ Valid(out[t][k], Issued, asked)
           /\ out[t][k].op = "post" => out[t][k].card.id \in Posted(out[t])
  BY TabParts, TakesRequest, PostedIs

LEMMA DueIs ==
    ASSUME IInv, NEW t \in Tabs, NEW k \in Due(t)
    PROVE  k \in 1 .. Len(out[t])
<1>1. out[t] \in Seq(RequestSet)
  BY TabParts DEF WireIn
<1>2. DOMAIN out[t] = 1 .. Len(out[t])
  BY <1>1
<1> QED BY <1>2 DEF Due

\* The handlers that leave the server as it is, or change the file only.
LEMMA GetKeeps ==
    ASSUME IInv, NEW t \in Tabs, NEW k \in 1 .. Len(out[t]), ServeGet(t, k)
    PROVE  IInv'
<1>1. ListIn(Listed, Issued)
  <2>1. Listed \subseteq cards
    BY DEF Listed
  <2> QED BY <2>1, SubList, TabParts DEF Server
<1>2. Server'
  BY FileStep, TabParts DEF ServeGet, server, past, Server
<1>3. Issued' = Issued /\ Replacing' = Replacing
  BY SameTasks DEF ServeGet, server
<1>4. Listed \in SUBSET (CardSet \union TaskIds)
  BY <1>1 DEF ListIn
<1>5. /\ Answer(t, k, "ok", Listed) /\ out[t][k].op \in {"get", "reget"}
      /\ UNCHANGED <<jobs, snap, told, load>> /\ asked' = asked
  BY DEF ServeGet, tab, past
<1> HIDE DEF Listed
<1> QED BY <1>1, <1>2, <1>3, <1>4, <1>5, AnsweredTab

LEMMA PostKeeps ==
    ASSUME IInv, NEW t \in Tabs, NEW k \in 1 .. Len(out[t]), ServePost(t, k)
    PROVE  IInv'
<1> DEFINE c == out[t][k].card
           known == c.id \in tombs
           list == IF known THEN Without(snap[t], c.id) ELSE With(snap[t], c)
           res == IF known THEN "refused" ELSE "ok"
<1>1. c \in CardSet /\ c.id \in Issued /\ c.id \in Posted(out[t]) /\ out[t][k].op = "post"
  BY RequestIs DEF ServePost, Valid
<1> DEFINE r == out[t][k]
<1>2. /\ cards' = (IF known THEN cards ELSE With(cards, c))
      /\ UNCHANGED <<tombs, tasks, copy, jobs, told, migrated, load, cached, asked, gone, events>>
      /\ \/ Answer(t, k, res, {}) /\ UNCHANGED snap
         \/ Replied(t, k, list) /\ UNCHANGED inbox
  BY DEF ServePost, Upserted
<1> HIDE DEF c
<1>3. Server'
  <2>1. ListIn(cards', Issued)
    BY <1>1, <1>2, WithList, TabParts DEF Server
  <2> QED BY <1>2, <2>1, FileStep, TabParts DEF Server
<1>4. Issued' = Issued /\ Replacing' = Replacing
  BY <1>2, SameTasks
<1>5. CASE Answer(t, k, res, {}) /\ UNCHANGED snap
  BY <1>1, <1>2, <1>3, <1>4, <1>5, AnsweredTab
<1>6. CASE Replied(t, k, list) /\ UNCHANGED inbox
  <2>1. ListIn(list, Issued) /\ IdsOf(list) \subseteq IdsOf(snap[t]) \union Posted(out[t])
    BY <1>1, WithoutList, WithList, TabParts DEF PageIn
  <2>2. /\ out' = [out EXCEPT ![t] = RemoveAt(out[t], k)]
        /\ snap' = snap \/ snap' = [snap EXCEPT ![t] = list]
    BY <1>6 DEF Replied
  <2>3. /\ tasks' = tasks /\ jobs' = jobs /\ told' = told /\ load' = load
        /\ inbox' = inbox /\ asked' = asked
    BY <1>2, <1>6
  <2> HIDE DEF list
  <2> QED BY <1>3, <2>1, <2>2, <2>3, RepliedTab
<1> QED BY <1>2, <1>5, <1>6

LEMMA DeleteKeeps ==
    ASSUME IInv, NEW t \in Tabs, NEW k \in 1 .. Len(out[t]),
           ServeDelete(t, k) \/ DeleteTorn(t, k)
    PROVE  IInv'
<1> DEFINE i == out[t][k].card.id
           list == Without(snap[t], i)
<1>1. /\ ListIn(list, Issued) /\ IdsOf(list) \subseteq IdsOf(snap[t])
      /\ ListIn(snap[t], Issued) /\ ListIn(Without(cards, i), Issued)
      /\ ListIn(cards, Issued) /\ ListIn(copy.cards, Issued)
      /\ Issued \subseteq Ids /\ IdsOf(cards) \subseteq Issued
  <2>1. ListIn(snap[t], Issued) /\ ListIn(cards, Issued) /\ ListIn(copy.cards, Issued)
    BY TabParts DEF PageIn, Server
  <2>2. /\ ListIn(list, Issued) /\ IdsOf(list) \subseteq IdsOf(snap[t])
        /\ ListIn(Without(cards, i), Issued)
    BY <2>1, WithoutList
  <2>3. IdsOf(cards) \subseteq Issued
    BY <2>1 DEF ListIn
  <2> QED BY <2>1, <2>2, <2>3, IssuedIds
<1>2. CASE ServeDelete(t, k)
  <2>1. /\ \/ cards' = Without(cards, i) /\ tombs' = tombs \union {i} /\ i \in IdsOf(cards)
              /\ gone' = gone \union {i}
           \/ UNCHANGED <<cards, tombs, gone>>
        /\ UNCHANGED <<tasks, copy, jobs, told, load, inbox, asked, events>>
        /\ out' = [out EXCEPT ![t] = RemoveAt(out[t], k)]
        /\ snap' = snap \/ snap' = [snap EXCEPT ![t] = list]
    BY <1>2 DEF ServeDelete, Replied
  <2> HIDE DEF list, i
  <2>2. Server'
    <3>1. ListIn(cards', Issued) /\ tombs' \subseteq Ids /\ gone' \subseteq tombs'
      BY <1>1, <2>1, TabParts DEF Server
    <3> QED BY <1>1, <2>1, <3>1, FileStep, TabParts DEF Server
  <2>3. /\ tasks' = tasks /\ jobs' = jobs /\ told' = told /\ load' = load
        /\ inbox' = inbox /\ asked' = asked
    BY <2>1
  <2>4. IdsOf(list) \subseteq IdsOf(snap[t]) \union Posted(out[t])
    BY <1>1
  <2> QED BY <1>1, <2>1, <2>2, <2>3, <2>4, RepliedTab
<1>3. CASE DeleteTorn(t, k)
  <2>1. /\ cards' = Without(cards, i) /\ Counted
        /\ UNCHANGED <<tombs, gone, tasks, copy, jobs, snap, told, load, inbox, asked>>
        /\ out' = [out EXCEPT ![t] = RemoveAt(out[t], k)]
    BY <1>3 DEF DeleteTorn, tab
  <2> HIDE DEF list, i
  <2>2. Server'
    BY <1>1, <2>1, FileStep, TabParts DEF Server
  <2> QED BY <1>1, <2>1, <2>2, SentTab
<1> QED BY <1>2, <1>3

LEMMA FailKeeps ==
    ASSUME IInv, NEW t \in Tabs, NEW k \in 1 .. Len(out[t]), Fails(t, k)
    PROVE  IInv'
<1>1. /\ UNCHANGED <<cards, tombs, tasks, copy, jobs, snap, told, load, asked, gone>>
      /\ Counted \/ events' = events
      /\ \/ Answer(t, k, "failed", {})
         \/ out' = [out EXCEPT ![t] = RemoveAt(out[t], k)] /\ UNCHANGED inbox
  BY DEF Fails, server, tab
<1>2. Server'
  BY <1>1, FileStep, TabParts DEF Server
<1>3. Issued' = Issued /\ Replacing' = Replacing
  BY <1>1, SameTasks
<1>4. ListIn(snap[t], Issued)
  BY TabParts DEF PageIn
<1>5. CASE Answer(t, k, "failed", {})
  BY <1>1, <1>2, <1>3, <1>5, AnsweredTab
<1>6. CASE out' = [out EXCEPT ![t] = RemoveAt(out[t], k)] /\ UNCHANGED inbox
  BY <1>1, <1>2, <1>6, SentTab
<1> QED BY <1>1, <1>5, <1>6

\* A new task: its card is the server's, and its id is on its way to the page.
LEMMA DeployKeeps ==
    ASSUME IInv, NEW t \in Tabs, NEW k \in 1 .. Len(out[t]), ServeDeploy(t, k)
    PROVE  IInv'
<1> DEFINE a == out[t][k].card.addr
           o == RemoveAt(out[t], k)
<1>1. out[t][k].op = "deploy" /\ a \in Addrs
  BY RequestIs DEF ServeDeploy, Valid
<1>2. PICK i \in NewTask, s \in {"waiting", "going"} :
         /\ tasks' = [tasks EXCEPT ![i] = Task(s, a, NoId)]
         /\ cards' = Upserted(Card(i, a, "running", NoColor))
         /\ Answer(t, k, "ok", {i})
  BY DEF ServeDeploy
<1>3. UNCHANGED <<tombs, copy, jobs, snap, told, load, asked, gone, events>>
  BY DEF ServeDeploy, tab, past
<1> HIDE DEF a, o
<1>4. /\ Issued' = Issued \union {i} /\ Replacing' \cap Issued \subseteq Replacing
      /\ i \notin Replacing' /\ i \in TaskIds /\ i \notin Issued
      /\ tasks' \in [TaskIds -> TaskSet] /\ Replacing' \subseteq Issued' \union {NoId}
      /\ \A j \in TaskIds : tasks'[j].state # "none" => tasks'[j].addr \in Addrs
  BY <1>1, <1>2, Deployed, NewTaskIs, TabParts
<1>5. Server'
  <2>1. ListIn(cards, Issued') /\ ListIn(copy.cards, Issued')
    BY <1>4, LaterList, TabParts DEF Server
  <2>2. Card(i, a, "running", NoColor) \in CardSet /\ Card(i, a, "running", NoColor).id = i
    <3>1. i \in Ids /\ "running" \in Statuses /\ NoColor \in AnyColor
      BY <1>4, NoIdIsNone DEF Statuses
    <3> QED BY <1>1, <3>1, CardTyped
  <2>3. ListIn(cards', Issued')
    BY <1>2, <1>4, <2>1, <2>2, WithList DEF Upserted
  <2> QED BY <1>3, <1>4, <2>1, <2>3, TabParts DEF Server
<1> DEFINE m == [req |-> out[t][k], res |-> "ok", got |-> {i}]
<1>6. /\ m \in MessageSet /\ m.req = out[t][k] /\ m.res = "ok" /\ m.got = {i}
      /\ out'[t] = o /\ inbox'[t] \in {inbox[t], Append(inbox[t], m)}
      /\ DOMAIN out' = Tabs /\ DOMAIN inbox' = Tabs
      /\ \A u \in Tabs \ {t} : out'[u] = out[u] /\ inbox'[u] = inbox[u]
  <2>1. {i} \in SUBSET (CardSet \union TaskIds) /\ Answer(t, k, "ok", {i})
    BY <1>2, <1>4
  <2> QED BY <2>1, Answered DEF o
<1> HIDE DEF m
<1>7. /\ WireIn(o, inbox[t], Issued, asked) /\ Posted(o) \subseteq Posted(out[t])
      /\ WireIn(o, inbox[t], Issued', asked)
      /\ Valid(out[t][k], Issued', asked) /\ Posted(out[t]) \subseteq Issued
  <2>1. TabIn(jobs[t], snap[t], told[t], out[t], inbox[t], Issued', asked, Replacing')
    BY <1>4, LaterTab DEF IInv
  <2>2. \A j \in 1 .. Len(out[t]) : Valid(out[t][j], Issued, asked)
    BY TabParts DEF WireIn
  <2>3. Posted(out[t]) \subseteq Issued
    BY <2>2, PostedIs DEF Valid
  <2> QED BY <2>1, <2>3, TakesRequest, TabParts DEF TabIn, o
<1>8. Says(m, "deploy") /\ Valid(m.req, Issued', asked)
  BY <1>1, <1>6, <1>7 DEF Says
<1>9. Ordered(inbox[t])
  BY TabParts DEF Clear
<1>10. /\ WireIn(o, Append(inbox[t], m), Issued', asked) /\ Ordered(Append(inbox[t], m))
       /\ Pending(Append(inbox[t], m)) = Pending(inbox[t]) \union {i}
  <2>1. Issued \subseteq Issued' /\ i \in TaskIds \cap Issued'
    BY <1>4
  <2> QED BY <1>4, <1>6, <1>7, <1>8, <1>9, <2>1, AddsTask
<1>11. /\ WireIn(o, inbox'[t], Issued', asked) /\ Ordered(inbox'[t])
       /\ Pending(inbox'[t]) \subseteq Pending(inbox[t]) \union {i}
  BY <1>6, <1>7, <1>9, <1>10
<1>12. Clear(jobs[t], snap[t], o, inbox'[t], Replacing')
  <2>1. Pending(inbox[t]) \subseteq Issued
    BY PendingIn, TabParts
  <2>2. IdsOf(jobs[t]) \subseteq Issued /\ IdsOf(snap[t]) \subseteq Issued
    BY TabParts DEF PageIn, ListIn
  <2> QED BY <1>4, <1>7, <1>11, <2>1, <2>2, TabParts DEF Clear
<1>13. PageIn(jobs[t], snap[t], told[t], Issued')
  BY <1>4, LaterList, TabParts DEF PageIn
<1>14. TabIn(jobs'[t], snap'[t], told'[t], out'[t], inbox'[t], Issued', asked', Replacing')
  BY <1>3, <1>6, <1>11, <1>12, <1>13 DEF TabIn
<1>15. Shaped'
  BY <1>3, <1>6, TabParts DEF Shaped
<1> QED BY <1>3, <1>4, <1>5, <1>6, <1>14, <1>15, OneTab

\* A replacement: no deploy waits for it, so that no page expects it as new.
LEMMA RestartKeeps ==
    ASSUME IInv, NEW t \in Tabs, NEW k \in 1 .. Len(out[t]), ServeRestart(t, k)
    PROVE  IInv'
<1> DEFINE i == out[t][k].card.id
<1>1. UNCHANGED <<jobs, snap, told, load>>
  BY DEF ServeRestart, tab
<1>2. /\ out[t][k].op = "restart" /\ tombs' = tombs /\ copy' = copy /\ asked' = asked
      /\ gone' = gone /\ events' = events
  BY DEF ServeRestart, past
<1>3. Pending(inbox[t]) \subseteq Issued /\ Pending(inbox[t]) \cap Replacing = {}
  BY PendingIn, TabParts DEF Clear
<1>4. ASSUME tasks' = tasks, cards' = cards
      PROVE  Server' /\ Issued' = Issued /\ Replacing' = Replacing
  BY <1>2, <1>4, FileStep, SameTasks, TabParts DEF Server
<1>5. CASE /\ i \in TaskIds /\ tasks[i].restarted_as # NoId
           /\ Answer(t, k, "ok", {tasks[i].restarted_as}) /\ UNCHANGED <<cards, tasks>>
  <2> DEFINE j == tasks[i].restarted_as
  <2>1. j \in Replacing /\ j \in TaskIds /\ j \in Issued
    <3>1. tasks[i] \in TaskSet /\ Replacing \subseteq Issued \union {NoId}
      BY <1>5, TabParts DEF Server
    <3> QED BY <1>5, <3>1 DEF TaskSet, Replacing
  <2>2. Server' /\ Issued' = Issued /\ Replacing' = Replacing
    BY <1>4, <1>5
  <2>3. Answer(t, k, "ok", {j})
    BY <1>5
  <2> HIDE DEF i, j
  <2>4. {j} \in SUBSET (CardSet \union TaskIds)
    BY <2>1
  <2>5. \E x \in TaskIds \cap Issued' : {j} = {x}
    BY <2>1, <2>2
  <2>6. Pending(inbox[t]) \cap {j} = {}
    BY <1>3, <2>1
  <2> QED BY <1>1, <1>2, <2>2, <2>3, <2>4, <2>5, <2>6, AnsweredTab
<1>6. CASE /\ i \in TaskIds /\ tasks[i].state = "waiting"
           /\ \E j \in NewTask :
                 /\ tasks' = [tasks EXCEPT ![i] = Task("over", tasks[i].addr, j),
                                           ![j] = Task("going", tasks[i].addr, NoId)]
                 /\ cards' = Upserted(Card(j, tasks[i].addr, "running", NoColor))
                 /\ Answer(t, k, "ok", {j})
  <2> HIDE DEF i
  <2>1. PICK j \in NewTask :
           /\ tasks' = [tasks EXCEPT ![i] = Task("over", tasks[i].addr, j),
                                     ![j] = Task("going", tasks[i].addr, NoId)]
           /\ cards' = Upserted(Card(j, tasks[i].addr, "running", NoColor))
           /\ Answer(t, k, "ok", {j})
    BY <1>6
  <2>2. /\ Issued' = Issued \union {j} /\ Replacing' \cap Issued \subseteq Replacing
        /\ tasks' \in [TaskIds -> TaskSet] /\ Replacing' \subseteq Issued' \union {NoId}
        /\ \A x \in TaskIds : tasks'[x].state # "none" => tasks'[x].addr \in Addrs
        /\ tasks[i].addr \in Addrs /\ j \in TaskIds /\ j \notin Issued
    BY <1>6, <2>1, Restarted, NewTaskIs, TabParts
  <2>3. Server'
    <3> DEFINE c == Card(j, tasks[i].addr, "running", NoColor)
    <3>1. ListIn(cards, Issued') /\ ListIn(copy.cards, Issued')
      BY <2>2, LaterList, TabParts DEF Server
    <3>2. c \in CardSet /\ c.id = j
      <4>1. j \in Ids /\ "running" \in Statuses /\ NoColor \in AnyColor
        BY <2>2, NoIdIsNone DEF Statuses
      <4> QED BY <2>2, <4>1, CardTyped
    <3>3. cards' = With(cards, c)
      BY <2>1 DEF Upserted
    <3> HIDE DEF c
    <3>4. ListIn(cards', Issued')
      BY <2>2, <3>1, <3>2, <3>3, WithList
    <3> QED BY <1>2, <2>2, <3>1, <3>4, TabParts DEF Server
  <2>4. {j} \in SUBSET (CardSet \union TaskIds) /\ \E x \in TaskIds \cap Issued' : {j} = {x}
    BY <2>2
  <2>5. Pending(inbox[t]) \cap {j} = {}
    BY <1>3, <2>2
  <2> QED BY <1>1, <1>2, <2>1, <2>2, <2>3, <2>4, <2>5, AnsweredTab
<1>7. CASE Answer(t, k, "refused", {}) /\ UNCHANGED <<cards, tasks>>
  <2>1. Server' /\ Issued' = Issued /\ Replacing' = Replacing
    BY <1>4, <1>7
  <2> QED BY <1>1, <1>2, <1>7, <2>1, AnsweredTab
<1> QED BY <1>5, <1>6, <1>7 DEF ServeRestart

\* The panel's list is applied.
LEMMA SyncKeeps ==
    ASSUME IInv, NEW t \in Tabs, NEW k \in 1 .. Len(out[t]), ServeSync(t, k)
    PROVE  IInv'
<1> DEFINE N(nodes) == nodes \ {c.addr : c \in Listed}
           A(nodes) == {Card(a, a, "done", NoColor) : a \in N(nodes)}
           D(nodes) == IdsOf({c \in Listed : c.addr \notin nodes})
<1>1. PICK nodes \in SUBSET Addrs :
         /\ cards' = {c \in cards : c.id \notin IdsOf(A(nodes)) \union D(nodes)} \union A(nodes)
         /\ tombs' = (tombs \ IdsOf(A(nodes))) \union D(nodes)
         /\ gone' = (gone \ IdsOf(A(nodes))) \union D(nodes)
         /\ asked' = asked \union D(nodes)
  BY DEF ServeSync
<1> DEFINE added == A(nodes)
           drop == D(nodes)
           rest == {c \in cards : c.id \notin IdsOf(added) \union drop}
<1>2. ListIn(added, Issued)
  <2>1. N(nodes) \in SUBSET Addrs
    OBVIOUS
  <2> QED BY <2>1, NodeCards
<1>3. drop \subseteq IdsOf(cards)
  BY DEF Listed, IdsOf
<1>4. /\ out[t][k].op = "sync" /\ Answer(t, k, "ok", {}) /\ tasks' = tasks /\ copy' = copy
      /\ UNCHANGED <<jobs, snap, told, load>> /\ events' = events
  BY DEF ServeSync, tab
<1>5. /\ cards' = rest \union added /\ tombs' = (tombs \ IdsOf(added)) \union drop
      /\ gone' = (gone \ IdsOf(added)) \union drop /\ asked' = asked \union drop
  BY <1>1
<1> HIDE DEF added, drop, A, D, N
<1>6. ListIn(rest, Issued)
  <2>1. rest \subseteq cards
    OBVIOUS
  <2> HIDE DEF rest
  <2> QED BY <2>1, SubList, TabParts DEF Server
<1>7. IdsOf(rest) \cap IdsOf(added) = {}
  BY DEF IdsOf
<1> HIDE DEF rest
<1>8. ListIn(cards', Issued)
  BY <1>2, <1>5, <1>6, <1>7, JoinList
<1>9. drop \subseteq Ids
  <2>1. ListIn(cards, Issued)
    BY TabParts DEF Server
  <2> QED BY <1>3, <2>1, IssuedIds DEF ListIn
<1>10. tombs' \subseteq Ids /\ gone' \subseteq tombs' /\ asked' \subseteq Ids /\ asked \subseteq asked'
  BY <1>5, <1>9, TabParts DEF Server
<1>11. Server' /\ Issued' = Issued /\ Replacing' = Replacing
  BY <1>4, <1>8, <1>10, FileStep, SameTasks, TabParts DEF Server
<1> QED BY <1>4, <1>10, <1>11, AnsweredTab

-----------------------------------------------------------------------------
(* The deploys                                                              *)

LEMMA DeploysKeep ==
    ASSUME IInv, Deploys
    PROVE  IInv'
<1>0. ListIn(cards, Issued) /\ ListIn(copy.cards, Issued)
  BY TabParts DEF IInv, Server
<1>1. ASSUME NEW i \in TaskIds, EnsureCard(i)
      PROVE  IInv'
  <2> DEFINE c == Card(i, tasks[i].addr, "running", NoColor)
  <2>1. tasks[i].addr \in Addrs /\ i \in Issued
    BY <1>1 DEF EnsureCard, IInv, Server, Issued
  <2>2. c \in CardSet /\ c.id = i
    <3>1. i \in Ids /\ "running" \in Statuses /\ NoColor \in AnyColor
      BY NoIdIsNone DEF Statuses
    <3> QED BY <2>1, <3>1, CardTyped
  <2>3. /\ cards' = With(cards, c) /\ tasks' = tasks /\ tombs' = tombs /\ copy' = copy
        /\ UNCHANGED <<jobs, snap, told, load, out, inbox>>
        /\ asked' = asked /\ gone' = gone /\ events' = events
    BY <1>1 DEF EnsureCard, Upserted, tab, past
  <2> HIDE DEF c
  <2>4. ListIn(cards', Issued)
    BY <1>0, <2>1, <2>2, <2>3, WithList
  <2>5. Server' /\ Issued' = Issued /\ Replacing' = Replacing
    BY <1>0, <2>3, <2>4, FileStep, SameTasks DEF IInv, Server
  <2> QED BY <2>3, <2>5, NoTab
<1>2. ASSUME NEW i \in TaskIds, Ends(i)
      PROVE  IInv'
  <2>1. /\ tasks' = [tasks EXCEPT ![i].state = "over"] /\ tasks[i].state \in {"waiting", "going"}
        /\ cards' = cards /\ tombs' = tombs /\ copy'.cards \in {cards, {}}
        /\ UNCHANGED <<jobs, snap, told, load, out, inbox>>
        /\ asked' = asked /\ gone' = gone /\ events' = events
    BY <1>2 DEF Ends, tab, past, NoCopy
  <2>2. tasks \in [TaskIds -> TaskSet] /\ tasks[i] \in TaskSet
    BY DEF IInv, Server
  <2>3. /\ tasks' \in [TaskIds -> TaskSet] /\ tasks'[i].state = "over"
        /\ tasks'[i].addr = tasks[i].addr /\ tasks'[i].restarted_as = tasks[i].restarted_as
        /\ \A j \in TaskIds \ {i} : tasks'[j] = tasks[j]
    BY <2>1, <2>2 DEF TaskSet
  <2>4. Issued' = Issued
    BY <2>1, <2>3 DEF Issued
  <2>5. Replacing' = Replacing
    BY <2>3 DEF Replacing
  <2>6. ListIn(copy'.cards, Issued)
    BY <1>0, <2>1, EmptyList
  <2>7. \A j \in TaskIds : tasks'[j].state # "none" => tasks'[j].addr \in Addrs
    BY <2>1, <2>3 DEF IInv, Server
  <2>8. Server'
    BY <1>0, <2>1, <2>3, <2>4, <2>5, <2>6, <2>7 DEF IInv, Server
  <2> QED BY <2>1, <2>4, <2>5, <2>8, NoTab
<1>3. CASE VerdictWritten
  <2> DEFINE W(c) == IF c.id = copy.task THEN [c EXCEPT !.status = "done"] ELSE c
             f == [c \in copy.cards |-> W(c)]
             new == {W(c) : c \in copy.cards}
  <2>1. /\ cards' = new /\ copy' = NoCopy /\ tasks' = tasks /\ tombs' = tombs
        /\ UNCHANGED <<jobs, snap, told, load, out, inbox>>
        /\ asked' = asked /\ gone' = gone /\ events' = events
    BY <1>3 DEF VerdictWritten, tab, past
  <2>2. \A c \in copy.cards : W(c) \in CardSet /\ W(c).id = c.id
    <3> TAKE c \in copy.cards
    <3>1. c \in CardSet /\ "done" \in Statuses
      BY <1>0 DEF ListIn, Statuses
    <3> QED BY <3>1, CardIs
  <2>3. f \in Surjection(copy.cards, new)
    BY DEF Surjection
  <2> HIDE DEF W
  <2>4. IsFiniteSet(new)
    BY <1>0, <2>3, FS_Surjection DEF ListIn
  <2>5. ListIn(new, Issued)
    BY <1>0, <2>2, <2>4 DEF ListIn, IdsOf
  <2> HIDE DEF new
  <2>6. ListIn(copy'.cards, Issued)
    BY <2>1, EmptyList DEF NoCopy
  <2>7. Server' /\ Issued' = Issued /\ Replacing' = Replacing
    BY <2>1, <2>5, <2>6, FileStep, SameTasks DEF IInv, Server
  <2> QED BY <2>1, <2>7, NoTab
<1> QED BY <1>1, <1>2, <1>3 DEF Deploys

-----------------------------------------------------------------------------
(* The tabs                                                                 *)

\* f becomes g by a change for t.
Only(f, g, t, v) == DOMAIN g = Tabs /\ g[t] = v /\ \A u \in Tabs \ {t} : g[u] = f[u]

LEMMA OnlyIs ==
    ASSUME NEW f, DOMAIN f = Tabs, NEW t \in Tabs, NEW v, NEW g,
           g = [f EXCEPT ![t] = v] \/ (g = f /\ v = f[t])
    PROVE  Only(f, g, t, v)
  BY DEF Only

\* TabGoesOn, of the variables as the actions change them.
LEMMA PageStep ==
    ASSUME IInv, NEW t \in Tabs, cards' = cards, tombs' = tombs, tasks' = tasks,
           copy' = copy, gone' = gone, Counted \/ events' = events,
           asked \subseteq asked', asked' \subseteq Ids, load' \in [Tabs -> Nat],
           NEW js, Only(jobs, jobs', t, js), NEW sn, Only(snap, snap', t, sn),
           NEW td, Only(told, told', t, td), PageIn(js, sn, td, Issued),
           NEW s \in Seq(RequestSet), Only(out, out', t, out[t] \o s),
           \A k \in 1 .. Len(s) : Valid(s[k], Issued, asked'),
           Posted(s) \subseteq IdsOf(js) \union {Legacy},
           NEW b, Only(inbox, inbox', t, b),
           \/ b \in {inbox[t], <<>>}
           \/ inbox[t] # <<>> /\ b = Tail(inbox[t]),
           Pending(b) \cap (IdsOf(js) \union IdsOf(sn)) = {}
    PROVE  IInv'
<1>1. Server'
  BY FileStep, TabParts DEF Server
<1>2. Shaped'
  BY DEF Shaped, Only
<1>3. /\ jobs'[t] = js /\ snap'[t] = sn /\ told'[t] = td /\ out'[t] = out[t] \o s
      /\ inbox'[t] = b
      /\ \A u \in Tabs \ {t} :
            /\ jobs'[u] = jobs[u] /\ snap'[u] = snap[u] /\ told'[u] = told[u]
            /\ out'[u] = out[u] /\ inbox'[u] = inbox[u]
  BY DEF Only
<1> QED BY <1>1, <1>2, <1>3, TabGoesOn

LEMMA OneRequest ==
    ASSUME NEW ids, NEW ask, NEW r \in RequestSet, Valid(r, ids, ask)
    PROVE  /\ <<r>> \in Seq(RequestSet)
           /\ \A k \in 1 .. Len(<<r>>) : Valid(<<r>>[k], ids, ask)
           /\ \A i \in Posted(<<r>>) : r.op = "post" /\ i = r.card.id
<1>1. <<r>> \in Seq(RequestSet) /\ Len(<<r>>) = 1 /\ <<r>>[1] = r
  OBVIOUS
<1>2. \A k \in 1 .. 1 : k = 1
  OBVIOUS
<1> QED BY <1>1, <1>2, PostedIs

LEMMA NoRequest ==
    ASSUME NEW ids, NEW ask
    PROVE  /\ <<>> \in Seq(RequestSet) /\ Posted(<<>>) = {}
           /\ \A k \in 1 .. Len(<<>>) : Valid(<<>>[k], ids, ask)
           /\ \A s \in Seq(RequestSet) : s \o <<>> = s
  BY PostedIs

\* What a change of the list sends.
LEMMA DiffSends ==
    ASSUME IInv, NEW t \in Tabs, NEW next, ListIn(next, Issued), NEW touched, NEW ask,
           IdsOf(jobs[t]) \ IdsOf(next) \subseteq ask
    PROVE  LET d == Diff(t, next, touched) IN
           /\ d \in Seq(RequestSet)
           /\ \A k \in 1 .. Len(d) : Valid(d[k], Issued, ask)
           /\ Posted(d) \subseteq IdsOf(next)
<1> DEFINE d == Diff(t, next, touched)
<1>1. /\ d \in Seq(RequestSet)
      /\ \A k \in 1 .. Len(d) : Differs(d[k], IdsOf(jobs[t]) \ IdsOf(next),
                                        {c \in next : c.id \in touched})
  <2>1. Shaped /\ Issued \subseteq Ids /\ ListIn(jobs[t], Issued)
    BY IssuedIds, TabParts DEF PageIn
  <2>2. Difference(d, jobs[t], next, touched, load[t])
    BY <2>1, DiffIs
  <2> HIDE DEF d
  <2> QED BY <2>2 DEF Difference
<1> HIDE DEF d
<1>2. \A r : Differs(r, IdsOf(jobs[t]) \ IdsOf(next), {c \in next : c.id \in touched})
             => /\ Valid(r, Issued, ask)
                /\ r.op = "post" => r.card.id \in IdsOf(next)
  BY DEF Differs, Valid, ListIn, IdsOf
<1>3. \A k \in 1 .. Len(d) : /\ Valid(d[k], Issued, ask)
                             /\ d[k].op = "post" => d[k].card.id \in IdsOf(next)
  BY <1>1, <1>2
<1>4. Posted(d) \subseteq IdsOf(next)
  BY <1>3, PostedIs
<1> QED BY <1>1, <1>3, <1>4 DEF d

\* The reply a page takes, and its page.
LEMMA HeadIs ==
    ASSUME IInv, NEW t \in Tabs, inbox[t] # <<>>
    PROVE  LET m == Head(inbox[t]) IN
           /\ m \in MessageSet /\ Valid(m.req, Issued, asked) /\ Answers(m, Issued)
           /\ Pending(Tail(inbox[t])) \subseteq Pending(inbox[t])
           /\ Says(m, "get") \/ Says(m, "reget") =>
                 Pending(Tail(inbox[t])) \cap IdsOf(m.got) = {}
           /\ Says(m, "restart") => Pending(inbox[t]) \cap m.got = {}
           /\ Says(m, "deploy") => /\ m.got \subseteq Pending(inbox[t])
                                   /\ Pending(Tail(inbox[t])) \cap m.got = {}
<1>1. WireIn(out[t], inbox[t], Issued, asked) /\ Ordered(inbox[t])
  BY TabParts DEF Clear
<1> QED BY <1>1, TakesReply

LEMMA PageIs ==
    ASSUME IInv, NEW t \in Tabs
    PROVE  /\ ListIn(jobs[t], Issued) /\ ListIn(snap[t], Issued) /\ told[t] \subseteq IdsOf(jobs[t])
           /\ IdsOf(jobs[t]) \subseteq Issued /\ IdsOf(snap[t]) \subseteq Issued
           /\ Pending(inbox[t]) \cap (IdsOf(jobs[t]) \union IdsOf(snap[t])) = {}
           /\ Pending(inbox[t]) \subseteq TaskIds \cap Issued
           /\ load \in [Tabs -> Nat] /\ asked \subseteq Ids
           /\ DOMAIN jobs = Tabs /\ DOMAIN snap = Tabs /\ DOMAIN told = Tabs
           /\ DOMAIN out = Tabs /\ DOMAIN inbox = Tabs /\ out[t] \in Seq(RequestSet)
<1>1. ListIn(jobs[t], Issued) /\ ListIn(snap[t], Issued) /\ told[t] \subseteq IdsOf(jobs[t])
  BY TabParts DEF PageIn
<1>2. Pending(inbox[t]) \cap (IdsOf(jobs[t]) \union IdsOf(snap[t])) = {}
  BY TabParts DEF Clear
<1>3. Pending(inbox[t]) \subseteq TaskIds \cap Issued
  BY PendingIn, TabParts
<1>4. IdsOf(jobs[t]) \subseteq Issued /\ IdsOf(snap[t]) \subseteq Issued
  BY <1>1 DEF ListIn
<1>5. out[t] \in Seq(RequestSet)
  BY TabParts DEF WireIn
<1> QED BY <1>1, <1>2, <1>3, <1>4, <1>5, TabParts DEF Shaped, Server

\* A page stays as it is, and sends one request, or none.
LEMMA SendStep ==
    ASSUME IInv, NEW t \in Tabs, cards' = cards, tombs' = tombs, tasks' = tasks,
           copy' = copy, gone' = gone, Counted \/ events' = events,
           asked \subseteq asked', asked' \subseteq Ids, load' = load,
           jobs' = jobs, snap' = snap, told' = told,
           \/ inbox' = inbox
           \/ inbox[t] # <<>> /\ inbox' = [inbox EXCEPT ![t] = Tail(inbox[t])],
           NEW r \in RequestSet, Valid(r, Issued, asked'),
           r.op = "post" => r.card.id = Legacy,
           \/ out' = out \/ out' = [out EXCEPT ![t] = out[t] \o <<r>>]
           \/ \E s \in {<<>>, <<r>>} : Only(out, out', t, out[t] \o s)
    PROVE  IInv'
<1>1. \E s \in {<<>>, <<r>>} : Only(out, out', t, out[t] \o s)
  <2>1. out[t] \o <<>> = out[t]
    BY PageIs, NoRequest
  <2>2. CASE out' = out
    <3>1. Only(out, out', t, out[t])
      BY <2>2, OnlyIs, PageIs
    <3> QED BY <2>1, <3>1
  <2>3. CASE out' = [out EXCEPT ![t] = out[t] \o <<r>>]
    <3> DEFINE v == out[t] \o <<r>>
    <3>1. out' = [out EXCEPT ![t] = v] /\ DOMAIN out = Tabs
      BY <2>3, PageIs
    <3> HIDE DEF v
    <3>2. Only(out, out', t, v)
      BY <3>1, OnlyIs
    <3> QED BY <3>2 DEF v
  <2> QED BY <2>2, <2>3
<1>2. PICK s \in {<<>>, <<r>>} : Only(out, out', t, out[t] \o s)
  BY <1>1
<1>3. /\ s \in Seq(RequestSet) /\ \A k \in 1 .. Len(s) : Valid(s[k], Issued, asked')
      /\ Posted(s) \subseteq IdsOf(jobs[t]) \union {Legacy}
  BY OneRequest, NoRequest
<1>4. PICK b : /\ Only(inbox, inbox', t, b)
               /\ \/ b \in {inbox[t], <<>>}
                  \/ inbox[t] # <<>> /\ b = Tail(inbox[t])
               /\ Pending(b) \subseteq Pending(inbox[t])
  <2>1. CASE inbox' = inbox
    BY <2>1, OnlyIs, PageIs
  <2>2. CASE inbox[t] # <<>> /\ inbox' = [inbox EXCEPT ![t] = Tail(inbox[t])]
    <3>1. Only(inbox, inbox', t, Tail(inbox[t]))
      <4> DEFINE v == Tail(inbox[t])
      <4>1. inbox' = [inbox EXCEPT ![t] = v] /\ DOMAIN inbox = Tabs
        BY <2>2, PageIs
      <4> HIDE DEF v
      <4>2. Only(inbox, inbox', t, v)
        BY <4>1, OnlyIs
      <4> QED BY <4>2 DEF v
    <3>2. Pending(Tail(inbox[t])) \subseteq Pending(inbox[t])
      BY <2>2, HeadIs
    <3> QED BY <2>2, <3>1, <3>2
  <2> QED BY <2>1, <2>2
<1>5. Only(jobs, jobs', t, jobs[t]) /\ Only(snap, snap', t, snap[t]) /\ Only(told, told', t, told[t])
  BY OnlyIs, PageIs
<1>6. PageIn(jobs[t], snap[t], told[t], Issued)
  BY TabParts
<1>7. Pending(b) \cap (IdsOf(jobs[t]) \union IdsOf(snap[t])) = {} /\ load' \in [Tabs -> Nat]
  BY <1>4, PageIs
<1> QED BY <1>2, <1>3, <1>4, <1>5, <1>6, <1>7, PageStep

\* A page shows another list.
LEMMA ShowStep ==
    ASSUME IInv, NEW t \in Tabs, cards' = cards, tombs' = tombs, tasks' = tasks,
           copy' = copy, gone' = gone, events' = events, asked' = asked, load' = load,
           out' = out, inbox[t] # <<>>, inbox' = [inbox EXCEPT ![t] = Tail(inbox[t])],
           NEW list, ListIn(list, Issued), Pending(Tail(inbox[t])) \cap IdsOf(list) = {},
           Shows(t, list)
    PROVE  IInv'
<1> DEFINE b == Tail(inbox[t])
           td == told[t] \cap IdsOf(list)
<1>1. /\ inbox' = [inbox EXCEPT ![t] = b] /\ jobs' = [jobs EXCEPT ![t] = list]
      /\ snap' = [snap EXCEPT ![t] = list] /\ told' = [told EXCEPT ![t] = td]
  BY DEF Shows
<1>2. inbox[t] # <<>> /\ b = Tail(inbox[t]) /\ Pending(b) \cap IdsOf(list) = {}
  OBVIOUS
<1>3. PageIn(list, list, td, Issued)
  BY DEF PageIn
<1> HIDE DEF b, td
<1>4. /\ Only(inbox, inbox', t, b) /\ Only(jobs, jobs', t, list)
      /\ Only(snap, snap', t, list) /\ Only(told, told', t, td)
  BY <1>1, OnlyIs, PageIs
<1> DEFINE s == <<>>
<1>5. /\ s \in Seq(RequestSet) /\ Posted(s) = {} /\ out[t] \o s = out[t]
      /\ \A k \in 1 .. Len(s) : Valid(s[k], Issued, asked')
  BY NoRequest, PageIs
<1> HIDE DEF s
<1>6. Only(out, out', t, out[t] \o s)
  BY <1>5, OnlyIs, PageIs
<1>7. load' \in [Tabs -> Nat] /\ asked' \subseteq Ids /\ asked \subseteq asked'
  BY PageIs
<1>8. Pending(b) \cap (IdsOf(list) \union IdsOf(list)) = {}
      /\ Posted(s) \subseteq IdsOf(list) \union {Legacy}
  BY <1>2, <1>5
<1> QED BY <1>2, <1>3, <1>4, <1>5, <1>6, <1>7, <1>8, PageStep

\* A page changes its list.
LEMMA CommitStep ==
    ASSUME IInv, NEW t \in Tabs, cards' = cards, tombs' = tombs, tasks' = tasks,
           copy' = copy, gone' = gone, Counted \/ events' = events,
           asked \subseteq asked', asked' \subseteq Ids, load' = load,
           \/ inbox' = inbox
           \/ inbox[t] # <<>> /\ inbox' = [inbox EXCEPT ![t] = Tail(inbox[t])],
           NEW next, ListIn(next, Issued), NEW touched, Commit(t, next, touched),
           NEW td, Only(told, told', t, td), td \subseteq IdsOf(next),
           IdsOf(jobs[t]) \ IdsOf(next) \subseteq asked',
           Pending(inbox'[t]) \cap IdsOf(next) = {}
    PROVE  IInv'
<1> DEFINE b == inbox'[t]
           s == Diff(t, next, touched)
<1>1. /\ jobs' = [jobs EXCEPT ![t] = next] /\ snap' = [snap EXCEPT ![t] = next]
      /\ out' = [out EXCEPT ![t] = out[t] \o s]
  BY DEF Commit
<1>2. /\ s \in Seq(RequestSet) /\ Posted(s) \subseteq IdsOf(next)
      /\ \A k \in 1 .. Len(s) : Valid(s[k], Issued, asked')
  BY DiffSends
<1> HIDE DEF s
<1>3. Only(inbox, inbox', t, b) /\ \/ b \in {inbox[t], <<>>}
                                   \/ inbox[t] # <<>> /\ b = Tail(inbox[t])
  <2>1. inbox' = [inbox EXCEPT ![t] = b] \/ inbox' = inbox
    BY PageIs
  <2>2. \/ b \in {inbox[t], <<>>}
        \/ inbox[t] # <<>> /\ b = Tail(inbox[t])
    BY PageIs
  <2>3. inbox' = inbox => b = inbox[t]
    OBVIOUS
  <2> HIDE DEF b
  <2> QED BY <2>1, <2>2, <2>3, OnlyIs, PageIs
<1>4. Pending(b) \cap (IdsOf(next) \union IdsOf(next)) = {}
  OBVIOUS
<1> HIDE DEF b
<1>5. Only(jobs, jobs', t, next) /\ Only(snap, snap', t, next)
  BY <1>1, OnlyIs, PageIs
<1>6. Only(out, out', t, out[t] \o s)
  <2> DEFINE v == out[t] \o s
  <2>1. out' = [out EXCEPT ![t] = v] /\ DOMAIN out = Tabs
    BY <1>1, PageIs
  <2> HIDE DEF v
  <2>2. Only(out, out', t, v)
    BY <2>1, OnlyIs
  <2> QED BY <2>2 DEF v
<1>7. load' \in [Tabs -> Nat] /\ PageIn(next, next, td, Issued)
  BY PageIs DEF PageIn
<1>8. Posted(s) \subseteq IdsOf(next) \union {Legacy}
  BY <1>2
<1> QED BY <1>2, <1>3, <1>4, <1>5, <1>6, <1>7, <1>8, PageStep

LEMMA CardPartsAre ==
    /\ CardSet \subseteq CardParts /\ NoCard \in CardParts
    /\ \A a \in Addrs : Card(NoId, a, "none", NoColor) \in CardParts
  BY DEF CardParts, NoCard, Card

LEMMA GotListKeeps ==
    ASSUME IInv, NEW t \in Tabs, GotList(t)
    PROVE  IInv'
<1> DEFINE m == Head(inbox[t])
<1>1. /\ inbox[t] # <<>> /\ inbox' = [inbox EXCEPT ![t] = Tail(inbox[t])]
      /\ m.req.op \in {"get", "reget"} /\ m.res = "ok"
      /\ cards' = cards /\ tombs' = tombs /\ tasks' = tasks /\ copy' = copy
      /\ gone' = gone /\ events' = events /\ asked' = asked /\ load' = load
  BY DEF GotList, Gets, server, past
<1>2. ListIn(m.got, Issued) /\ Pending(Tail(inbox[t])) \cap IdsOf(m.got) = {}
  BY <1>1, HeadIs DEF Says, Answers
<1>3. asked \subseteq asked' /\ asked' \subseteq Ids
  BY <1>1, PageIs
<1>4. \/ \E c \in LegacyCards : /\ Sends(t, Req(t, "post", c, "migrate"))
                                /\ UNCHANGED <<jobs, snap, told>>
      \/ Shows(t, m.got) /\ out' = out
  BY DEF GotList
<1>5. ASSUME NEW c \in LegacyCards, Sends(t, Req(t, "post", c, "migrate")),
             UNCHANGED <<jobs, snap, told>>
      PROVE  IInv'
  <2> DEFINE r == Req(t, "post", c, "migrate")
  <2>1. c \in CardSet /\ c.id = Legacy /\ Legacy \in Issued
    BY LegacyList, IssuedIds DEF ListIn, IdsOf
  <2>2. r \in RequestSet /\ r.op = "post" /\ r.card = c
    <3>1. "post" \in Ops /\ "migrate" \in {"plain", "migrate"} /\ c \in CardParts /\ Shaped
      BY <2>1, CardPartsAre, TabParts DEF Ops
    <3> QED BY <3>1, ReqTyped
  <2> HIDE DEF r
  <2>3. Valid(r, Issued, asked')
    BY <2>1, <2>2 DEF Valid
  <2>4. out' = [out EXCEPT ![t] = out[t] \o <<r>>]
    <3>1. Append(out[t], r) = out[t] \o <<r>>
      BY <2>2, Appends, PageIs
    <3>2. out' = [out EXCEPT ![t] = Append(out[t], r)]
      BY <1>5 DEF Sends, r
    <3> QED BY <3>1, <3>2
  <2>5. jobs' = jobs /\ snap' = snap /\ told' = told
    BY <1>5
  <2> HIDE DEF m
  <2> QED BY <1>1, <1>3, <2>1, <2>2, <2>3, <2>4, <2>5, SendStep
<1>6. CASE Shows(t, m.got) /\ out' = out
  <2> HIDE DEF m
  <2> QED BY <1>1, <1>2, <1>6, ShowStep
<1> QED BY <1>4, <1>5, <1>6

LEMMA RegetIs ==
    ASSUME IInv, NEW t \in Tabs, NEW op \in {"get", "reget", "sync"}
    PROVE  LET r == Req(t, op, NoCard, "plain") IN
           /\ r \in RequestSet /\ r.op = op /\ \A ask : Valid(r, Issued, ask)
           /\ Append(out[t], r) = out[t] \o <<r>>
<1> DEFINE r == Req(t, op, NoCard, "plain")
<1>1. op \in Ops /\ NoCard \in CardParts /\ "plain" \in {"plain", "migrate"} /\ Shaped
  BY CardPartsAre, TabParts DEF Ops
<1>2. r \in RequestSet /\ r.op = op
  BY <1>1, ReqTyped
<1> HIDE DEF r
<1>3. Append(out[t], r) = out[t] \o <<r>>
  BY <1>2, Appends, PageIs
<1> QED BY <1>2, <1>3 DEF Valid, r

LEMMA GotMigratedKeeps ==
    ASSUME IInv, NEW t \in Tabs, GotMigrated(t)
    PROVE  IInv'
<1>1. /\ inbox[t] # <<>> /\ inbox' = [inbox EXCEPT ![t] = Tail(inbox[t])]
      /\ cards' = cards /\ tombs' = tombs /\ tasks' = tasks /\ copy' = copy
      /\ gone' = gone /\ events' = events /\ asked' = asked /\ load' = load
      /\ \/ Sends(t, Req(t, "reget", NoCard, "plain")) /\ UNCHANGED <<jobs, snap, told>>
         \/ Shows(t, {}) /\ out' = out
  BY DEF GotMigrated, Gets, server, past
<1>2. asked \subseteq asked' /\ asked' \subseteq Ids
  BY <1>1, PageIs
<1>3. CASE Sends(t, Req(t, "reget", NoCard, "plain")) /\ UNCHANGED <<jobs, snap, told>>
  <2> DEFINE r == Req(t, "reget", NoCard, "plain")
  <2>1. /\ r \in RequestSet /\ r.op # "post" /\ Valid(r, Issued, asked')
        /\ Append(out[t], r) = out[t] \o <<r>>
    BY RegetIs
  <2>2. out' = [out EXCEPT ![t] = out[t] \o <<r>>] /\ jobs' = jobs /\ snap' = snap /\ told' = told
    BY <1>3, <2>1 DEF Sends
  <2> HIDE DEF r
  <2> QED BY <1>1, <1>2, <2>1, <2>2, SendStep
<1>4. CASE Shows(t, {}) /\ out' = out
  <2>1. ListIn({}, Issued) /\ Pending(Tail(inbox[t])) \cap IdsOf({}) = {}
    BY EmptyList
  <2> QED BY <1>1, <1>4, <2>1, ShowStep
<1> QED BY <1>1, <1>3, <1>4

LEMMA GotDeployKeeps ==
    ASSUME IInv, NEW t \in Tabs, GotDeploy(t)
    PROVE  IInv'
<1> DEFINE m == Head(inbox[t])
           new == CHOOSE i \in m.got : TRUE
           old == m.req.card.id
           c == Card(new, m.req.card.addr, "none", m.req.card.color)
           rest == Without(jobs[t], old)
           next == rest \union {c}
           td == told[t] \cap IdsOf(rest)
<1>1. /\ inbox[t] # <<>> /\ inbox' = [inbox EXCEPT ![t] = Tail(inbox[t])]
      /\ m.req.op = "deploy" /\ m.res = "ok"
      /\ cards' = cards /\ tombs' = tombs /\ tasks' = tasks /\ copy' = copy
      /\ gone' = gone /\ events' = events /\ asked' = asked /\ load' = load
  BY DEF GotDeploy, Gets, server, past
<1>2. /\ Commit(t, next, {new}) /\ told' = [told EXCEPT ![t] = td]
  BY DEF GotDeploy
<1>3. /\ Valid(m.req, Issued, asked) /\ Answers(m, Issued) /\ Says(m, "deploy")
      /\ m.got \subseteq Pending(inbox[t]) /\ Pending(Tail(inbox[t])) \cap m.got = {}
      /\ Pending(Tail(inbox[t])) \subseteq Pending(inbox[t])
  BY <1>1, HeadIs DEF Says
<1>4. /\ new \in m.got /\ new \in TaskIds \cap Issued
      /\ m.req.card.addr \in Addrs /\ m.req.card.color \in AnyColor
      /\ old \in asked \union {NoId}
  BY <1>1, <1>3 DEF Answers, Valid
<1> HIDE DEF m, new, old
<1>5. c \in CardSet /\ c.id = new
  <2>1. new \in Ids /\ "none" \in Statuses
    BY <1>4, NoIdIsNone DEF Statuses
  <2> QED BY <1>4, <2>1, CardTyped
<1> HIDE DEF c
<1>6. ListIn(rest, Issued) /\ IdsOf(rest) = IdsOf(jobs[t]) \ {old}
  BY WithoutList, PageIs
<1> HIDE DEF rest
<1>7. new \in Pending(inbox[t]) /\ new \notin IdsOf(jobs[t])
  BY <1>3, <1>4, PageIs
<1>8. ListIn(next, Issued) /\ IdsOf(next) = IdsOf(rest) \union {new}
  BY <1>4, <1>5, <1>6, <1>7, AddList
<1> HIDE DEF next
<1>9. td \subseteq IdsOf(next) /\ Only(told, told', t, td)
  <2>1. td \subseteq IdsOf(next)
    BY <1>8
  <2> HIDE DEF td
  <2> QED BY <1>2, <2>1, OnlyIs, PageIs
<1> HIDE DEF td
<1>10. IdsOf(jobs[t]) \ IdsOf(next) \subseteq asked'
  BY <1>1, <1>4, <1>6, <1>8, PageIs, IssuedIds, NoIdIsNone
<1>11. Pending(inbox'[t]) \cap IdsOf(next) = {}
  <2>1. inbox'[t] = Tail(inbox[t])
    BY <1>1, PageIs
  <2> QED BY ZenonT(40), <1>3, <1>4, <1>6, <1>8, <2>1, PageIs
<1>12. asked \subseteq asked' /\ asked' \subseteq Ids
  BY <1>1, PageIs
<1> QED BY <1>1, <1>2, <1>8, <1>9, <1>10, <1>11, <1>12, CommitStep

LEMMA GotRestartKeeps ==
    ASSUME IInv, NEW t \in Tabs, GotRestart(t)
    PROVE  IInv'
<1> DEFINE m == Head(inbox[t])
           new == CHOOSE i \in m.got : TRUE
           old == m.req.card.id
           c == [m.req.card EXCEPT !.id = new, !.status = "none"]
           rest == Rest(jobs[t], old, new)
           next == rest \union {c}
           td == told[t] \cap IdsOf(rest)
<1>1. /\ inbox[t] # <<>> /\ inbox' = [inbox EXCEPT ![t] = Tail(inbox[t])]
      /\ m.req.op = "restart" /\ m.res = "ok"
      /\ cards' = cards /\ tombs' = tombs /\ tasks' = tasks /\ copy' = copy
      /\ gone' = gone /\ events' = events /\ asked' = asked /\ load' = load
  BY DEF GotRestart, Gets, server, past
<1>2. /\ Commit(t, next, {new}) /\ told' = [told EXCEPT ![t] = td]
  BY DEF GotRestart
<1>3. /\ Valid(m.req, Issued, asked) /\ Answers(m, Issued)
      /\ Pending(inbox[t]) \cap m.got = {}
      /\ Pending(Tail(inbox[t])) \subseteq Pending(inbox[t])
  BY <1>1, HeadIs DEF Says
<1>4. /\ new \in m.got /\ new \in TaskIds \cap Issued
      /\ m.req.card \in CardSet /\ old \in asked
  BY <1>1, <1>3 DEF Answers, Valid
<1> HIDE DEF new
<1>5. c \in CardSet /\ c.id = new
  <2>1. new \in Ids /\ "none" \in Statuses
    BY <1>4, NoIdIsNone DEF Statuses
  <2> DEFINE x == m.req.card
  <2>2. x \in CardSet
    BY <1>4
  <2> HIDE DEF x
  <2>3. /\ [x EXCEPT !.id = new, !.status = "none"] \in CardSet
        /\ [x EXCEPT !.id = new, !.status = "none"].id = new
    BY <2>1, <2>2 DEF CardSet
  <2> QED BY <2>3 DEF x
<1> HIDE DEF c, m, old
<1>6. ListIn(rest, Issued) /\ IdsOf(rest) = IdsOf(jobs[t]) \ {old, new}
  <2>1. rest \subseteq jobs[t] /\ IdsOf(rest) = IdsOf(jobs[t]) \ {old, new}
    BY DEF Rest, IdsOf
  <2> HIDE DEF rest
  <2> QED BY <2>1, SubList, PageIs
<1> HIDE DEF rest
<1>7. ListIn(next, Issued) /\ IdsOf(next) = IdsOf(rest) \union {new}
  <2>1. new \notin IdsOf(rest) /\ new \in Issued
    BY <1>4, <1>6
  <2> QED BY <1>5, <1>6, <2>1, AddList
<1> HIDE DEF next
<1>8. td \subseteq IdsOf(next) /\ Only(told, told', t, td)
  <2>1. td \subseteq IdsOf(next)
    BY <1>7
  <2> HIDE DEF td
  <2> QED BY <1>2, <2>1, OnlyIs, PageIs
<1> HIDE DEF td
<1>9. IdsOf(jobs[t]) \ IdsOf(next) \subseteq asked'
  BY <1>1, <1>4, <1>6, <1>7
<1>10. Pending(inbox'[t]) \cap IdsOf(next) = {}
  <2>1. inbox'[t] = Tail(inbox[t])
    BY <1>1, PageIs
  <2> QED BY <1>3, <1>4, <1>6, <1>7, <2>1, PageIs
<1>11. asked \subseteq asked' /\ asked' \subseteq Ids
  BY <1>1, PageIs
<1> QED BY <1>1, <1>2, <1>7, <1>8, <1>9, <1>10, <1>11, CommitStep

LEMMA GotSyncKeeps ==
    ASSUME IInv, NEW t \in Tabs, GotSync(t)
    PROVE  IInv'
<1> DEFINE r == Req(t, "get", NoCard, "plain")
<1>1. /\ inbox[t] # <<>> /\ inbox' = [inbox EXCEPT ![t] = Tail(inbox[t])]
      /\ cards' = cards /\ tombs' = tombs /\ tasks' = tasks /\ copy' = copy
      /\ gone' = gone /\ events' = events /\ asked' = asked /\ load' = load
      /\ jobs' = jobs /\ snap' = snap /\ told' = told
  BY DEF GotSync, Gets, server, tab, past
<1>2. asked \subseteq asked' /\ asked' \subseteq Ids
  BY <1>1, PageIs
<1>3. r \in RequestSet /\ r.op # "post" /\ Valid(r, Issued, asked')
  BY RegetIs
<1>4. \E s \in {<<>>, <<r>>} : out' = [out EXCEPT ![t] = out[t] \o s]
  BY DEF GotSync
<1> HIDE DEF r
<1>5. \E s \in {<<>>, <<r>>} : Only(out, out', t, out[t] \o s)
  <2>1. PICK s \in {<<>>, <<r>>} : out' = [out EXCEPT ![t] = out[t] \o s]
    BY <1>4
  <2> DEFINE v == out[t] \o s
  <2>2. out' = [out EXCEPT ![t] = v] /\ DOMAIN out = Tabs
    BY <2>1, PageIs
  <2> HIDE DEF v
  <2>3. Only(out, out', t, v)
    BY <2>2, OnlyIs
  <2> QED BY <2>3 DEF v
<1> QED BY <1>1, <1>2, <1>3, <1>5, SendStep

LEMMA GotFailureKeeps ==
    ASSUME IInv, NEW t \in Tabs, GotFailure(t)
    PROVE  IInv'
<1>1. /\ inbox[t] # <<>> /\ inbox' = [inbox EXCEPT ![t] = Tail(inbox[t])]
      /\ cards' = cards /\ tombs' = tombs /\ tasks' = tasks /\ copy' = copy
      /\ gone' = gone /\ events' = events /\ asked' = asked /\ load' = load
      /\ out' = out
      /\ Shows(t, snap[t]) \/ Shows(t, LegacyCards) \/ UNCHANGED <<jobs, snap, told>>
  BY DEF GotFailure, Gets, server, past
<1>2. Pending(Tail(inbox[t])) \subseteq Pending(inbox[t])
  BY <1>1, HeadIs
<1>3. CASE Shows(t, snap[t])
  <2>1. ListIn(snap[t], Issued) /\ Pending(Tail(inbox[t])) \cap IdsOf(snap[t]) = {}
    BY <1>2, PageIs
  <2> QED BY <1>1, <1>3, <2>1, ShowStep
<1>4. CASE Shows(t, LegacyCards)
  <2>1. ListIn(LegacyCards, Issued) /\ Pending(Tail(inbox[t])) \cap IdsOf(LegacyCards) = {}
    BY <1>2, LegacyList, IssuedIds, NoIdIsNone, PageIs
  <2> QED BY <1>1, <1>4, <2>1, ShowStep
<1>5. CASE UNCHANGED <<jobs, snap, told>>
  <2> DEFINE r == Req(t, "get", NoCard, "plain")
  <2>1. r \in RequestSet /\ r.op # "post" /\ Valid(r, Issued, asked')
    BY RegetIs
  <2>2. asked \subseteq asked' /\ asked' \subseteq Ids
    BY <1>1, PageIs
  <2>3. jobs' = jobs /\ snap' = snap /\ told' = told
    BY <1>5
  <2> HIDE DEF r
  <2> QED BY <1>1, <2>1, <2>2, <2>3, SendStep
<1> QED BY <1>1, <1>3, <1>4, <1>5

\* A user's button that sends a request.
LEMMA ButtonKeeps ==
    ASSUME IInv, NEW t \in Tabs,
           \/ \E a \in Addrs : Add(t, a)
           \/ \E c \in jobs[t] : Retry(t, c) \/ Restart(t, c)
           \/ Sync(t)
    PROVE  IInv'
<1>1. ASSUME NEW op \in {"deploy", "restart", "sync"}, NEW c \in CardParts,
             Sends(t, Req(t, op, c, "plain")), Valid(Req(t, op, c, "plain"), Issued, asked'),
             asked' \subseteq Ids, asked \subseteq asked', Counted,
             UNCHANGED <<server, tab, inbox, gone>>
      PROVE  IInv'
  <2> DEFINE r == Req(t, op, c, "plain")
  <2>1. r \in RequestSet /\ r.op # "post" /\ Valid(r, Issued, asked')
    <3>1. op \in Ops /\ "plain" \in {"plain", "migrate"} /\ Shaped
      BY TabParts DEF Ops
    <3>2. r \in RequestSet /\ r.op = op
      BY <3>1, ReqTyped
    <3> QED BY <1>1, <3>2
  <2>2. out' = [out EXCEPT ![t] = Append(out[t], r)]
    BY <1>1 DEF Sends
  <2> HIDE DEF r
  <2>3. out' = [out EXCEPT ![t] = out[t] \o <<r>>]
    <3>1. Append(out[t], r) = out[t] \o <<r>>
      BY <2>1, Appends, PageIs
    <3> QED BY <2>2, <3>1
  <2>4. /\ cards' = cards /\ tombs' = tombs /\ tasks' = tasks /\ copy' = copy
        /\ gone' = gone /\ load' = load /\ inbox' = inbox
        /\ jobs' = jobs /\ snap' = snap /\ told' = told
    BY <1>1 DEF server, tab
  <2> QED BY <1>1, <2>1, <2>3, <2>4, SendStep
<1>2. ASSUME NEW c \in jobs[t]
      PROVE  c \in CardSet /\ c \in CardParts /\ c.id \in Ids
             /\ c.addr \in Addrs /\ c.color \in AnyColor
  BY PageIs, CardPartsAre, CardIs DEF ListIn
<1>3. asked \subseteq Ids
  BY PageIs
<1>4. \A op \in Ops, c \in CardParts : /\ Req(t, op, c, "plain").op = op
                                       /\ Req(t, op, c, "plain").card = c
  BY DEF Req
<1>5. ASSUME NEW a \in Addrs, Add(t, a)
      PROVE  IInv'
  <2> DEFINE c == Card(NoId, a, "none", NoColor)
  <2>1. /\ c \in CardParts /\ c.addr = a /\ c.color = NoColor /\ c.id = NoId
        /\ NoColor \in AnyColor /\ "deploy" \in Ops
    BY CardPartsAre, NoIdIsNone DEF Card, Ops
  <2>2. Sends(t, Req(t, "deploy", c, "plain")) /\ Counted /\ asked' = asked
        /\ UNCHANGED <<server, tab, inbox, gone>>
    BY <1>5 DEF Add, Acts
  <2> HIDE DEF c
  <2>3. Valid(Req(t, "deploy", c, "plain"), Issued, asked')
    BY <1>4, <2>1 DEF Valid
  <2> QED BY <1>1, <1>3, <2>1, <2>2, <2>3
<1>6. ASSUME NEW c \in jobs[t], Retry(t, c)
      PROVE  IInv'
  <2>1. /\ Sends(t, Req(t, "deploy", c, "plain")) /\ Counted /\ asked' = asked \union {c.id}
        /\ UNCHANGED <<server, tab, inbox, gone>>
    BY <1>6 DEF Retry, Acts
  <2>2. Valid(Req(t, "deploy", c, "plain"), Issued, asked')
    <3> DEFINE r == Req(t, "deploy", c, "plain")
    <3>1. r.op = "deploy" /\ r.card = c
      BY DEF Req
    <3> HIDE DEF r
    <3>2. Valid(r, Issued, asked')
      BY <1>2, <2>1, <3>1 DEF Valid
    <3> QED BY <3>2 DEF r
  <2> QED BY <1>1, <1>2, <1>3, <2>1, <2>2
<1>7. ASSUME NEW c \in jobs[t], Restart(t, c)
      PROVE  IInv'
  <2>1. /\ Sends(t, Req(t, "restart", c, "plain")) /\ Counted /\ asked' = asked \union {c.id}
        /\ UNCHANGED <<server, tab, inbox, gone>>
    BY <1>7 DEF Restart, Acts
  <2>2. Valid(Req(t, "restart", c, "plain"), Issued, asked')
    <3> DEFINE r == Req(t, "restart", c, "plain")
    <3>1. r.op = "restart" /\ r.card = c
      BY DEF Req
    <3> HIDE DEF r
    <3>2. Valid(r, Issued, asked')
      BY <1>2, <2>1, <3>1 DEF Valid
    <3> QED BY <3>2 DEF r
  <2> QED BY <1>1, <1>2, <1>3, <2>1, <2>2
<1>8. CASE Sync(t)
  <2>1. /\ Sends(t, Req(t, "sync", NoCard, "plain")) /\ Counted /\ asked' = asked
        /\ UNCHANGED <<server, tab, inbox, gone>>
    BY <1>8 DEF Sync, Acts
  <2>2. NoCard \in CardParts /\ Valid(Req(t, "sync", NoCard, "plain"), Issued, asked')
    BY CardPartsAre, RegetIs
  <2> QED BY <1>1, <1>3, <2>1, <2>2
<1> QED BY <1>5, <1>6, <1>7, <1>8

\* A change of the list on the page: of a card, or a card less.
LEMMA ChangeKeeps ==
    ASSUME IInv, NEW t \in Tabs, NEW c \in jobs[t],
           \/ Delete(t, c) \/ Frame(t, c)
           \/ \E col \in Colors \union {NoColor} : Color(t, c, col)
    PROVE  IInv'
<1>1. c \in CardSet /\ c.id \in IdsOf(jobs[t]) /\ c.id \in Issued /\ c.id \in Ids
  <2>1. jobs[t] \subseteq CardSet
    BY PageIs DEF ListIn
  <2>2. c.id \in IdsOf(jobs[t])
    BY DEF IdsOf
  <2> QED BY <2>1, <2>2, PageIs, IssuedIds
<1>2. asked \subseteq Ids
  BY PageIs
<1>3. ASSUME NEW next, ListIn(next, Issued), NEW touched, Commit(t, next, touched),
             NEW td, told' = [told EXCEPT ![t] = td], td \subseteq IdsOf(next),
             IdsOf(next) \subseteq IdsOf(jobs[t]),
             IdsOf(jobs[t]) \ IdsOf(next) \subseteq asked',
             asked' \subseteq Ids, asked \subseteq asked', Counted \/ events' = events,
             UNCHANGED <<server, load, inbox, gone>>
      PROVE  IInv'
  <2>1. Only(told, told', t, td)
    BY <1>3, OnlyIs, PageIs
  <2>2. Pending(inbox'[t]) \cap IdsOf(next) = {}
    BY <1>3, PageIs
  <2>3. /\ cards' = cards /\ tombs' = tombs /\ tasks' = tasks /\ copy' = copy
        /\ gone' = gone /\ load' = load /\ inbox' = inbox
    BY <1>3 DEF server
  <2> QED BY <1>3, <2>1, <2>2, <2>3, CommitStep
<1>4. ASSUME NEW d \in CardSet, d.id = c.id, NEW td, told' = [told EXCEPT ![t] = td],
             td \subseteq IdsOf(jobs[t]), Commit(t, With(jobs[t], d), {c.id}),
             asked' = asked, Counted \/ events' = events,
             UNCHANGED <<server, load, inbox, gone>>
      PROVE  IInv'
  <2> DEFINE next == With(jobs[t], d)
  <2>1. ListIn(next, Issued) /\ IdsOf(next) = IdsOf(jobs[t]) \union {c.id}
    BY <1>1, <1>4, WithList, PageIs
  <2>2. IdsOf(next) = IdsOf(jobs[t])
    BY <1>1, <2>1
  <2>3. Commit(t, next, {c.id})
    BY <1>4
  <2> HIDE DEF next
  <2> QED BY <1>2, <1>3, <1>4, <2>1, <2>2, <2>3
<1>5. CASE Delete(t, c)
  <2> DEFINE next == Without(jobs[t], c.id)
             td == told[t] \ {c.id}
  <2>1. /\ Commit(t, next, {}) /\ told' = [told EXCEPT ![t] = td]
        /\ asked' = asked \union {c.id} /\ Counted
        /\ UNCHANGED <<server, load, inbox, gone>>
    BY <1>5 DEF Delete, Acts
  <2>2. ListIn(next, Issued) /\ IdsOf(next) = IdsOf(jobs[t]) \ {c.id}
    BY WithoutList, PageIs
  <2>3. td \subseteq IdsOf(next)
    BY <2>2, PageIs
  <2> HIDE DEF next, td
  <2>4. /\ IdsOf(next) \subseteq IdsOf(jobs[t]) /\ IdsOf(jobs[t]) \ IdsOf(next) \subseteq asked'
        /\ asked' \subseteq Ids /\ asked \subseteq asked'
    BY <1>1, <1>2, <2>1, <2>2
  <2> QED BY <1>3, <2>1, <2>2, <2>3, <2>4
<1>6. CASE Frame(t, c)
  <2> DEFINE d == [c EXCEPT !.status = "done"]
             td == told[t] \union {c.id}
  <2>1. /\ Commit(t, With(jobs[t], d), {c.id}) /\ told' = [told EXCEPT ![t] = td]
        /\ asked' = asked /\ events' = events /\ UNCHANGED <<server, load, inbox, gone>>
    BY <1>6 DEF Frame, past
  <2>2. d \in CardSet /\ d.id = c.id
    <3>1. "done" \in Statuses
      BY DEF Statuses
    <3> QED BY <1>1, <3>1, CardIs
  <2>3. td \subseteq IdsOf(jobs[t])
    BY <1>1, PageIs
  <2> HIDE DEF d, td
  <2> QED BY <1>4, <2>1, <2>2, <2>3
<1>7. ASSUME NEW col \in Colors \union {NoColor}, Color(t, c, col)
      PROVE  IInv'
  <2> DEFINE d == [c EXCEPT !.color = col]
             next == With(jobs[t], d)
  <2>1. /\ Commit(t, next, {c.id}) /\ told' = told
        /\ asked' = asked /\ Counted /\ UNCHANGED <<server, load, inbox, gone>>
    BY <1>7 DEF Color, Acts
  <2>2. d \in CardSet /\ d.id = c.id
    BY <1>1, CardIs DEF AnyColor
  <2> HIDE DEF d
  <2>3. ListIn(next, Issued) /\ IdsOf(next) = IdsOf(jobs[t])
    <3>1. ListIn(next, Issued) /\ IdsOf(next) = IdsOf(jobs[t]) \union {c.id}
      BY <1>1, <2>2, WithList, PageIs
    <3> QED BY <1>1, <3>1
  <2> HIDE DEF next
  <2>4. Only(told, told', t, told[t]) /\ told[t] \subseteq IdsOf(next)
    BY <2>1, <2>3, OnlyIs, PageIs
  <2>5. Pending(inbox'[t]) \cap IdsOf(next) = {} /\ IdsOf(jobs[t]) \ IdsOf(next) \subseteq asked'
    BY <2>1, <2>3, PageIs
  <2>6. /\ cards' = cards /\ tombs' = tombs /\ tasks' = tasks /\ copy' = copy
        /\ gone' = gone /\ load' = load /\ inbox' = inbox
        /\ asked \subseteq asked' /\ asked' \subseteq Ids
    BY <1>2, <2>1 DEF server
  <2> QED BY <2>1, <2>3, <2>4, <2>5, <2>6, CommitStep
<1> QED BY <1>5, <1>6, <1>7

LEMMA ReloadKeeps ==
    ASSUME IInv, NEW t \in Tabs, Reload(t)
    PROVE  IInv'
<1> DEFINE r == [op |-> "get", card |-> NoCard, why |-> "plain", load |-> load[t] + 1]
           s == <<r>>
           js == {}
           b == <<>>
<1>1. /\ cards' = cards /\ tombs' = tombs /\ tasks' = tasks /\ copy' = copy
      /\ gone' = gone /\ asked' = asked /\ Counted
      /\ load' = [load EXCEPT ![t] = load[t] + 1]
      /\ jobs' = [jobs EXCEPT ![t] = js] /\ snap' = [snap EXCEPT ![t] = js]
      /\ told' = [told EXCEPT ![t] = js] /\ inbox' = [inbox EXCEPT ![t] = b]
      /\ out' = [out EXCEPT ![t] = Append(out[t], r)]
  BY DEF Reload, server
<1>2. load \in [Tabs -> Nat] /\ load[t] \in Nat /\ load[t] + 1 \in Nat
  <2>1. load \in [Tabs -> Nat]
    BY PageIs
  <2>2. load[t] \in Nat
    BY <2>1
  <2> HIDE DEF r
  <2> QED BY <2>1, <2>2
<1>3. load' \in [Tabs -> Nat]
  BY <1>1, <1>2
<1>4. r \in RequestSet /\ r.op = "get"
  <2> DEFINE n == load[t] + 1
  <2>1. n \in Nat /\ NoCard \in CardParts /\ "get" \in Ops
    BY <1>2, CardPartsAre DEF Ops
  <2> HIDE DEF n
  <2>2. [op |-> "get", card |-> NoCard, why |-> "plain", load |-> n] \in RequestSet
        /\ [op |-> "get", card |-> NoCard, why |-> "plain", load |-> n].op = "get"
    BY <2>1 DEF RequestSet
  <2> QED BY <2>2 DEF n
<1> HIDE DEF r
<1>5. /\ s \in Seq(RequestSet) /\ Posted(s) = {}
      /\ \A k \in 1 .. Len(s) : Valid(s[k], Issued, asked')
  <2>1. Valid(r, Issued, asked')
    BY <1>4 DEF Valid
  <2> QED BY <1>4, <2>1, OneRequest
<1>6. Append(out[t], r) = out[t] \o s
  BY <1>4, Appends, PageIs
<1> HIDE DEF s, b, js
<1>7. Only(out, out', t, out[t] \o s)
  <2> DEFINE v == out[t] \o s
  <2>1. out' = [out EXCEPT ![t] = v] /\ DOMAIN out = Tabs
    BY <1>1, <1>6, PageIs
  <2> HIDE DEF v
  <2>2. Only(out, out', t, v)
    BY <2>1, OnlyIs
  <2> QED BY <2>2 DEF v
<1>8. /\ Only(jobs, jobs', t, js) /\ Only(snap, snap', t, js) /\ Only(told, told', t, js)
      /\ Only(inbox, inbox', t, b)
  BY <1>1, OnlyIs, PageIs
<1>9. b \in {inbox[t], <<>>} /\ Pending(b) \cap (IdsOf(js) \union IdsOf(js)) = {}
      /\ PageIn(js, js, js, Issued) /\ Posted(s) \subseteq IdsOf(js) \union {Legacy}
  BY <1>5, EmptyList DEF b, js, PageIn
<1>10. asked \subseteq asked' /\ asked' \subseteq Ids
  BY <1>1, PageIs
<1> QED BY <1>1, <1>3, <1>5, <1>7, <1>8, <1>9, <1>10, PageStep

-----------------------------------------------------------------------------
(* The invariant, and what follows from it                                  *)

LEMMA InitInv == ASSUME Init PROVE IInv
<1>1. PICK a \in Addrs, s \in {"waiting", "over"} :
         /\ tasks = [i \in TaskIds |-> IF i = 1 THEN Task(s, a, NoId)
                                             ELSE Task("none", NoId, NoId)]
         /\ cards = IF s = "over" THEN {} ELSE {Card(1, a, "none", NoColor)}
         /\ tombs = IF s = "over" THEN {1} ELSE {}
  BY DEF Init
<1>2. 1 \in TaskIds /\ 1 \in Ids
  BY BoundAssumption DEF TaskIds, Ids
<1>3. /\ Task(s, a, NoId) \in TaskSet /\ Task("none", NoId, NoId) \in TaskSet
      /\ Task(s, a, NoId).state = s /\ Task(s, a, NoId).addr = a
      /\ Task(s, a, NoId).restarted_as = NoId /\ s # "none"
      /\ Task("none", NoId, NoId).state = "none"
      /\ Task("none", NoId, NoId).restarted_as = NoId
  BY DEF Task, TaskSet
<1>4. /\ tasks \in [TaskIds -> TaskSet] /\ tasks[1] = Task(s, a, NoId)
      /\ \A i \in TaskIds \ {1} : tasks[i] = Task("none", NoId, NoId)
  BY <1>1, <1>2, <1>3
<1>5. Issued = {1, Legacy} \union Addrs
  BY <1>2, <1>3, <1>4 DEF Issued
<1>6. Replacing \subseteq {NoId}
  BY <1>3, <1>4 DEF Replacing
<1>7. ListIn(cards, Issued) /\ ListIn(copy.cards, Issued)
  <2> DEFINE c == Card(1, a, "none", NoColor)
  <2>1. c \in CardSet /\ c.id = 1
    <3>1. "none" \in Statuses /\ NoColor \in AnyColor
      BY NoIdIsNone DEF Statuses
    <3> QED BY <1>2, <3>1, CardTyped
  <2>2. cards = {} \/ cards = {} \union {c}
    BY <1>1
  <2> HIDE DEF c
  <2>3. ListIn({} \union {c}, Issued)
    BY <1>5, <2>1, EmptyList, AddList
  <2>4. copy.cards = {}
    BY DEF Init, NoCopy
  <2> QED BY <2>2, <2>3, <2>4, EmptyList
<1>8. Server
  <2>1. tombs \subseteq Ids /\ asked \subseteq Ids /\ gone \subseteq tombs
    BY <1>1, <1>2 DEF Init
  <2>2. \A i \in TaskIds : tasks[i].state # "none" => tasks[i].addr \in Addrs
    BY <1>3, <1>4
  <2>3. events \in 0 .. MaxEvents
    <3>1. MaxEvents \in Nat /\ events = 0
      BY BoundAssumption DEF Init
    <3> QED BY <3>1
  <2> QED BY <1>4, <1>6, <1>7, <2>1, <2>2, <2>3 DEF Server
<1>9. Shaped
  BY DEF Init, Shaped
<1>10. ASSUME NEW t \in Tabs
       PROVE  TabIn(jobs[t], snap[t], told[t], out[t], inbox[t], Issued, asked, Replacing)
  <2> DEFINE r == [op |-> "get", card |-> NoCard, why |-> "plain", load |-> 0]
             o == <<r>>
             b == <<>>
             js == {}
  <2>1. jobs[t] = js /\ snap[t] = js /\ told[t] = js /\ out[t] = o /\ inbox[t] = b
    BY DEF Init
  <2>2. r \in RequestSet /\ r.op = "get"
    BY CardPartsAre DEF RequestSet, Ops
  <2> HIDE DEF r
  <2>3. Valid(r, Issued, asked)
    BY <2>2 DEF Valid
  <2>4. /\ o \in Seq(RequestSet) /\ Posted(o) = {}
        /\ \A k \in 1 .. Len(o) : Valid(o[k], Issued, asked)
    BY <2>2, <2>3, OneRequest
  <2>5. b \in Seq(MessageSet) /\ \A k \in 1 .. Len(b) : FALSE
    OBVIOUS
  <2>6. WireIn(o, b, Issued, asked) /\ Ordered(b) /\ Pending(b) = {}
    BY <2>4, <2>5 DEF WireIn, Ordered, Pending
  <2>7. PageIn(js, js, js, Issued)
    BY EmptyList DEF PageIn
  <2> HIDE DEF o, b, js
  <2> QED BY <2>1, <2>6, <2>7 DEF TabIn, Clear
<1> QED BY <1>8, <1>9, <1>10 DEF IInv

LEMMA NextInv == ASSUME IInv, [Next]_vars PROVE IInv'
<1>1. ASSUME NEW t \in Tabs, NEW k \in Due(t), Gateway(t, k)
      PROVE  IInv'
  <2>1. k \in 1 .. Len(out[t])
    BY DueIs
  <2> QED BY <1>1, <2>1, GetKeeps, PostKeeps, DeleteKeeps, DeployKeeps, RestartKeeps,
             SyncKeeps, FailKeeps DEF Gateway
<1>2. CASE Deploys
  BY <1>2, DeploysKeep
<1>3. ASSUME NEW t \in Tabs, Replies(t)
      PROVE  IInv'
  BY <1>3, GotListKeeps, GotMigratedKeeps, GotDeployKeeps, GotRestartKeeps, GotSyncKeeps,
     GotFailureKeeps DEF Replies
<1>4. ASSUME NEW t \in Tabs, User(t)
      PROVE  IInv'
  <2>1. CASE \/ \E a \in Addrs : Add(t, a)
             \/ \E c \in jobs[t] : Retry(t, c) \/ Restart(t, c)
             \/ Sync(t)
    BY <2>1, ButtonKeeps
  <2>2. ASSUME NEW c \in jobs[t], \/ Delete(t, c) \/ Frame(t, c)
                                  \/ \E col \in Colors \union {NoColor} : Color(t, c, col)
        PROVE  IInv'
    BY <2>2, ChangeKeeps
  <2>3. CASE Reload(t)
    BY <2>3, ReloadKeeps
  <2> QED BY <1>4, <2>1, <2>2, <2>3 DEF User
<1>5. CASE UNCHANGED vars
  <2>1. Server' /\ Issued' = Issued /\ Replacing' = Replacing
    BY <1>5, FileStep, SameTasks DEF vars, server, past, IInv, Server
  <2>2. UNCHANGED <<jobs, snap, told, load, out, inbox>> /\ asked' = asked
    BY <1>5 DEF vars, tab, past
  <2> QED BY <2>1, <2>2, NoTab
<1> QED BY <1>1, <1>2, <1>3, <1>4, <1>5 DEF Next

LEMMA Inductive == Spec => []IInv
<1>1. Init => IInv
  BY InitInv
<1>2. IInv /\ [Next]_vars => IInv'
  BY NextInv
<1> QED BY <1>1, <1>2, PTL DEF Spec

\* The file and every page have one card for a task: with any number of tabs,
\* restarts of one deploy from several of them, requests that overtake each
\* other, and lists that come while the page changes (upsert_server_job,
\* "filter both ids" of restartWaitingJob).
THEOREM TypeCorrect == Spec => []TypeOK
<1>1. IInv => TypeOK
  <2> SUFFICES ASSUME IInv PROVE TypeOK
    OBVIOUS
  <2>1. Cardinality(IdsOf(cards)) = Cardinality(cards) /\ cards \subseteq CardSet
    BY OneEach DEF IInv, Server, ListIn
  <2>2. \A i \in TaskIds : tasks[i].state \in {"none", "waiting", "going", "over"}
    BY DEF IInv, Server, TaskSet
  <2>3. ASSUME NEW t \in Tabs
        PROVE  /\ jobs[t] \subseteq CardSet /\ told[t] \subseteq IdsOf(jobs[t])
               /\ Cardinality(IdsOf(jobs[t])) = Cardinality(jobs[t])
    BY PageIs, OneEach DEF ListIn
  <2> QED BY <2>1, <2>2, <2>3 DEF TypeOK, IInv, Server
<1> QED BY <1>1, Inductive, PTL

\* What the server has deleted it never lists again, whatever a stale tab, the
\* old cache, a starting worker or the writer of a verdict puts into the file:
\* its tombstone is there (delete_server_job, _jobs_for_response) until a sync
\* finds the node in the panel.
THEOREM DeletedStaysHiddenHolds == Spec => []DeletedStaysHidden
<1>1. IInv => DeletedStaysHidden
  BY DEF IInv, Server, DeletedStaysHidden, Listed, IdsOf
<1> QED BY <1>1, Inductive, PTL

LEMMA OnlyAskedStep ==
    ASSUME IInv, [Next]_vars, copy' = copy
    PROVE  IdsOf(cards) \ IdsOf(cards') \subseteq asked'
<1>1. \A c : IdsOf(cards) \subseteq IdsOf(With(cards, c))
  BY DEF With, Without, IdsOf
<1>2. CASE cards' = cards \/ \E c : cards' = With(cards, c)
  BY <1>1, <1>2
<1>3. ASSUME NEW t \in Tabs, NEW k \in Due(t), ServeDelete(t, k) \/ DeleteTorn(t, k)
      PROVE  IdsOf(cards) \ IdsOf(cards') \subseteq asked'
  <2> DEFINE i == out[t][k].card.id
  <2>1. i \in asked
    BY <1>3, DueIs, RequestIs DEF Valid, ServeDelete, DeleteTorn
  <2>2. (cards' = Without(cards, i) \/ cards' = cards) /\ asked' = asked
    BY <1>3 DEF ServeDelete, DeleteTorn
  <2> HIDE DEF i
  <2> QED BY <2>1, <2>2 DEF Without, IdsOf
<1>4. ASSUME NEW t \in Tabs, NEW k \in Due(t), ServeSync(t, k)
      PROVE  IdsOf(cards) \ IdsOf(cards') \subseteq asked'
  <2>1. PICK added, drop : /\ cards' = {c \in cards : c.id \notin IdsOf(added) \union drop}
                                          \union added
                           /\ asked' = asked \union drop
    BY <1>4 DEF ServeSync
  <2> QED BY <2>1 DEF IdsOf
<1>5. ASSUME NEW t \in Tabs, NEW k \in Due(t), Gateway(t, k)
      PROVE  IdsOf(cards) \ IdsOf(cards') \subseteq asked'
  <2>1. CASE ServeGet(t, k) \/ Fails(t, k)
    BY <1>2, <2>1 DEF ServeGet, Fails, server
  <2>2. CASE ServePost(t, k)
    BY <1>2, <2>2 DEF ServePost, Upserted
  <2>3. CASE ServeDeploy(t, k)
    BY <1>2, <2>3 DEF ServeDeploy, Upserted
  <2>4. CASE ServeRestart(t, k)
    BY <1>2, <2>4 DEF ServeRestart, Upserted
  <2> QED BY <1>3, <1>4, <1>5, <2>1, <2>2, <2>3, <2>4 DEF Gateway
<1>6. CASE Deploys
  <2>1. ASSUME NEW i \in TaskIds, EnsureCard(i) \/ Ends(i)
        PROVE  IdsOf(cards) \ IdsOf(cards') \subseteq asked'
    BY <1>2, <2>1 DEF EnsureCard, Ends, Upserted
  <2>2. ~VerdictWritten
    BY DEF VerdictWritten
  <2> QED BY <1>6, <2>1, <2>2 DEF Deploys
<1>7. ASSUME NEW t \in Tabs, Replies(t) \/ User(t)
      PROVE  cards' = cards
  BY <1>7 DEF Replies, User, GotList, GotMigrated, GotDeploy, GotRestart, GotSync, GotFailure,
              Add, Retry, Restart, Delete, Color, Sync, Frame, Reload, server
<1>8. CASE UNCHANGED vars
  BY <1>8, <1>2 DEF vars, server
<1> QED BY <1>2, <1>5, <1>6, <1>7, <1>8 DEF Next

\* A card leaves the file only if a user asked for it: the DELETE that a page
\* sends for what has left its list (syncDiff, by id) names no card that left
\* it because two lists of different age met.
THEOREM OnlyAskedDeletesHolds == Spec => OnlyAskedDeletes
<1>1. IInv /\ [Next]_vars => [copy' = copy => IdsOf(cards) \ IdsOf(cards') \subseteq asked']_vars
  BY OnlyAskedStep
<1> QED BY <1>1, Inductive, PTL DEF Spec, OnlyAskedDeletes

-----------------------------------------------------------------------------
(* What a page shows and what is stored                                     *)

\* A reply that is a list, or leads to one; after which the page is the list.
Lister(r) == r.op \in {"get", "reget"} \/ r.why = "migrate"
Alone(r) == Lister(r) \/ r.op = "sync"

\* The cards of a list with an id, what a request writes for it, and whether
\* a list is another after it; whether the list will be the page, at this id,
\* when all requests are served.
At(cs, i) == {c \in cs : c.id = i}
Writes(r, i) == ~Awaited(r) /\ r.card.id = i
Written(r) == IF r.op = "post" THEN {r.card} ELSE {}
After(cs, r, list) ==
    \A i \in Ids : At(list, i) = IF Writes(r, i) THEN Written(r) ELSE At(cs, i)
Reaches(list, o, page, i) ==
    \/ (\A k \in 1 .. Len(o) : ~Writes(o[k], i)) /\ At(list, i) = At(page, i)
    \/ \E k \in 1 .. Len(o) :
          /\ Writes(o[k], i) /\ At(page, i) = Written(o[k])
          /\ \A j \in 1 .. Len(o) : k < j /\ Writes(o[j], i) => At(page, i) = Written(o[j])

\* A page that waits for a list, or for the sync, waits for nothing else, and its
\* request is the last one; what the page sent before its reload comes first.
\* (n: the reloads so far.)
Queued(o, b, n) ==
    /\ \A k \in 1 .. Len(o) :
          /\ o[k].load <= n /\ (o[k].why = "migrate" => o[k].op = "post")
          /\ o[k].load # n =>
                \E j \in 1 .. Len(o) : k < j /\ o[j].op = "get" /\ o[j].load = n
          /\ o[k].load = n /\ Alone(o[k]) =>
                /\ b = <<>> /\ (Lister(o[k]) => k = Len(o))
                /\ o[k].why = "migrate" => Len(o) = 1
                /\ \A j \in 1 .. Len(o) : o[j].load = n /\ j # k => ~Awaited(o[j])
    /\ \A k \in 1 .. Len(b) :
          /\ Awaited(b[k].req) /\ (b[k].req.why = "migrate" => b[k].req.op = "post")
          /\ Alone(b[k].req) => /\ Len(b) = 1
                                /\ \A j \in 1 .. Len(o) : ~Awaited(o[j])
          /\ Lister(b[k].req) => o = <<>>

Loading(o, b, n) == \/ \E k \in 1 .. Len(o) : o[k].load = n /\ Alone(o[k])
                    \/ \E k \in 1 .. Len(b) : Alone(b[k].req)

\* Deploys that are over; cards the page has no verdict of yet, though there is
\* one; tasks whose card the page will write when it has the reply.
Overs == {i \in TaskIds : tasks[i].state = "over"}
Unseen(js, td, ov) == {c.id : c \in {d \in js : /\ d.status = "done" \/ d.id \in ov
                                                /\ d.id \notin td}}
Answering(m) == m.req.op \in {"deploy", "restart"} /\ m.res = "ok"
Coming(b) == UNION {IF Answering(b[k]) THEN b[k].got ELSE {} : k \in 1 .. Len(b)}

\* A list on its way is the list of the server but for verdicts to be seen.
Good(m, td, list, ov) ==
    /\ m.res # "failed" /\ (m.res = "refused" => m.req.op = "post" /\ list = {})
    /\ m.req.op \in {"get", "reget"} => \A i \in Ids :
          At(m.got, i) = At(list, i) \/ (i \in IdsOf(m.got) /\ i \in ov /\ i \notin td)

Faithful(js, sn, td, o, b, n, list, ov) ==
    /\ ~Loading(o, b, n) => \A i \in Ids :
          /\ Reaches(sn, o, js, i)
          /\ i \in Coming(b) \/ i \in Unseen(js, td, ov) \/ Reaches(list, o, js, i)
    /\ \A k \in 1 .. Len(o) : o[k].load = n /\ o[k].why = "migrate" => list = {}
    /\ \A k \in 1 .. Len(b) : Alone(b[k].req) => Good(b[k], td, list, ov)

MirrorOf(t) ==
    /\ Queued(out[t], inbox[t], load[t])
    /\ fresh[t] => Faithful(jobs[t], snap[t], told[t], out[t], inbox[t], load[t], Listed, Overs)

Mirror ==
    /\ DOMAIN fresh = Tabs /\ (copy # NoCopy => copy.task \in Overs)
    /\ \A t \in Tabs : MirrorOf(t)

-----------------------------------------------------------------------------
(* Lists, and requests served or sent                                       *)

\* p is o without its first element.
Shorter(o, p) ==
    /\ Len(o) \in Nat /\ Len(p) = Len(o) - 1 /\ 1 \in 1 .. Len(o)
    /\ \A k \in 1 .. Len(p) : p[k] = o[k + 1] /\ k + 1 \in 1 .. Len(o)
    /\ \A k \in 1 .. Len(o) : k = 1 \/ (k - 1 \in 1 .. Len(p) /\ o[k] = p[k - 1])

LEMMA ShorterIs ==
    ASSUME NEW S, NEW o \in Seq(S), 1 \in 1 .. Len(o)
    PROVE  /\ RemoveAt(o, 1) \in Seq(S) /\ Shorter(o, RemoveAt(o, 1))
           /\ Len(o) = 1 => RemoveAt(o, 1) = <<>>
<1> DEFINE p == RemoveAt(o, 1)
           n == Len(o)
<1>1. /\ p \in Seq(S) /\ Len(p) = n - 1 /\ n \in Nat
      /\ \A k \in 1 .. n - 1 : p[k] = IF k < 1 THEN o[k] ELSE o[k + 1]
  BY Removes
<1> HIDE DEF p, n
<1>2. \A k \in 1 .. n - 1 : p[k] = o[k + 1] /\ k + 1 \in 1 .. n
  BY <1>1
<1>3. ASSUME NEW k \in 1 .. n, k # 1
      PROVE  k - 1 \in 1 .. n - 1 /\ o[k] = p[k - 1]
  <2>1. k - 1 \in 1 .. n - 1 /\ (k - 1) + 1 = k
    BY <1>1, <1>3
  <2> QED BY <1>2, <2>1
<1>4. n = 1 => p = <<>>
  BY <1>1
<1> QED BY <1>1, <1>2, <1>3, <1>4 DEF Shorter, p, n

LEMMA TailShorter ==
    ASSUME NEW S, NEW b \in Seq(S), b # <<>>
    PROVE  /\ Shorter(b, Tail(b)) /\ Tail(b) \in Seq(S) /\ Head(b) = b[1]
           /\ Len(b) = 1 => Tail(b) = <<>>
<1> DEFINE p == Tail(b)
           n == Len(b)
<1>1. /\ p \in Seq(S) /\ Len(p) = n - 1 /\ n \in Nat /\ 1 \in 1 .. n /\ Head(b) = b[1]
      /\ \A k \in 1 .. n - 1 : p[k] = b[k + 1] /\ k + 1 \in 1 .. n
  BY Tails
<1> HIDE DEF p, n
<1>3. ASSUME NEW k \in 1 .. n, k # 1
      PROVE  k - 1 \in 1 .. n - 1 /\ b[k] = p[k - 1]
  <2>1. k - 1 \in 1 .. n - 1 /\ (k - 1) + 1 = k
    BY <1>1, <1>3
  <2> QED BY <1>1, <2>1
<1>4. n = 1 => p = <<>>
  BY <1>1
<1> QED BY <1>1, <1>3, <1>4 DEF Shorter, p, n

\* q is o and then s.
Longer(o, s, q) ==
    /\ Len(o) \in Nat /\ Len(s) \in Nat /\ Len(q) = Len(o) + Len(s)
    /\ \A k \in 1 .. Len(o) : q[k] = o[k] /\ k \in 1 .. Len(q)
    /\ \A k \in 1 .. Len(s) : q[Len(o) + k] = s[k] /\ Len(o) + k \in 1 .. Len(q)
    /\ \A k \in 1 .. Len(q) :
          \/ k \in 1 .. Len(o) /\ q[k] = o[k]
          \/ k > Len(o) /\ \E j \in 1 .. Len(s) : k = Len(o) + j /\ q[k] = s[j]

LEMMA LongerIs ==
    ASSUME NEW S, NEW o \in Seq(S), NEW s \in Seq(S)
    PROVE  Longer(o, s, o \o s)
<1> DEFINE q == o \o s
<1>1. /\ Len(o) \in Nat /\ Len(s) \in Nat /\ Len(q) = Len(o) + Len(s)
      /\ \A k \in 1 .. Len(o) : q[k] = o[k] /\ k \in 1 .. Len(q)
      /\ \A k \in 1 .. Len(s) : q[Len(o) + k] = s[k] /\ Len(o) + k \in 1 .. Len(q)
  OBVIOUS
<1> HIDE DEF q
<1>2. ASSUME NEW k \in 1 .. Len(q), k \notin 1 .. Len(o)
      PROVE  k > Len(o) /\ \E j \in 1 .. Len(s) : k = Len(o) + j /\ q[k] = s[j]
  <2>1. k > Len(o) /\ k - Len(o) \in 1 .. Len(s) /\ k = Len(o) + (k - Len(o))
    BY <1>1, <1>2
  <2> QED BY <1>1, <2>1
<1> QED BY <1>1, <1>2 DEF Longer, q

LEMMA AppendLonger ==
    ASSUME NEW S, NEW o \in Seq(S), NEW r \in S
    PROVE  /\ Longer(o, <<r>>, Append(o, r)) /\ Len(<<r>>) = 1 /\ <<r>>[1] = r
           /\ <<r>> \in Seq(S) /\ \A k \in 1 .. Len(<<r>>) : <<r>>[k] = r
<1>1. Append(o, r) = o \o <<r>> /\ <<r>> \in Seq(S) /\ Len(<<r>>) = 1 /\ <<r>>[1] = r
  BY Appends
<1>2. \A k \in 1 .. 1 : k = 1
  OBVIOUS
<1> QED BY <1>1, <1>2, LongerIs

\* The first request is served.
LEMMA ReachesServed ==
    ASSUME NEW o, NEW p, Shorter(o, p), NEW list, NEW next, NEW page, NEW i,
           Reaches(list, o, page, i),
           At(next, i) = IF Writes(o[1], i) THEN Written(o[1]) ELSE At(list, i)
    PROVE  Reaches(next, p, page, i)
<1>1. CASE (\A k \in 1 .. Len(o) : ~Writes(o[k], i)) /\ At(list, i) = At(page, i)
  <2>1. \A k \in 1 .. Len(p) : ~Writes(p[k], i)
    BY <1>1 DEF Shorter
  <2> QED BY <1>1, <2>1 DEF Reaches, Shorter
<1>2. ASSUME NEW k \in 1 .. Len(o), Writes(o[k], i), At(page, i) = Written(o[k]),
             \A j \in 1 .. Len(o) : k < j /\ Writes(o[j], i) => At(page, i) = Written(o[j])
      PROVE  Reaches(next, p, page, i)
  <2>1. CASE k = 1
    <3>1. \A j \in 1 .. Len(p) : Writes(p[j], i) => At(page, i) = Written(p[j])
      <4> TAKE j \in 1 .. Len(p)
      <4>1. 1 < j + 1 /\ j + 1 \in 1 .. Len(o) /\ p[j] = o[j + 1]
        BY DEF Shorter
      <4> QED BY <1>2, <2>1, <4>1
    <3>2. At(next, i) = At(page, i)
      BY <1>2, <2>1
    <3> QED BY <3>1, <3>2 DEF Reaches
  <2>2. CASE k # 1
    <3>1. k - 1 \in 1 .. Len(p) /\ p[k - 1] = o[k]
      BY <2>2 DEF Shorter
    <3>2. \A j \in 1 .. Len(p) : k - 1 < j /\ Writes(p[j], i) => At(page, i) = Written(p[j])
      <4> TAKE j \in 1 .. Len(p)
      <4>1. (k - 1 < j => k < j + 1) /\ j + 1 \in 1 .. Len(o) /\ p[j] = o[j + 1]
        BY DEF Shorter
      <4> QED BY <1>2, <4>1
    <3> QED BY <1>2, <3>1, <3>2 DEF Reaches
  <2> QED BY <2>1, <2>2
<1> QED BY <1>1, <1>2 DEF Reaches

\* Requests are sent: about i none, or such as write what the page has.
LEMMA ReachesSent ==
    ASSUME NEW o, NEW s, NEW q, Longer(o, s, q), NEW list, NEW page, NEW i,
           \A k \in 1 .. Len(s) : Writes(s[k], i) => At(page, i) = Written(s[k]),
           (\E k \in 1 .. Len(s) : Writes(s[k], i)) \/ Reaches(list, o, page, i)
    PROVE  Reaches(list, q, page, i)
<1>1. ASSUME NEW k \in 1 .. Len(s), Writes(s[k], i)
      PROVE  Reaches(list, q, page, i)
  <2>1. /\ Len(o) + k \in 1 .. Len(q) /\ q[Len(o) + k] = s[k]
        /\ \A j \in 1 .. Len(q) : Len(o) + k < j => \E h \in 1 .. Len(s) : q[j] = s[h]
    BY DEF Longer
  <2> QED BY <1>1, <2>1 DEF Reaches
<1>2. CASE /\ \A k \in 1 .. Len(s) : ~Writes(s[k], i)
           /\ Reaches(list, o, page, i)
  <2>1. \A k \in 1 .. Len(q) : Writes(q[k], i) => k \in 1 .. Len(o) /\ q[k] = o[k]
    BY <1>2 DEF Longer
  <2>2. \A k \in 1 .. Len(o) : q[k] = o[k] /\ k \in 1 .. Len(q)
    BY DEF Longer
  <2>3. CASE (\A k \in 1 .. Len(o) : ~Writes(o[k], i)) /\ At(list, i) = At(page, i)
    BY <2>1, <2>3 DEF Reaches
  <2>4. CASE \E k \in 1 .. Len(o) :
                /\ Writes(o[k], i) /\ At(page, i) = Written(o[k])
                /\ \A j \in 1 .. Len(o) : k < j /\ Writes(o[j], i) => At(page, i) = Written(o[j])
    BY <2>1, <2>2, <2>4 DEF Reaches
  <2> QED BY <1>2, <2>3, <2>4 DEF Reaches
<1> QED BY <1>1, <1>2

-----------------------------------------------------------------------------
(* Queued                                                                   *)

\* The first request is served; for its reply the page does not wait, or is gone.
LEMMA QueuedServed ==
    ASSUME NEW o, NEW p, Shorter(o, p), NEW b, NEW n, Queued(o, b, n), o # <<>>
    PROVE  Queued(p, b, n)
<1>1. /\ Len(o) \in Nat /\ Len(p) = Len(o) - 1
      /\ \A k \in 1 .. Len(p) : p[k] = o[k + 1] /\ k + 1 \in 1 .. Len(o)
      /\ \A k \in 1 .. Len(o) : k = 1 \/ (k - 1 \in 1 .. Len(p) /\ o[k] = p[k - 1])
  BY DEF Shorter
<1>2. ASSUME NEW k \in 1 .. Len(p)
      PROVE  /\ p[k].load <= n /\ (p[k].why = "migrate" => p[k].op = "post")
             /\ p[k].load # n =>
                   \E j \in 1 .. Len(p) : k < j /\ p[j].op = "get" /\ p[j].load = n
             /\ p[k].load = n /\ Alone(p[k]) =>
                   /\ b = <<>> /\ (Lister(p[k]) => k = Len(p))
                   /\ p[k].why = "migrate" => Len(p) = 1
                   /\ \A j \in 1 .. Len(p) : p[j].load = n /\ j # k => ~Awaited(p[j])
  <2>1. k + 1 \in 1 .. Len(o) /\ p[k] = o[k + 1]
    BY <1>1
  <2>2. ASSUME p[k].load # n
        PROVE  \E j \in 1 .. Len(p) : k < j /\ p[j].op = "get" /\ p[j].load = n
    <3>1. PICK j \in 1 .. Len(o) : k + 1 < j /\ o[j].op = "get" /\ o[j].load = n
      BY <2>1, <2>2 DEF Queued
    <3>2. j # 1 /\ k < j - 1
      BY <3>1
    <3> QED BY <1>1, <3>1, <3>2
  <2>3. ASSUME p[k].load = n, Alone(p[k])
        PROVE  /\ b = <<>> /\ (Lister(p[k]) => k = Len(p))
               /\ p[k].why = "migrate" => Len(p) = 1
               /\ \A j \in 1 .. Len(p) : p[j].load = n /\ j # k => ~Awaited(p[j])
    <3>1. /\ b = <<>> /\ (Lister(p[k]) => k + 1 = Len(o))
          /\ p[k].why = "migrate" => Len(o) = 1
          /\ \A j \in 1 .. Len(o) : o[j].load = n /\ j # k + 1 => ~Awaited(o[j])
      BY <2>1, <2>3 DEF Queued
    <3>2. Len(o) # 1
      BY <1>1
    <3>3. \A j \in 1 .. Len(p) : j # k => j + 1 # k + 1
      OBVIOUS
    <3>4. k + 1 = Len(o) => k = Len(p)
      BY <1>1
    <3> QED BY <1>1, <3>1, <3>2, <3>3, <3>4
  <2> QED BY <2>1, <2>2, <2>3 DEF Queued
<1>3. ASSUME NEW k \in 1 .. Len(b)
      PROVE  /\ Awaited(b[k].req) /\ (b[k].req.why = "migrate" => b[k].req.op = "post")
             /\ Alone(b[k].req) => /\ Len(b) = 1
                                   /\ \A j \in 1 .. Len(p) : ~Awaited(p[j])
             /\ ~Lister(b[k].req)
  BY <1>1 DEF Queued
<1> QED BY <1>2, <1>3 DEF Queued

\* What the page waits for is there.
LEMMA QueuedAnswered ==
    ASSUME NEW o, NEW S, NEW p \in Seq(S), Shorter(o, p), NEW T, NEW b \in Seq(T), NEW n,
           Queued(o, b, n), NEW m \in T, m.req = o[1], Awaited(o[1]), o[1].load = n,
           Len(o) = 1 => p = <<>>
    PROVE  /\ Queued(p, Append(b, m), n)
           /\ \A k \in 1 .. Len(b) : ~Alone(b[k].req)
           /\ \A k \in 1 .. Len(p) : p[k].load = n => ~Alone(p[k])
           /\ Alone(o[1]) => b = <<>>
           /\ Lister(o[1]) => p = <<>>
<1> DEFINE c == Append(b, m)
<1>1. /\ Len(o) \in Nat /\ Len(p) = Len(o) - 1 /\ 1 \in 1 .. Len(o)
      /\ \A k \in 1 .. Len(p) : p[k] = o[k + 1] /\ k + 1 \in 1 .. Len(o) /\ k + 1 # 1
  BY DEF Shorter
<1>2. Queued(p, b, n)
  <2>1. o # <<>>
    BY <1>1
  <2> QED BY <2>1, QueuedServed
<1>3. \A k \in 1 .. Len(p) : p[k].load = n => ~Alone(p[k])
  <2> SUFFICES ASSUME NEW k \in 1 .. Len(p), p[k].load = n, Alone(p[k]) PROVE FALSE
    OBVIOUS
  <2>1. \A j \in 1 .. Len(o) : o[j].load = n /\ j # k + 1 => ~Awaited(o[j])
    BY <1>1 DEF Queued
  <2> QED BY <1>1, <2>1
<1>4. \A k \in 1 .. Len(b) : ~Alone(b[k].req)
  BY <1>1 DEF Queued
<1>5. Alone(o[1]) => /\ b = <<>> /\ (Lister(o[1]) => Len(o) = 1)
                     /\ \A j \in 1 .. Len(o) : o[j].load = n /\ j # 1 => ~Awaited(o[j])
  BY <1>1 DEF Queued
<1>6. ASSUME Alone(o[1]), NEW k \in 1 .. Len(p) PROVE ~Awaited(p[k])
  <2>1. p[k].load # n => \E j \in 1 .. Len(p) : p[j].op = "get" /\ p[j].load = n
    BY <1>2 DEF Queued
  <2>2. \A j \in 1 .. Len(p) : p[j].op = "get" => Awaited(p[j])
    BY DEF Awaited
  <2> QED BY <1>1, <1>5, <1>6, <2>1, <2>2
<1>7. /\ Len(b) \in Nat /\ Len(c) = Len(b) + 1 /\ c[Len(b) + 1] = m
      /\ \A k \in 1 .. Len(b) : c[k] = b[k]
      /\ \A k \in 1 .. Len(c) : k \in 1 .. Len(b) \/ k = Len(b) + 1
  BY Appends
<1> HIDE DEF c
<1>8. o[1].why = "migrate" => o[1].op = "post"
  BY <1>1 DEF Queued
<1>9. b = <<>> => Len(c) = 1
  BY <1>7
<1>10. ASSUME NEW k \in 1 .. Len(c)
       PROVE  /\ Awaited(c[k].req) /\ (c[k].req.why = "migrate" => c[k].req.op = "post")
              /\ Alone(c[k].req) => /\ Len(c) = 1
                                    /\ \A j \in 1 .. Len(p) : ~Awaited(p[j])
              /\ Lister(c[k].req) => p = <<>>
  <2>1. CASE k \in 1 .. Len(b)
    <3>1. c[k] = b[k] /\ ~Alone(b[k].req) /\ ~Lister(b[k].req)
      BY <1>4, <1>7, <2>1 DEF Alone
    <3> QED BY <2>1, <3>1 DEF Queued
  <2>2. CASE k = Len(b) + 1
    <3>1. c[k].req = o[1]
      BY <1>7, <2>2
    <3>2. Lister(o[1]) => Alone(o[1])
      BY DEF Alone
    <3> QED BY <1>5, <1>6, <1>8, <1>9, <3>1, <3>2
  <2> QED BY <1>7, <2>1, <2>2
<1>11. Queued(p, c, n)
  BY <1>2, <1>3, <1>10 DEF Queued
<1> QED BY <1>3, <1>4, <1>5, <1>11 DEF c, Alone

\* Requests that are not to be waited for alone.
LEMMA QueuedMore ==
    ASSUME NEW o, NEW s, NEW q, Longer(o, s, q), NEW b, NEW n \in Nat, Queued(o, b, n),
           \A k \in 1 .. Len(s) : /\ s[k].load = n /\ ~Alone(s[k])
                                  /\ s[k].why # "migrate",
           \A k \in 1 .. Len(o) : o[k].load = n => ~Lister(o[k]),
           \A k \in 1 .. Len(b) : ~Lister(b[k].req),
           (\A k \in 1 .. Len(s) : ~Awaited(s[k])) \/ ~Loading(o, b, n)
    PROVE  Queued(q, b, n)
<1>1. /\ \A k \in 1 .. Len(o) : q[k] = o[k] /\ k \in 1 .. Len(q)
      /\ \A k \in 1 .. Len(q) :
            \/ k \in 1 .. Len(o) /\ q[k] = o[k]
            \/ \E j \in 1 .. Len(s) : q[k] = s[j]
  BY DEF Longer
<1>2. ASSUME NEW k \in 1 .. Len(q)
      PROVE  /\ q[k].load <= n /\ (q[k].why = "migrate" => q[k].op = "post")
             /\ q[k].load # n =>
                   \E j \in 1 .. Len(q) : k < j /\ q[j].op = "get" /\ q[j].load = n
             /\ q[k].load = n /\ Alone(q[k]) =>
                   /\ b = <<>> /\ ~Lister(q[k])
                   /\ q[k].why # "migrate"
                   /\ \A j \in 1 .. Len(q) : q[j].load = n /\ j # k => ~Awaited(q[j])
  <2>1. CASE k \in 1 .. Len(o) /\ q[k] = o[k]
    <3>1. /\ q[k].load <= n /\ (q[k].why = "migrate" => q[k].op = "post")
          /\ q[k].load # n =>
                \E j \in 1 .. Len(o) : k < j /\ o[j].op = "get" /\ o[j].load = n
      BY <2>1 DEF Queued
    <3>2. q[k].load # n =>
                \E j \in 1 .. Len(q) : k < j /\ q[j].op = "get" /\ q[j].load = n
      BY <1>1, <3>1
    <3>3. ASSUME q[k].load = n, Alone(q[k])
          PROVE  /\ b = <<>> /\ ~Lister(q[k]) /\ q[k].why # "migrate"
                 /\ \A j \in 1 .. Len(q) : q[j].load = n /\ j # k => ~Awaited(q[j])
      <4>1. /\ b = <<>> /\ ~Lister(q[k])
            /\ \A j \in 1 .. Len(o) : o[j].load = n /\ j # k => ~Awaited(o[j])
        BY <2>1, <3>3 DEF Queued
      <4>2. Loading(o, b, n)
        BY <2>1, <3>3 DEF Loading
      <4>3. q[k].why # "migrate"
        BY <4>1 DEF Lister
      <4> QED BY <1>1, <4>1, <4>2, <4>3
    <3> QED BY <3>1, <3>2, <3>3
  <2>2. CASE \E j \in 1 .. Len(s) : q[k] = s[j]
    BY <2>2
  <2> QED BY <1>1, <2>1, <2>2
<1>3. ASSUME NEW k \in 1 .. Len(b)
      PROVE  /\ Awaited(b[k].req) /\ (b[k].req.why = "migrate" => b[k].req.op = "post")
             /\ Alone(b[k].req) => /\ Len(b) = 1
                                   /\ \A j \in 1 .. Len(q) : ~Awaited(q[j])
             /\ ~Lister(b[k].req)
  <2>1. Alone(b[k].req) => Loading(o, b, n) /\ \A j \in 1 .. Len(o) : ~Awaited(o[j])
    BY DEF Loading, Queued
  <2> QED BY <1>1, <2>1 DEF Queued
<1> QED BY <1>2, <1>3 DEF Queued

\* The last reply is taken, and the page goes on with one request.
LEMMA QueuedNext ==
    ASSUME NEW o, NEW s, NEW q, Longer(o, s, q), NEW n \in Nat, NEW b, Queued(o, b, n),
           \A k \in 1 .. Len(o) : ~Awaited(o[k]), Len(s) = 1, s[1].load = n,
           Lister(s[1]) \/ s[1].op = "sync", s[1].why = "migrate" => s[1].op = "post" /\ o = <<>>
    PROVE  Queued(q, <<>>, n)
<1>1. /\ Len(o) \in Nat /\ Len(q) = Len(o) + 1 /\ q[Len(o) + 1] = s[1] /\ Len(o) + 1 \in 1 .. Len(q)
      /\ \A k \in 1 .. Len(q) : \/ k \in 1 .. Len(o) /\ q[k] = o[k] /\ k # Len(o) + 1
                                \/ k = Len(o) + 1 /\ q[k] = s[1]
  <2>1. \A j \in 1 .. Len(s) : j = 1
    OBVIOUS
  <2> QED BY <2>1 DEF Longer
<1>2. \A k \in 1 .. Len(o) : /\ o[k].load = n /\ o[k].why # "migrate"
                             /\ ~Alone(o[k]) /\ ~Awaited(o[k])
  <2> TAKE k \in 1 .. Len(o)
  <2>1. \A j \in 1 .. Len(o) : o[j].op # "get"
    BY DEF Awaited
  <2>2. o[k].load = n
    BY <2>1 DEF Queued
  <2>3. o[k].why # "migrate" /\ ~Alone(o[k]) /\ ~Awaited(o[k])
    BY DEF Awaited, Alone, Lister
  <2> QED BY <2>2, <2>3
<1>3. s[1].why = "migrate" => Len(q) = 1
  BY <1>1
<1>4. ASSUME NEW k \in 1 .. Len(q)
      PROVE  /\ q[k].load = n /\ (q[k].why = "migrate" => q[k].op = "post")
             /\ Alone(q[k]) => /\ Lister(q[k]) => k = Len(q)
                               /\ q[k].why = "migrate" => Len(q) = 1
                               /\ \A j \in 1 .. Len(q) : j # k => ~Awaited(q[j])
  <2>1. CASE k \in 1 .. Len(o) /\ q[k] = o[k] /\ k # Len(o) + 1
    BY <1>2, <2>1
  <2>2. CASE k = Len(o) + 1 /\ q[k] = s[1]
    BY <1>1, <1>2, <1>3, <2>2
  <2> QED BY <1>1, <2>1, <2>2
<1>5. Len(<<>>) = 0 /\ n <= n
  OBVIOUS
<1> QED BY <1>4, <1>5 DEF Queued

\* A reply is taken.
LEMMA QueuedTaken ==
    ASSUME NEW o, NEW b, NEW c, Shorter(b, c), NEW n, Queued(o, b, n), b # <<>>,
           Len(b) = 1 => c = <<>>
    PROVE  /\ Queued(o, c, n)
           /\ Loading(o, b, n) => \/ Alone(b[1].req) /\ c = <<>>
                                     /\ \A k \in 1 .. Len(o) : ~Awaited(o[k])
           /\ Loading(o, c, n) => Loading(o, b, n)
<1>1. /\ 1 \in 1 .. Len(b) /\ Len(b) \in Nat /\ Len(c) = Len(b) - 1
      /\ \A k \in 1 .. Len(c) : c[k] = b[k + 1] /\ k + 1 \in 1 .. Len(b)
  BY DEF Shorter
<1>2. ASSUME NEW k \in 1 .. Len(c)
      PROVE  /\ Awaited(c[k].req) /\ (c[k].req.why = "migrate" => c[k].req.op = "post")
             /\ Alone(c[k].req) => /\ Len(c) = 1
                                   /\ \A j \in 1 .. Len(o) : ~Awaited(o[j])
             /\ Lister(c[k].req) => o = <<>>
  <2>1. Alone(c[k].req) => Len(b) = 1
    BY <1>1 DEF Queued
  <2>2. Len(b) # 1
    BY <1>1
  <2>3. ~Alone(c[k].req) /\ ~Lister(c[k].req)
    BY <2>1, <2>2 DEF Alone
  <2> QED BY <1>1, <2>3 DEF Queued
<1>3. \A k \in 1 .. Len(o) : ~(o[k].load = n /\ Alone(o[k]))
  BY DEF Queued
<1>4. Queued(o, c, n)
  BY <1>2, <1>3 DEF Queued
<1>5. Loading(o, b, n) => Alone(b[1].req) /\ c = <<>>
                                     /\ \A k \in 1 .. Len(o) : ~Awaited(o[k])
  <2> SUFFICES ASSUME NEW k \in 1 .. Len(b), Alone(b[k].req)
               PROVE  /\ Alone(b[1].req) /\ c = <<>>
                      /\ \A j \in 1 .. Len(o) : ~Awaited(o[j])
    BY <1>3 DEF Loading
  <2>1. Len(b) = 1 /\ \A j \in 1 .. Len(o) : ~Awaited(o[j])
    BY DEF Queued
  <2>2. k = 1
    BY <2>1
  <2> QED BY <2>1, <2>2
<1>6. Loading(o, c, n) => Loading(o, b, n)
  BY <1>1 DEF Loading
<1> QED BY <1>4, <1>5, <1>6

\* The page is loaded anew.
LEMMA QueuedReload ==
    ASSUME NEW o, NEW s, NEW q, Longer(o, s, q), NEW n \in Nat, NEW b, Queued(o, b, n),
           \A k \in 1 .. Len(o) : o[k].load \in Nat,
           Len(s) = 1, s[1].load = n + 1, s[1].op = "get", s[1].why # "migrate"
    PROVE  Queued(q, <<>>, n + 1)
<1>1. /\ Len(o) \in Nat /\ Len(q) = Len(o) + 1 /\ q[Len(o) + 1] = s[1] /\ Len(o) + 1 \in 1 .. Len(q)
      /\ \A k \in 1 .. Len(q) : \/ k \in 1 .. Len(o) /\ q[k] = o[k] /\ k < Len(o) + 1
                                \/ k = Len(o) + 1 /\ q[k] = s[1]
  <2>1. \A j \in 1 .. Len(s) : j = 1
    OBVIOUS
  <2> QED BY <2>1 DEF Longer
<1>2. \A k \in 1 .. Len(o) : /\ o[k].load <= n + 1 /\ o[k].load # n + 1
                             /\ o[k].why = "migrate" => o[k].op = "post"
  <2> TAKE k \in 1 .. Len(o)
  <2>1. o[k].load <= n /\ (o[k].why = "migrate" => o[k].op = "post")
    BY DEF Queued
  <2> QED BY <2>1
<1>3. ASSUME NEW k \in 1 .. Len(q)
      PROVE  /\ q[k].load <= n + 1 /\ (q[k].why = "migrate" => q[k].op = "post")
             /\ q[k].load # n + 1 =>
                   \E j \in 1 .. Len(q) : k < j /\ q[j].op = "get" /\ q[j].load = n + 1
             /\ q[k].load = n + 1 => /\ k = Len(q) /\ q[k].why # "migrate"
                                     /\ \A j \in 1 .. Len(q) : q[j].load = n + 1 => j = k
  <2>1. CASE k \in 1 .. Len(o) /\ q[k] = o[k] /\ k < Len(o) + 1
    BY <1>1, <1>2, <2>1
  <2>2. CASE k = Len(o) + 1 /\ q[k] = s[1]
    BY <1>1, <1>2, <2>2
  <2> QED BY <1>1, <2>1, <2>2
<1>4. Len(<<>>) = 0
  OBVIOUS
<1> QED BY <1>3, <1>4 DEF Queued

-----------------------------------------------------------------------------
(* Faithful                                                                 *)

LEMMA AwaitedAlone ==
    ASSUME NEW r
    PROVE  /\ Alone(r) => Awaited(r)
           /\ Awaited(r) => \A i : ~Writes(r, i)
           /\ Lister(r) => Alone(r)
  BY DEF Alone, Lister, Awaited, Writes

\* The page will take the server's list, whatever it has.
LEMMA FaithLoading ==
    ASSUME NEW js, NEW sn, NEW td, NEW o, NEW b, NEW n, NEW list, NEW ov,
           Queued(o, b, n), NEW j \in 1 .. Len(o), o[j].load = n,
           o[j].op \in {"get", "reget", "sync"}
    PROVE  Faithful(js, sn, td, o, b, n, list, ov)
<1>1. Alone(o[j]) /\ Awaited(o[j])
  BY DEF Alone, Lister, Awaited
<1>2. Loading(o, b, n) /\ b = <<>>
  BY <1>1 DEF Loading, Queued
<1>3. ASSUME NEW k \in 1 .. Len(o), o[k].load = n, o[k].why = "migrate"
      PROVE  FALSE
  <2>1. Alone(o[k])
    BY <1>3 DEF Alone, Lister
  <2>2. o[k].op = "post" /\ \A i \in 1 .. Len(o) : o[i].load = n /\ i # k => ~Awaited(o[i])
    BY <1>3, <2>1 DEF Queued
  <2> QED BY <1>1, <2>2
<1>4. Len(b) = 0
  BY <1>2
<1> QED BY <1>2, <1>3, <1>4 DEF Faithful

\* A deploy ends.
LEMMA FaithOver ==
    ASSUME NEW js, NEW sn, NEW td, NEW o, NEW b, NEW n, NEW list, NEW ov,
           Faithful(js, sn, td, o, b, n, list, ov), NEW ov2, ov \subseteq ov2
    PROVE  Faithful(js, sn, td, o, b, n, list, ov2)
<1>1. Unseen(js, td, ov) \subseteq Unseen(js, td, ov2)
  BY DEF Unseen
<1>2. \A m : Good(m, td, list, ov) => Good(m, td, list, ov2)
  BY DEF Good
<1> QED BY <1>1, <1>2 DEF Faithful

\* The first request, a write, is served.
LEMMA FaithServed ==
    ASSUME NEW js, NEW sn, NEW td, NEW o, NEW b, NEW n, NEW list, NEW ov,
           Faithful(js, sn, td, o, b, n, list, ov), Queued(o, b, n),
           NEW p, Shorter(o, p), ~Awaited(o[1]), o[1].load = n, NEW sn2, NEW list2,
           After(sn, o[1], sn2), After(list, o[1], list2)
    PROVE  Faithful(js, sn2, td, p, b, n, list2, ov)
<1>1. /\ Len(o) \in Nat /\ Len(p) = Len(o) - 1 /\ 1 \in 1 .. Len(o)
      /\ \A k \in 1 .. Len(p) : p[k] = o[k + 1] /\ k + 1 \in 1 .. Len(o)
      /\ \A k \in 1 .. Len(o) : k = 1 \/ (k - 1 \in 1 .. Len(p) /\ o[k] = p[k - 1])
  BY DEF Shorter
<1>2. Loading(o, b, n) => Loading(p, b, n)
  <2>1. ~Alone(o[1])
    BY AwaitedAlone
  <2> QED BY <1>1, <2>1 DEF Loading
<1>3. ASSUME ~Loading(p, b, n), NEW i \in Ids
      PROVE  /\ Reaches(sn2, p, js, i)
             /\ i \in Coming(b) \/ i \in Unseen(js, td, ov) \/ Reaches(list2, p, js, i)
  <2>1. /\ Reaches(sn, o, js, i)
        /\ i \in Coming(b) \/ i \in Unseen(js, td, ov) \/ Reaches(list, o, js, i)
    BY <1>2, <1>3 DEF Faithful
  <2>2. Reaches(sn2, p, js, i)
    BY <2>1, ReachesServed DEF After
  <2>3. Reaches(list, o, js, i) => Reaches(list2, p, js, i)
    BY ReachesServed DEF After
  <2> QED BY <2>1, <2>2, <2>3
<1>4. ASSUME NEW k \in 1 .. Len(p), p[k].load = n, p[k].why = "migrate"
      PROVE  FALSE
  <2>1. Alone(o[k + 1]) /\ o[k + 1].load = n /\ o[k + 1].why = "migrate"
    BY <1>1, <1>4 DEF Alone, Lister
  <2>2. Len(o) = 1
    BY <1>1, <2>1 DEF Queued
  <2> QED BY <1>1, <2>2
<1>5. ASSUME NEW k \in 1 .. Len(b), Alone(b[k].req)
      PROVE  Good(b[k], td, list2, ov)
  <2>1. ~Lister(b[k].req)
    BY <1>1 DEF Queued
  <2>2. Good(b[k], td, list, ov)
    BY <1>5 DEF Faithful
  <2>3. b[k].req.op = "sync"
    BY <1>5, <2>1 DEF Alone
  <2> QED BY <2>2, <2>3 DEF Good
<1> QED BY <1>3, <1>4, <1>5 DEF Faithful

LEMMA ComingIs ==
    ASSUME NEW b
    PROVE  \A i : i \in Coming(b) <=> \E k \in 1 .. Len(b) : Answering(b[k]) /\ i \in b[k].got
  BY DEF Coming

\* What a page waits for alone is there.
LEMMA FaithComes ==
    ASSUME NEW js, NEW sn, NEW td, NEW o, NEW S, NEW p \in Seq(S), Shorter(o, p),
           NEW T, NEW b \in Seq(T), NEW n, NEW list, NEW ov,
           Queued(o, b, n), Len(o) = 1 => p = <<>>,
           NEW m \in T, m.req = o[1], Alone(o[1]), o[1].load = n, Good(m, td, list, ov)
    PROVE  Faithful(js, sn, td, p, Append(b, m), n, list, ov)
<1>1. Awaited(o[1])
  BY AwaitedAlone
<1>2. /\ \A k \in 1 .. Len(p) : p[k].load = n => ~Alone(p[k])
      /\ b = <<>>
  BY <1>1, QueuedAnswered
<1> DEFINE c == Append(b, m)
<1>3. Len(c) = 1 /\ c[1] = m
  <2>1. c = <<m>>
    BY <1>2
  <2> QED BY <2>1
<1> HIDE DEF c
<1>4. \A k \in 1 .. Len(c) : c[k] = m
  <2>1. \A k \in 1 .. 1 : k = 1
    OBVIOUS
  <2> QED BY <1>3, <2>1
<1>5. Loading(p, c, n)
  <2>1. 1 \in 1 .. Len(c)
    BY <1>3
  <2> QED BY <1>3, <2>1 DEF Loading
<1>6. \A k \in 1 .. Len(p) : ~(p[k].load = n /\ p[k].why = "migrate")
  BY <1>2 DEF Alone, Lister
<1> QED BY <1>4, <1>5, <1>6 DEF Faithful, c

\* A deploy, or a restart, was answered.
LEMMA FaithAnswered ==
    ASSUME NEW js, NEW sn, NEW td, NEW o, NEW S, NEW p \in Seq(S), Shorter(o, p),
           NEW T, NEW b \in Seq(T), NEW n, NEW list, NEW ov,
           Faithful(js, sn, td, o, b, n, list, ov), Queued(o, b, n), Len(o) = 1 => p = <<>>,
           NEW m \in T, m.req = o[1], Awaited(o[1]), ~Alone(o[1]), o[1].load = n, NEW list2,
           \A i \in Ids : At(list2, i) = At(list, i) \/ (Answering(m) /\ i \in m.got)
    PROVE  Faithful(js, sn, td, p, Append(b, m), n, list2, ov)
<1> DEFINE c == Append(b, m)
<1>1. /\ \A k \in 1 .. Len(b) : ~Alone(b[k].req)
      /\ \A k \in 1 .. Len(p) : p[k].load = n => ~Alone(p[k])
  BY QueuedAnswered
<1>2. /\ Len(b) \in Nat /\ Len(c) = Len(b) + 1 /\ c[Len(b) + 1] = m
      /\ Len(b) + 1 \in 1 .. Len(c)
      /\ \A k \in 1 .. Len(b) : c[k] = b[k] /\ k \in 1 .. Len(c)
      /\ \A k \in 1 .. Len(c) : k \in 1 .. Len(b) \/ k = Len(b) + 1
  BY Appends
<1> HIDE DEF c
<1>3. \A k \in 1 .. Len(c) : ~Alone(c[k].req)
  BY <1>1, <1>2
<1>4. ~Loading(o, b, n)
  <2>1. \A k \in 1 .. Len(o) : o[k].load = n => ~Alone(o[k])
    BY <1>1 DEF Shorter
  <2> QED BY <1>1, <2>1 DEF Loading
<1>5. Coming(b) \subseteq Coming(c) /\ \A i : Answering(m) /\ i \in m.got => i \in Coming(c)
  BY <1>2, ComingIs
<1>6. ASSUME NEW i \in Ids
      PROVE  /\ Reaches(sn, p, js, i)
             /\ i \in Coming(c) \/ i \in Unseen(js, td, ov) \/ Reaches(list2, p, js, i)
  <2>1. /\ Reaches(sn, o, js, i)
        /\ i \in Coming(b) \/ i \in Unseen(js, td, ov) \/ Reaches(list, o, js, i)
    BY <1>4 DEF Faithful
  <2>2. ~Writes(o[1], i)
    BY AwaitedAlone
  <2>3. Reaches(sn, p, js, i)
    BY <2>1, <2>2, ReachesServed
  <2>4. Reaches(list, o, js, i) /\ At(list2, i) = At(list, i) => Reaches(list2, p, js, i)
    BY <2>2, ReachesServed
  <2> QED BY <1>5, <2>1, <2>3, <2>4
<1>7. \A k \in 1 .. Len(p) : ~(p[k].load = n /\ p[k].why = "migrate")
  BY <1>1 DEF Alone, Lister
<1> QED BY <1>3, <1>6, <1>7 DEF Faithful, c

\* A list comes and is shown.
LEMMA FaithShown ==
    ASSUME NEW td, NEW n, NEW list, NEW ov, NEW got,
           \A i \in Ids : At(got, i) = At(list, i)
                             \/ (i \in IdsOf(got) /\ i \in ov /\ i \notin td)
    PROVE  Faithful(got, got, td \cap IdsOf(got), <<>>, <<>>, n, list, ov)
<1> DEFINE o == <<>>
<1>1. \A k \in 1 .. Len(o) : FALSE
  OBVIOUS
<1> HIDE DEF o
<1>2. ASSUME NEW i \in Ids
      PROVE  /\ Reaches(got, o, got, i)
             /\ i \in Unseen(got, td \cap IdsOf(got), ov) \/ Reaches(list, o, got, i)
  <2>1. Reaches(got, o, got, i)
    BY <1>1 DEF Reaches
  <2>2. CASE At(got, i) = At(list, i)
    BY <1>1, <2>1, <2>2 DEF Reaches
  <2>3. CASE i \in IdsOf(got) /\ i \in ov /\ i \notin td
    BY <2>1, <2>3 DEF Unseen, IdsOf
  <2> QED BY <1>2, <2>2, <2>3
<1>3. Faithful(got, got, td \cap IdsOf(got), o, o, n, list, ov)
  BY <1>1, <1>2 DEF Faithful
<1> QED BY <1>3 DEF o

\* The old cache is sent; the server has no card.
LEMMA FaithUploads ==
    ASSUME NEW js, NEW sn, NEW td, NEW n, NEW ov, NEW r, NEW s, Len(s) = 1, s[1] = r,
           r.load = n, r.why = "migrate"
    PROVE  Faithful(js, sn, td, s, <<>>, n, {}, ov)
<1> DEFINE b == <<>>
<1>1. (\A k \in 1 .. Len(b) : FALSE) /\ 1 \in 1 .. 1
  OBVIOUS
<1> HIDE DEF b
<1>2. Loading(s, b, n)
  BY <1>1 DEF Loading, Alone, Lister
<1>3. Faithful(js, sn, td, s, b, n, {}, ov)
  BY <1>1, <1>2 DEF Faithful
<1> QED BY <1>3 DEF b

\* A reply is taken that changes nothing.
LEMMA FaithTaken ==
    ASSUME NEW js, NEW sn, NEW td, NEW o, NEW b, NEW n, NEW list, NEW ov,
           Faithful(js, sn, td, o, b, n, list, ov), Queued(o, b, n),
           NEW c, Shorter(b, c), b # <<>>, Len(b) = 1 => c = <<>>,
           ~Alone(b[1].req), ~Answering(b[1])
    PROVE  Faithful(js, sn, td, o, c, n, list, ov)
<1>1. /\ Len(b) \in Nat /\ Len(c) = Len(b) - 1 /\ 1 \in 1 .. Len(b)
      /\ \A k \in 1 .. Len(c) : c[k] = b[k + 1] /\ k + 1 \in 1 .. Len(b)
      /\ \A k \in 1 .. Len(b) : k = 1 \/ (k - 1 \in 1 .. Len(c) /\ b[k] = c[k - 1])
  BY DEF Shorter
<1>2. ~Loading(o, b, n) /\ ~Loading(o, c, n)
  BY QueuedTaken
<1>3. Coming(b) \subseteq Coming(c)
  BY <1>1, ComingIs
<1>4. /\ \A k \in 1 .. Len(o) : ~(o[k].load = n /\ o[k].why = "migrate")
      /\ \A k \in 1 .. Len(c) : ~Alone(c[k].req)
  BY <1>2 DEF Loading, Alone, Lister
<1> QED BY <1>2, <1>3, <1>4 DEF Faithful

\* A request that asks for a task is sent.
LEMMA FaithSent ==
    ASSUME NEW js, NEW sn, NEW td, NEW o, NEW b, NEW n, NEW list, NEW ov,
           Faithful(js, sn, td, o, b, n, list, ov), ~Loading(o, b, n),
           NEW s, NEW q, Longer(o, s, q),
           \A k \in 1 .. Len(s) : Awaited(s[k]) /\ ~Alone(s[k])
    PROVE  Faithful(js, sn, td, q, b, n, list, ov)
<1>1. /\ \A k \in 1 .. Len(o) : q[k] = o[k] /\ k \in 1 .. Len(q)
      /\ \A k \in 1 .. Len(q) :
            \/ k \in 1 .. Len(o) /\ q[k] = o[k]
            \/ \E j \in 1 .. Len(s) : q[k] = s[j]
  BY DEF Longer
<1>2. \A k \in 1 .. Len(q) : ~(q[k].load = n /\ Alone(q[k]))
  BY <1>1 DEF Loading
<1>3. \A k \in 1 .. Len(b) : ~Alone(b[k].req)
  BY DEF Loading
<1>4. ASSUME NEW i \in Ids, NEW x, Reaches(x, o, js, i)
      PROVE  Reaches(x, q, js, i)
  <2>1. \A k \in 1 .. Len(s) : ~Writes(s[k], i)
    BY AwaitedAlone
  <2> QED BY <1>4, <2>1, ReachesSent
<1>5. ASSUME NEW i \in Ids
      PROVE  /\ Reaches(sn, q, js, i)
             /\ i \in Coming(b) \/ i \in Unseen(js, td, ov) \/ Reaches(list, q, js, i)
  BY <1>4 DEF Faithful
<1>6. \A k \in 1 .. Len(q) : ~(q[k].load = n /\ q[k].why = "migrate")
  BY <1>2 DEF Alone, Lister
<1> QED BY <1>3, <1>5, <1>6 DEF Faithful

\* What the page sends, of load n, writes next.
Writing(s, js, next, touched, n) ==
    /\ \A k \in 1 .. Len(s) : s[k].load = n /\ s[k].why # "migrate" /\ s[k].op \in {"post", "delete"}
    /\ \A k \in 1 .. Len(s), i \in Ids : Writes(s[k], i) => At(next, i) = Written(s[k])
    /\ \A i \in Ids : \/ i \in IdsOf(js) \ IdsOf(next)
                      \/ i \in touched /\ i \in IdsOf(next)
                      => \E k \in 1 .. Len(s) : Writes(s[k], i)

\* The cards that stay are the same; only a card that is sent is new.
Changes(js, next, touched, td, td2, b, c) ==
    \A i \in Ids : \/ i \in IdsOf(js) \ IdsOf(next)
                   \/ i \in touched /\ i \in IdsOf(next)
                   \/ /\ At(next, i) = At(js, i) /\ (i \in td2 => i \in td)
                      /\ i \in Coming(b) => i \in Coming(c)

\* The page changes its list, perhaps for a reply it has taken; it is not
\* waiting for a list.
LEMMA FaithCommit ==
    ASSUME NEW js, NEW sn, NEW td, NEW o, NEW b, NEW n, NEW list, NEW ov,
           Faithful(js, sn, td, o, b, n, list, ov),
           NEW c, Coming(c) \subseteq Coming(b),
           Loading(o, b, n) => c = b, Loading(o, c, n) => Loading(o, b, n),
           \A k \in 1 .. Len(o) : o[k].load = n => ~Lister(o[k]),
           \A k \in 1 .. Len(c) : ~Lister(c[k].req),
           NEW next, NEW touched, NEW s, Writing(s, js, next, touched, n),
           NEW q, Longer(o, s, q), NEW td2,
           Changes(js, next, touched, td, td2, b, c)
    PROVE  Faithful(next, next, td2, q, c, n, list, ov)
<1>1. /\ \A k \in 1 .. Len(o) : q[k] = o[k] /\ k \in 1 .. Len(q)
      /\ \A k \in 1 .. Len(q) :
            \/ k \in 1 .. Len(o) /\ q[k] = o[k]
            \/ \E j \in 1 .. Len(s) : q[k] = s[j]
  BY DEF Longer
<1>2. Loading(o, c, n) => Loading(q, c, n)
  BY <1>1 DEF Loading
<1>3. ASSUME ~Loading(q, c, n), NEW i \in Ids
      PROVE  /\ Reaches(next, q, next, i)
             /\ i \in Coming(c) \/ i \in Unseen(next, td2, ov) \/ Reaches(list, q, next, i)
  <2>1. ~Loading(o, b, n)
    BY <1>2, <1>3
  <2>2. /\ Reaches(sn, o, js, i)
        /\ i \in Coming(b) \/ i \in Unseen(js, td, ov) \/ Reaches(list, o, js, i)
    BY <2>1 DEF Faithful
  <2>3. \A k \in 1 .. Len(s) : Writes(s[k], i) => At(next, i) = Written(s[k])
    BY DEF Writing
  <2>4. CASE \E k \in 1 .. Len(s) : Writes(s[k], i)
    BY <2>3, <2>4, ReachesSent
  <2>5. CASE ~\E k \in 1 .. Len(s) : Writes(s[k], i)
    <3>1. /\ At(next, i) = At(js, i) /\ (i \in td2 => i \in td)
          /\ i \in Coming(b) => i \in Coming(c)
      BY <2>5 DEF Writing, Changes
    <3>2. Reaches(next, o, next, i) /\ (Reaches(list, o, js, i) => Reaches(list, o, next, i))
      BY <2>2, <3>1 DEF Reaches
    <3>3. i \in Unseen(js, td, ov) => i \in Unseen(next, td2, ov)
      <4> SUFFICES ASSUME NEW d \in js, d.id = i, d.status = "done" \/ d.id \in ov, d.id \notin td
                   PROVE  i \in Unseen(next, td2, ov)
        BY DEF Unseen
      <4>1. d \in At(js, i)
        BY DEF At
      <4>2. d \in next
        BY <3>1, <4>1 DEF At
      <4> QED BY <3>1, <4>2 DEF Unseen
    <3>4. \A x : Reaches(x, o, next, i) => Reaches(x, q, next, i)
      BY <2>3, ReachesSent
    <3> QED BY <2>2, <3>1, <3>2, <3>3, <3>4
  <2> QED BY <2>4, <2>5
<1>4. ASSUME NEW k \in 1 .. Len(q), q[k].load = n
      PROVE  q[k].why # "migrate"
  BY <1>1, <1>4 DEF Writing, Lister
<1>5. ASSUME NEW k \in 1 .. Len(c), Alone(c[k].req)
      PROVE  Good(c[k], td2, list, ov)
  <2>1. c[k].req.op = "sync"
    BY <1>5 DEF Alone
  <2>2. Loading(o, c, n)
    BY <1>5 DEF Loading
  <2>3. Good(c[k], td, list, ov)
    BY <1>5, <2>2 DEF Faithful
  <2> QED BY <2>1, <2>3 DEF Good
<1> QED BY <1>3, <1>4, <1>5 DEF Faithful

\* The verdict of x is written, and the page has it or will see it.
LEMMA FaithVerdict ==
    ASSUME NEW js, NEW sn, NEW td, NEW o, NEW b, NEW n, NEW list, NEW ov,
           Faithful(js, sn, td, o, b, n, list, ov),
           NEW x \in ov, NEW ids, ListIn(js, ids), ListIn(list, ids),
           \/ x \notin td
           \/ /\ \A k \in 1 .. Len(b) : ~Lister(b[k].req)
              /\ \E c \in js : c.id = x /\ c.status = "done",
           NEW list2, list2 = {IF c.id = x THEN [c EXCEPT !.status = "done"] ELSE c : c \in list}
    PROVE  Faithful(js, sn, td, o, b, n, list2, ov)
<1>1. ASSUME NEW i, i # x PROVE At(list2, i) = At(list, i)
  <2>1. \A c \in list : [c EXCEPT !.status = "done"].id = c.id
    BY CardIs DEF ListIn, Statuses
  <2> QED BY <1>1, <2>1 DEF At
<1>2. At(list, x) = {} => At(list2, x) = {}
  BY DEF At
<1>3. list = {} => list2 = {}
  OBVIOUS
<1>4. At(js, x) # {} /\ x \notin td => x \in Unseen(js, td, ov)
  BY DEF At, Unseen
<1>5. ASSUME NEW c \in js, c.id = x, c.status = "done", At(list, x) = At(js, x)
      PROVE  At(list2, x) = At(list, x)
  <2>1. At(js, x) = {c}
    BY <1>5 DEF ListIn, At
  <2>2. [c EXCEPT !.status = "done"] = c
    BY <1>5 DEF ListIn, CardSet
  <2>3. c \in list /\ \A d \in list : d.id = x => d = c
    BY <1>5, <2>1 DEF At
  <2>4. At(list2, x) = {c}
    <3>1. \A d \in list : [d EXCEPT !.status = "done"].id = d.id
      BY CardIs DEF ListIn, Statuses
    <3> QED BY <1>5, <2>2, <2>3, <3>1 DEF At
  <2> QED BY <1>5, <2>1, <2>4
<1>6. ASSUME ~Loading(o, b, n), NEW i \in Ids
      PROVE  /\ Reaches(sn, o, js, i)
             /\ i \in Coming(b) \/ i \in Unseen(js, td, ov) \/ Reaches(list2, o, js, i)
  <2>1. /\ Reaches(sn, o, js, i)
        /\ i \in Coming(b) \/ i \in Unseen(js, td, ov) \/ Reaches(list, o, js, i)
    BY <1>6 DEF Faithful
  <2>2. ASSUME Reaches(list, o, js, i)
        PROVE  i \in Unseen(js, td, ov) \/ Reaches(list2, o, js, i)
    <3>1. CASE At(list, i) # At(js, i) \/ At(list2, i) = At(list, i)
      BY <2>2, <3>1 DEF Reaches
    <3>2. CASE At(list, i) = At(js, i) /\ At(list2, i) # At(list, i)
      BY <1>1, <1>2, <1>4, <1>5, <3>2
    <3> QED BY <3>1, <3>2
  <2> QED BY <2>1, <2>2
<1>7. ASSUME NEW k \in 1 .. Len(b), Alone(b[k].req)
      PROVE  Good(b[k], td, list2, ov)
  <2>1. Good(b[k], td, list, ov)
    BY <1>7 DEF Faithful
  <2>2. ASSUME b[k].req.op \in {"get", "reget"}, NEW i \in Ids
        PROVE  \/ At(b[k].got, i) = At(list2, i)
               \/ i \in IdsOf(b[k].got) /\ i \in ov /\ i \notin td
    <3>1. \/ At(b[k].got, i) = At(list, i)
          \/ i \in IdsOf(b[k].got) /\ i \in ov /\ i \notin td
      BY <2>1, <2>2 DEF Good
    <3>2. Lister(b[k].req)
      BY <2>2 DEF Lister
    <3>3. x \notin td
      BY <3>2
    <3>4. At(b[k].got, i) # {} => i \in IdsOf(b[k].got)
      BY DEF At, IdsOf
    <3> QED BY <1>1, <1>2, <3>1, <3>3, <3>4
  <2> QED BY <1>3, <2>1, <2>2 DEF Good
<1> QED BY <1>3, <1>6, <1>7 DEF Faithful

-----------------------------------------------------------------------------
(* The page of a tab, and the mirror                                        *)

LEMMA DiffWrites ==
    ASSUME IInv, NEW t \in Tabs, NEW next, ListIn(next, Issued), NEW touched
    PROVE  Writing(Diff(t, next, touched), jobs[t], next, touched, load[t])
<1> DEFINE d == Diff(t, next, touched)
           left == IdsOf(jobs[t]) \ IdsOf(next)
           posted == {c \in next : c.id \in touched}
<1>1. Difference(d, jobs[t], next, touched, load[t])
  <2>1. Shaped /\ Issued \subseteq Ids /\ ListIn(jobs[t], Issued)
    BY IssuedIds, TabParts DEF PageIn
  <2> QED BY <2>1, DiffIs
<1> HIDE DEF d
<1>2. /\ \A k \in 1 .. Len(d) : Differs(d[k], left, posted)
                                /\ d[k].why # "migrate" /\ d[k].load = load[t]
      /\ \A i \in left : \E k \in 1 .. Len(d) : d[k].op = "delete" /\ d[k].card.id = i
      /\ \A c \in posted : \E k \in 1 .. Len(d) : d[k].op = "post" /\ d[k].card = c
  BY <1>1 DEF Difference
<1>3. \A k \in 1 .. Len(d) : /\ d[k].load = load[t] /\ d[k].why # "migrate"
                             /\ d[k].op \in {"post", "delete"} /\ ~Awaited(d[k])
  BY <1>2 DEF Differs, Awaited
<1>4. ASSUME NEW k \in 1 .. Len(d), NEW i \in Ids, Writes(d[k], i)
      PROVE  At(next, i) = Written(d[k])
  <2>1. d[k].card.id = i
    BY <1>4 DEF Writes
  <2>2. CASE d[k].op = "delete" /\ d[k].card.id \in left
    BY <2>1, <2>2 DEF At, IdsOf, Written
  <2>3. CASE d[k].op = "post" /\ d[k].card \in posted
    <3>1. \A c \in next : c.id = i => c = d[k].card
      BY <2>1, <2>3 DEF ListIn
    <3> QED BY <2>1, <2>3, <3>1 DEF At, Written
  <2> QED BY <1>2, <2>2, <2>3 DEF Differs
<1>5. ASSUME NEW i \in Ids, i \in left
      PROVE  \E k \in 1 .. Len(d) : Writes(d[k], i)
  BY <1>2, <1>3, <1>5 DEF Writes
<1>6. ASSUME NEW i \in Ids, i \in touched, i \in IdsOf(next)
      PROVE  \E k \in 1 .. Len(d) : Writes(d[k], i)
  <2>1. PICK c \in posted : c.id = i
    BY <1>6 DEF IdsOf
  <2>2. PICK k \in 1 .. Len(d) : d[k].op = "post" /\ d[k].card = c
    BY <1>2
  <2> QED BY <1>3, <2>1, <2>2 DEF Writes
<1> QED BY <1>3, <1>4, <1>5, <1>6 DEF Writing, d

\* What Refreshing and NoSync look at.
LEMMA OpenIs ==
    ASSUME IInv, NEW t \in Tabs
    PROVE  /\ \A k \in 1 .. Len(out[t]) : out[t][k].load = load[t] => out[t][k] \in Open(t)
           /\ \A k \in 1 .. Len(inbox[t]) : inbox[t][k].req \in Open(t)
           /\ \A r \in Open(t) :
                 \/ \E k \in 1 .. Len(out[t]) : r = out[t][k] /\ r.load = load[t]
                 \/ \E k \in 1 .. Len(inbox[t]) : r = inbox[t][k].req
           /\ Refreshing(t) <=> \E r \in Open(t) : Lister(r)
<1>1. out[t] \in Seq(RequestSet) /\ inbox[t] \in Seq(MessageSet)
  BY TabParts DEF WireIn
<1>2. DOMAIN out[t] = 1 .. Len(out[t]) /\ DOMAIN inbox[t] = 1 .. Len(inbox[t])
  BY <1>1
<1>3. /\ Range(out[t]) = {out[t][k] : k \in 1 .. Len(out[t])}
      /\ Range(inbox[t]) = {inbox[t][k] : k \in 1 .. Len(inbox[t])}
  BY <1>2 DEF Range
<1> QED BY <1>3 DEF Open, Refreshing, Lister

\* A page that may change its list, and one that may also send.
LEMMA SettledIs ==
    ASSUME Odds = {}, IInv, NEW t \in Tabs, Settled(t)
    PROVE  /\ \A k \in 1 .. Len(out[t]) : out[t][k].load = load[t] => ~Lister(out[t][k])
           /\ \A k \in 1 .. Len(inbox[t]) : ~Lister(inbox[t][k].req)
           /\ NoSync(t) => ~Loading(out[t], inbox[t], load[t])
<1>1. ~Refreshing(t) /\ (NoSync(t) => \A r \in Open(t) : r.op # "sync")
  BY DEF Settled, NoSync
<1>2. \A r \in Open(t) : ~Lister(r) /\ (NoSync(t) => ~Alone(r))
  BY <1>1, OpenIs DEF Alone
<1> QED BY <1>2, OpenIs DEF Loading

\* A step of tab t, or for it: the others stay as they are, and fresh only if
\* the server's list does.
Heeds(t) ==
    /\ DOMAIN fresh' = Tabs
    /\ \A u \in Tabs \ {t} : fresh'[u] => fresh[u] /\ Listed' = Listed
Others(t) ==
    \A u \in Tabs \ {t} :
       /\ jobs'[u] = jobs[u] /\ snap'[u] = snap[u] /\ told'[u] = told[u]
       /\ out'[u] = out[u] /\ inbox'[u] = inbox[u] /\ load'[u] = load[u]

LEMMA MirrorTab ==
    ASSUME Mirror, NEW t \in Tabs, Others(t), Heeds(t), Overs \subseteq Overs', copy' = copy,
           Queued(out'[t], inbox'[t], load'[t]),
           fresh'[t] => Faithful(jobs'[t], snap'[t], told'[t], out'[t], inbox'[t], load'[t],
                                 Listed', Overs')
    PROVE  Mirror'
<1>1. ASSUME NEW u \in Tabs, u # t
      PROVE  MirrorOf(u)'
  <2>1. /\ Queued(out[u], inbox[u], load[u])
        /\ fresh[u] => Faithful(jobs[u], snap[u], told[u], out[u], inbox[u], load[u], Listed, Overs)
    BY DEF Mirror, MirrorOf
  <2>2. fresh'[u] => Faithful(jobs[u], snap[u], told[u], out[u], inbox[u], load[u],
                              Listed', Overs')
    BY <1>1, <2>1, FaithOver DEF Heeds
  <2> QED BY <1>1, <2>1, <2>2 DEF MirrorOf, Others
<1>2. MirrorOf(t)'
  BY DEF MirrorOf
<1>3. copy' # NoCopy => copy'.task \in Overs'
  BY DEF Mirror
<1> QED BY <1>1, <1>2, <1>3 DEF Mirror, Heeds

LEMMA SameListed ==
    ASSUME cards' = cards, tombs' = tombs
    PROVE  Listed' = Listed
  BY DEF Listed

LEMMA SameOvers ==
    ASSUME tasks' = tasks
    PROVE  Overs' = Overs
  BY DEF Overs

LEMMA ListedIs ==
    ASSUME IInv
    PROVE  ListIn(Listed, Issued) /\ IdsOf(Listed) \subseteq Ids
<1>1. Listed \subseteq cards
  BY DEF Listed
<1>2. ListIn(Listed, Issued)
  BY <1>1, SubList, TabParts DEF IInv, Server
<1> QED BY <1>2, IssuedIds DEF ListIn

-----------------------------------------------------------------------------
(* The gateway, and the page                                                *)

\* Without "overtake" it is a tab's first request that is served.
LEMMA DueFirst ==
    ASSUME Odds = {}, IInv, Mirror, NEW t \in Tabs, NEW k \in Due(t)
    PROVE  /\ k = 1 /\ 1 \in 1 .. Len(out[t]) /\ out[t] # <<>>
           /\ out[t] \in Seq(RequestSet) /\ inbox[t] \in Seq(MessageSet)
           /\ RemoveAt(out[t], 1) \in Seq(RequestSet) /\ Shorter(out[t], RemoveAt(out[t], 1))
           /\ Len(out[t]) = 1 => RemoveAt(out[t], 1) = <<>>
           /\ Queued(out[t], inbox[t], load[t])
           /\ fresh[t] => Faithful(jobs[t], snap[t], told[t], out[t], inbox[t], load[t],
                                   Listed, Overs)
<1>1. k = 1 /\ k \in 1 .. Len(out[t])
  BY DueIs DEF Due
<1>2. out[t] \in Seq(RequestSet) /\ inbox[t] \in Seq(MessageSet)
  BY TabParts DEF WireIn
<1>3. out[t] # <<>>
  <2>1. out[t] = <<>> => Len(out[t]) = 0
    OBVIOUS
  <2> QED BY <1>1, <2>1
<1> QED BY <1>1, <1>2, <1>3, ShorterIs DEF Mirror, MirrorOf

\* A request of a page that is gone: the new page waits for its list.
LEMMA StaleServed ==
    ASSUME NEW o, NEW p, Shorter(o, p), NEW b, NEW n, Queued(o, b, n), o # <<>>, o[1].load # n
    PROVE  \A js, sn, td, list, ov : Faithful(js, sn, td, p, b, n, list, ov)
<1>1. PICK j \in 1 .. Len(o) : 1 < j /\ o[j].op = "get" /\ o[j].load = n
  BY DEF Shorter, Queued
<1>2. j - 1 \in 1 .. Len(p) /\ p[j - 1] = o[j]
  BY <1>1 DEF Shorter
<1>3. Queued(p, b, n)
  BY QueuedServed
<1> QED BY <1>1, <1>2, <1>3, FaithLoading

LEMMA AnswerMirrors ==
    ASSUME Odds = {}, IInv, Mirror, NEW t \in Tabs, NEW k \in Due(t), Heeds(t),
           NEW res \in {"ok", "refused", "failed"}, NEW got \in SUBSET (CardSet \union TaskIds),
           Answer(t, k, res, got), Awaited(out[t][k]),
           jobs' = jobs, snap' = snap, told' = told, load' = load, copy' = copy,
           Overs \subseteq Overs',
           NEW m, m = [req |-> out[t][k], res |-> res, got |-> got],
           fresh'[t] /\ out[t][k].load = load[t] =>
              \/ Alone(out[t][k]) /\ Good(m, told[t], Listed', Overs')
              \/ /\ ~Alone(out[t][k]) /\ fresh[t]
                 /\ \A i \in Ids : \/ At(Listed', i) = At(Listed, i)
                                   \/ Answering(m) /\ i \in got
    PROVE  Mirror'
<1> DEFINE o == out[t]
           p == RemoveAt(out[t], 1)
           b == inbox[t]
           n == load[t]
<1>1. /\ k = 1 /\ k \in 1 .. Len(o) /\ o # <<>> /\ b \in Seq(MessageSet)
      /\ p \in Seq(RequestSet) /\ Shorter(o, p) /\ (Len(o) = 1 => p = <<>>) /\ Queued(o, b, n)
      /\ fresh[t] => Faithful(jobs[t], snap[t], told[t], o, b, n, Listed, Overs)
  BY DueFirst
<1>2. /\ m \in MessageSet /\ m.req = out[t][k] /\ m.res = res /\ m.got = got
      /\ out'[t] = RemoveAt(out[t], k)
      /\ \A u \in Tabs \ {t} : out'[u] = out[u] /\ inbox'[u] = inbox[u]
  BY <1>1, Answered
<1>7. Others(t)
  BY <1>2 DEF Others
<1>3. inbox'[t] = IF o[1].load = n THEN Append(b, m) ELSE b
  <2>1. DOMAIN inbox = Tabs
    BY PageIs
  <2> QED BY <1>1, <2>1 DEF Answer
<1> HIDE DEF o, p, b, n
<1>4. out'[t] = p /\ o[1] = out[t][k] /\ load'[t] = n
  BY <1>1, <1>2 DEF p, o, n
<1>5. CASE o[1].load = n
  <2>1. inbox'[t] = Append(b, m) /\ m.req = o[1] /\ Awaited(o[1])
    BY <1>2, <1>3, <1>4, <1>5
  <2>2. Queued(p, Append(b, m), n)
    BY <1>1, <1>2, <1>5, <2>1, QueuedAnswered
  <2>3. ASSUME fresh'[t]
        PROVE  Faithful(jobs[t], snap[t], told[t], p, Append(b, m), n, Listed', Overs')
    <3>1. CASE Alone(o[1]) /\ Good(m, told[t], Listed', Overs')
      BY <1>1, <1>2, <1>5, <2>1, <3>1, FaithComes
    <3>2. CASE /\ ~Alone(o[1]) /\ fresh[t]
               /\ \A i \in Ids : \/ At(Listed', i) = At(Listed, i)
                                 \/ Answering(m) /\ i \in m.got
      <4>1. Faithful(jobs[t], snap[t], told[t], o, b, n, Listed, Overs')
        BY <1>1, <3>2, FaithOver
      <4> QED BY <1>1, <1>2, <1>5, <2>1, <3>2, <4>1, FaithAnswered
    <3>3. out[t][k] = o[1] /\ out[t][k].load = load[t] /\ m.got = got
      BY <1>2, <1>4, <1>5 DEF n
    <3> QED BY <2>3, <3>1, <3>2, <3>3
  <2> QED BY <1>4, <1>7, <2>1, <2>2, <2>3, MirrorTab
<1>6. CASE o[1].load # n
  <2>1. inbox'[t] = b
    BY <1>3, <1>6
  <2>2. Queued(p, b, n)
    BY <1>1, QueuedServed
  <2>3. Faithful(jobs[t], snap[t], told[t], p, b, n, Listed', Overs')
    BY <1>1, <1>6, StaleServed
  <2> QED BY <1>4, <1>7, <2>1, <2>2, <2>3, MirrorTab
<1> QED BY <1>5, <1>6

LEMMA WriteMirrors ==
    ASSUME Odds = {}, IInv, Mirror, NEW t \in Tabs, NEW k \in Due(t), Heeds(t),
           ~Awaited(out[t][k]),
           out' = [out EXCEPT ![t] = RemoveAt(out[t], k)], inbox' = inbox,
           NEW list, snap' = IF out[t][k].load = load[t] THEN [snap EXCEPT ![t] = list] ELSE snap,
           jobs' = jobs, told' = told, load' = load, copy' = copy, tasks' = tasks,
           fresh'[t] /\ out[t][k].load = load[t] =>
              fresh[t] /\ After(snap[t], out[t][k], list) /\ After(Listed, out[t][k], Listed')
    PROVE  Mirror'
<1> DEFINE o == out[t]
           p == RemoveAt(out[t], 1)
           b == inbox[t]
           n == load[t]
<1>1. /\ k = 1 /\ k \in 1 .. Len(o) /\ o # <<>>
      /\ Shorter(o, p) /\ Queued(o, b, n)
      /\ fresh[t] => Faithful(jobs[t], snap[t], told[t], o, b, n, Listed, Overs)
  BY DueFirst
<1>2. /\ out'[t] = RemoveAt(out[t], k)
      /\ \A u \in Tabs \ {t} : out'[u] = out[u] /\ inbox'[u] = inbox[u] /\ snap'[u] = snap[u]
      /\ snap'[t] = IF out[t][k].load = load[t] THEN list ELSE snap[t]
  BY PageIs
<1>8. Others(t)
  BY <1>2 DEF Others
<1>3. Overs' = Overs
  BY SameOvers
<1> HIDE DEF o, p, b, n
<1>4. /\ out'[t] = p /\ o[1] = out[t][k] /\ load'[t] = n /\ inbox'[t] = b
      /\ snap'[t] = IF o[1].load = n THEN list ELSE snap[t]
  BY <1>1, <1>2 DEF p, o, n, b
<1>5. Queued(p, b, n)
  BY <1>1, QueuedServed
<1>6. CASE o[1].load = n
  <2>1. ASSUME fresh'[t]
        PROVE  Faithful(jobs[t], list, told[t], p, b, n, Listed', Overs)
    <3>1. /\ fresh[t] /\ ~Awaited(o[1])
          /\ After(snap[t], o[1], list) /\ After(Listed, o[1], Listed')
      BY <1>4, <1>6, <2>1 DEF n
    <3> QED BY <1>1, <1>6, <3>1, FaithServed
  <2> QED BY <1>3, <1>4, <1>5, <1>6, <1>8, <2>1, MirrorTab
<1>7. CASE o[1].load # n
  <2>1. Faithful(jobs[t], snap[t], told[t], p, b, n, Listed', Overs')
    BY <1>1, <1>7, StaleServed
  <2> QED BY <1>3, <1>4, <1>5, <1>7, <1>8, <2>1, MirrorTab
<1> QED BY <1>6, <1>7

LEMMA DropMirrors ==
    ASSUME Odds = {}, IInv, Mirror, NEW t \in Tabs, NEW k \in Due(t), Heeds(t),
           out' = [out EXCEPT ![t] = RemoveAt(out[t], k)], inbox' = inbox,
           UNCHANGED <<jobs, snap, told, load, copy, tasks>>, ~fresh'[t]
    PROVE  Mirror'
<1>1. /\ k = 1 /\ out[t] # <<>> /\ Shorter(out[t], RemoveAt(out[t], 1))
      /\ Queued(out[t], inbox[t], load[t])
  BY DueFirst
<1>2. Queued(RemoveAt(out[t], 1), inbox[t], load[t])
  BY <1>1, QueuedServed
<1>3. out'[t] = RemoveAt(out[t], 1) /\ Others(t)
  BY <1>1, PageIs DEF Others
<1> QED BY <1>2, <1>3, SameOvers, MirrorTab

\* A card is put into the file.
LEMMA ListedWith ==
    ASSUME NEW c, cards' = With(cards, c), tombs' = tombs
    PROVE  \A i : At(Listed', i) = IF i # c.id THEN At(Listed, i)
                                   ELSE IF c.id \in tombs THEN {} ELSE {c}
  BY DEF With, Without, Listed, At

LEMMA GetMirrors ==
    ASSUME Odds = {}, IInv, Mirror, NEW t \in Tabs, NEW k \in Due(t), ServeGet(t, k)
    PROVE  Mirror'
<1> DEFINE m == [req |-> out[t][k], res |-> "ok", got |-> Listed]
<1>1. /\ out[t][k].op \in {"get", "reget"} /\ Answer(t, k, "ok", Listed)
      /\ fresh' = [fresh EXCEPT ![t] = out[t][k].load = load[t]]
      /\ jobs' = jobs /\ snap' = snap /\ told' = told /\ load' = load
      /\ copy' = copy /\ tasks' = tasks /\ cards' = cards /\ tombs' = tombs
  BY DEF ServeGet, server, tab, past
<1>2. Listed' = Listed /\ Overs' = Overs
  BY <1>1, SameListed, SameOvers
<1>3. Heeds(t)
  BY <1>1, <1>2 DEF Mirror, Heeds
<1>4. Awaited(out[t][k]) /\ Alone(out[t][k])
  BY <1>1 DEF Awaited, Alone, Lister
<1>5. Listed \in SUBSET (CardSet \union TaskIds)
  BY ListedIs DEF ListIn
<1>6. Good(m, told[t], Listed', Overs')
  BY <1>2 DEF Good
<1> HIDE DEF m
<1>7. m = [req |-> out[t][k], res |-> "ok", got |-> Listed]
  BY DEF m
<1> HIDE DEF Listed
<1> QED BY <1>1, <1>2, <1>3, <1>4, <1>5, <1>6, <1>7, AnswerMirrors

LEMMA PostMirrors ==
    ASSUME Odds = {}, IInv, Mirror, NEW t \in Tabs, NEW k \in Due(t), ServePost(t, k)
    PROVE  Mirror'
<1> DEFINE r == out[t][k]
           known == r.card.id \in tombs
<1>1. /\ r.op = "post" /\ cards' = (IF known THEN cards ELSE With(cards, r.card))
      /\ fresh' = (IF ~known THEN OnlyFresh(t)
                   ELSE [fresh EXCEPT ![t] = fresh[t] /\ r.why = "migrate"])
      /\ IF r.why = "migrate"
         THEN Answer(t, k, IF known THEN "refused" ELSE "ok", {}) /\ snap' = snap
         ELSE Replied(t, k, IF known THEN Without(snap[t], r.card.id)
                                     ELSE With(snap[t], r.card)) /\ inbox' = inbox
      /\ tombs' = tombs /\ tasks' = tasks /\ copy' = copy
      /\ jobs' = jobs /\ told' = told /\ load' = load
  BY DEF ServePost, Upserted
<1>2. k = 1 /\ k \in 1 .. Len(out[t]) /\ (fresh[t] => Faithful(jobs[t], snap[t], told[t], out[t],
                                              inbox[t], load[t], Listed, Overs))
  BY DueFirst
<1>3. Overs' = Overs /\ (known => Listed' = Listed)
  BY <1>1, SameListed, SameOvers
<1>4. Heeds(t) /\ (fresh'[t] => fresh[t] /\ (known => r.why = "migrate"))
  BY <1>1, <1>3 DEF OnlyFresh, Mirror, Heeds
<1>5. ~known => \A i : At(Listed', i) = IF i # r.card.id THEN At(Listed, i) ELSE {r.card}
  BY <1>1, ListedWith
<1>6. CASE r.why = "migrate"
  <2>1. Awaited(r) /\ Alone(r)
    BY <1>6 DEF Awaited, Alone, Lister
  <2>2. PICK res \in {"ok", "refused"} : Answer(t, k, res, {}) /\ (res = "refused" => known)
    BY <1>1, <1>6
  <2> DEFINE m == [req |-> out[t][k], res |-> res, got |-> {}]
  <2>3. m.req = r /\ m.res = res /\ m = [req |-> out[t][k], res |-> res, got |-> {}]
    OBVIOUS
  <2> HIDE DEF m
  <2>4. fresh'[t] /\ r.load = load[t] /\ known => Listed' = {}
    BY <1>2, <1>3, <1>4, <1>6 DEF Faithful
  <2> HIDE DEF known
  <2>5. fresh'[t] /\ r.load = load[t] => Good(m, told[t], Listed', Overs')
    BY <1>1, <2>2, <2>3, <2>4 DEF Good
  <2>6. snap' = snap /\ {} \in SUBSET (CardSet \union TaskIds)
    BY <1>1, <1>6
  <2>7. jobs' = jobs /\ told' = told /\ load' = load /\ copy' = copy
    BY <1>1
  <2> QED BY <1>3, <1>4, <2>1, <2>2, <2>3, <2>5, <2>6, <2>7, AnswerMirrors
<1>7. CASE r.why # "migrate"
  <2>1. ~Awaited(r) /\ Written(r) = {r.card} /\ \A i : Writes(r, i) <=> r.card.id = i
    BY <1>1, <1>7 DEF Awaited, Written, Writes
  <2>2. PICK list : Replied(t, k, list) /\ (~known => list = With(snap[t], r.card))
    BY <1>1, <1>7
  <2>3. /\ out' = [out EXCEPT ![t] = RemoveAt(out[t], k)] /\ inbox' = inbox
        /\ snap' = IF out[t][k].load = load[t] THEN [snap EXCEPT ![t] = list] ELSE snap
        /\ jobs' = jobs /\ told' = told /\ load' = load /\ copy' = copy /\ tasks' = tasks
    BY <1>1, <1>7, <2>2 DEF Replied
  <2>4. ~known => \A i : At(list, i) = IF i # r.card.id THEN At(snap[t], i) ELSE {r.card}
    BY <2>2 DEF With, Without, At
  <2>5. fresh'[t] => fresh[t] /\ ~known
    BY <1>4, <1>7
  <2> HIDE DEF known
  <2>6. ~known => After(snap[t], r, list)
    BY <2>1, <2>4 DEF After
  <2>7. ~known => After(Listed, r, Listed')
    BY <1>5, <2>1 DEF After
  <2> QED BY <1>4, <2>1, <2>3, <2>5, <2>6, <2>7, WriteMirrors
<1> QED BY <1>6, <1>7

LEMMA DeleteMirrors ==
    ASSUME Odds = {}, IInv, Mirror, NEW t \in Tabs, NEW k \in Due(t), ServeDelete(t, k)
    PROVE  Mirror'
<1> DEFINE r == out[t][k]
           i == out[t][k].card.id
           list == Without(snap[t], i)
<1>1. /\ r.op = "delete" /\ Replied(t, k, list)
      /\ UNCHANGED <<tasks, copy, jobs, told, load, inbox>>
      /\ \/ cards' = Without(cards, i) /\ tombs' = tombs \union {i} /\ fresh' = OnlyFresh(t)
         \/ i \notin IdsOf(cards) /\ UNCHANGED <<cards, tombs, fresh>>
  BY DEF ServeDelete
<1>2. k \in 1 .. Len(out[t]) /\ Queued(out[t], inbox[t], load[t])
  BY DueFirst
<1>3. ~Awaited(r) /\ Written(r) = {} /\ \A j : Writes(r, j) <=> i = j
  <2>1. r.why # "migrate"
    BY <1>1, <1>2 DEF Queued
  <2> QED BY <1>1, <2>1 DEF Awaited, Written, Writes
<1>4. Heeds(t) /\ (fresh'[t] => fresh[t])
  BY <1>1, SameListed DEF OnlyFresh, Mirror, Heeds
<1>5. \A j : /\ At(list, j) = IF i = j THEN {} ELSE At(snap[t], j)
             /\ At(Listed', j) = IF i = j THEN {} ELSE At(Listed, j)
  BY <1>1, SameListed DEF Without, Listed, At, IdsOf
<1>6. /\ out' = [out EXCEPT ![t] = RemoveAt(out[t], k)] /\ inbox' = inbox
      /\ snap' = IF out[t][k].load = load[t] THEN [snap EXCEPT ![t] = list] ELSE snap
      /\ jobs' = jobs /\ told' = told /\ load' = load /\ copy' = copy /\ tasks' = tasks
  BY <1>1 DEF Replied
<1> HIDE DEF list, i
<1>7. After(snap[t], r, list) /\ After(Listed, r, Listed')
  BY <1>3, <1>5 DEF After
<1> QED BY <1>3, <1>4, <1>6, <1>7, WriteMirrors

LEMMA TornMirrors ==
    ASSUME Odds = {}, IInv, Mirror, NEW t \in Tabs, NEW k \in Due(t), DeleteTorn(t, k)
    PROVE  Mirror'
<1>1. /\ out' = [out EXCEPT ![t] = RemoveAt(out[t], k)] /\ inbox' = inbox
      /\ UNCHANGED <<jobs, snap, told, load, copy, tasks>>
      /\ fresh' = [u \in Tabs |-> FALSE]
  BY DEF DeleteTorn, tab
<1>2. Heeds(t) /\ ~fresh'[t]
  BY <1>1 DEF Heeds
<1> QED BY <1>1, <1>2, DropMirrors

\* The request of a deploy, or of a restart, is not waited for alone.
LEMMA AsksForTask ==
    ASSUME IInv, Mirror, NEW t \in Tabs, NEW k \in 1 .. Len(out[t]),
           out[t][k].op \in {"deploy", "restart"}
    PROVE  Awaited(out[t][k]) /\ ~Alone(out[t][k])
<1>1. Queued(out[t], inbox[t], load[t])
  BY DEF Mirror, MirrorOf
<1>2. out[t][k].why # "migrate"
  BY <1>1 DEF Queued
<1> QED BY <1>2 DEF Awaited, Alone, Lister

\* A new task and its card.
LEMMA TaskMirrors ==
    ASSUME Odds = {}, IInv, Mirror, NEW t \in Tabs, NEW k \in Due(t),
           out[t][k].op \in {"deploy", "restart"}, NEW i \in TaskIds, Answer(t, k, "ok", {i}),
           NEW c, c.id = i, cards' = With(cards, c), tombs' = tombs, copy' = copy,
           jobs' = jobs, snap' = snap, told' = told, load' = load,
           Overs \subseteq Overs', fresh' = OnlyFresh(t)
    PROVE  Mirror'
<1> DEFINE m == [req |-> out[t][k], res |-> "ok", got |-> {i}]
<1>1. Heeds(t) /\ (fresh'[t] => fresh[t])
  BY DEF OnlyFresh, Heeds
<1>2. k \in 1 .. Len(out[t])
  BY DueIs
<1>3. Awaited(out[t][k]) /\ ~Alone(out[t][k])
  BY <1>2, AsksForTask
<1>4. Answering(m)
  BY DEF Answering
<1>5. m = [req |-> out[t][k], res |-> "ok", got |-> {i}]
  OBVIOUS
<1> HIDE DEF m
<1>6. \A x \in Ids : At(Listed', x) = At(Listed, x) \/ (Answering(m) /\ x \in {i})
  BY <1>4, ListedWith
<1>7. {i} \in SUBSET (CardSet \union TaskIds)
  OBVIOUS
<1> QED BY <1>1, <1>3, <1>5, <1>6, <1>7, AnswerMirrors

LEMMA DeployMirrors ==
    ASSUME Odds = {}, IInv, Mirror, NEW t \in Tabs, NEW k \in Due(t), ServeDeploy(t, k)
    PROVE  Mirror'
<1>1. PICK i \in NewTask, s \in {"waiting", "going"} :
         /\ tasks' = [tasks EXCEPT ![i] = Task(s, out[t][k].card.addr, NoId)]
         /\ cards' = With(cards, Card(i, out[t][k].card.addr, "running", NoColor))
         /\ Answer(t, k, "ok", {i})
  BY DEF ServeDeploy, Upserted
<1>2. /\ out[t][k].op = "deploy" /\ fresh' = OnlyFresh(t) /\ tombs' = tombs /\ copy' = copy
      /\ jobs' = jobs /\ snap' = snap /\ told' = told /\ load' = load
  BY DEF ServeDeploy, tab
<1>3. i \in TaskIds /\ tasks[i].state = "none" /\ tasks \in [TaskIds -> TaskSet]
  BY NewTaskIs DEF IInv, Server
<1>4. Overs \subseteq Overs'
  BY <1>1, <1>3 DEF Overs
<1> DEFINE c == Card(i, out[t][k].card.addr, "running", NoColor)
<1>5. c.id = i /\ cards' = With(cards, c)
  BY <1>1 DEF Card
<1> HIDE DEF c
<1> QED BY <1>1, <1>2, <1>3, <1>4, <1>5, TaskMirrors

LEMMA RestartMirrors ==
    ASSUME Odds = {}, IInv, Mirror, NEW t \in Tabs, NEW k \in Due(t), ServeRestart(t, k)
    PROVE  Mirror'
<1> DEFINE i == out[t][k].card.id
<1>1. /\ out[t][k].op = "restart" /\ tombs' = tombs /\ copy' = copy
      /\ jobs' = jobs /\ snap' = snap /\ told' = told /\ load' = load
      /\ tasks \in [TaskIds -> TaskSet] /\ k \in 1 .. Len(out[t])
  BY DueIs DEF ServeRestart, tab, IInv, Server
<1>2. Awaited(out[t][k]) /\ ~Alone(out[t][k])
  BY <1>1, AsksForTask
<1>3. ASSUME NEW res \in {"ok", "refused"}, NEW got \in SUBSET (CardSet \union TaskIds),
             Answer(t, k, res, got), UNCHANGED <<cards, tasks, fresh>>
      PROVE  Mirror'
  <2>1. Listed' = Listed /\ Overs' = Overs
    BY <1>1, <1>3, SameListed, SameOvers
  <2>2. Heeds(t)
    BY <1>3, <2>1 DEF Heeds, Mirror
  <2> DEFINE m == [req |-> out[t][k], res |-> res, got |-> got]
  <2>3. m = [req |-> out[t][k], res |-> res, got |-> got]
    OBVIOUS
  <2> HIDE DEF m
  <2> QED BY <1>1, <1>2, <1>3, <2>1, <2>2, <2>3, AnswerMirrors
<1>4. CASE /\ i \in TaskIds /\ tasks[i].restarted_as # NoId
           /\ Answer(t, k, "ok", {tasks[i].restarted_as}) /\ UNCHANGED <<cards, tasks, fresh>>
  <2>1. tasks[i].restarted_as \in TaskIds
    BY <1>1, <1>4 DEF TaskSet
  <2> HIDE DEF i
  <2> QED BY <1>3, <1>4, <2>1
<1>5. CASE /\ i \in TaskIds /\ tasks[i].state = "waiting" /\ fresh' = OnlyFresh(t)
           /\ \E j \in NewTask :
                 /\ tasks' = [tasks EXCEPT ![i] = Task("over", tasks[i].addr, j),
                                           ![j] = Task("going", tasks[i].addr, NoId)]
                 /\ cards' = Upserted(Card(j, tasks[i].addr, "running", NoColor))
                 /\ Answer(t, k, "ok", {j})
  <2> HIDE DEF i
  <2>1. PICK j \in NewTask :
           /\ tasks' = [tasks EXCEPT ![i] = Task("over", tasks[i].addr, j),
                                     ![j] = Task("going", tasks[i].addr, NoId)]
           /\ cards' = With(cards, Card(j, tasks[i].addr, "running", NoColor))
           /\ Answer(t, k, "ok", {j})
    BY <1>5 DEF Upserted
  <2>2. j \in TaskIds /\ tasks[j].state = "none"
    BY NewTaskIs
  <2>3. Overs \subseteq Overs'
    <3>1. /\ tasks'[i] = Task("over", tasks[i].addr, j)
          /\ \A x \in TaskIds \ {i, j} : tasks'[x] = tasks[x]
      BY <1>1, <1>5, <2>1, <2>2
    <3>2. Task("over", tasks[i].addr, j).state = "over"
      BY DEF Task
    <3> QED BY <2>2, <3>1, <3>2 DEF Overs
  <2> DEFINE c == Card(j, tasks[i].addr, "running", NoColor)
  <2>4. c.id = j /\ cards' = With(cards, c)
    BY <2>1 DEF Card
  <2> HIDE DEF c
  <2> QED BY <1>1, <1>5, <2>1, <2>2, <2>3, <2>4, TaskMirrors
<1>6. CASE Answer(t, k, "refused", {}) /\ UNCHANGED <<cards, tasks, fresh>>
  BY <1>3, <1>6
<1> QED BY <1>4, <1>5, <1>6 DEF ServeRestart

LEMMA SyncMirrors ==
    ASSUME Odds = {}, IInv, Mirror, NEW t \in Tabs, NEW k \in Due(t), ServeSync(t, k)
    PROVE  Mirror'
<1>1. /\ out[t][k].op = "sync" /\ Answer(t, k, "ok", {}) /\ fresh' = OnlyFresh(t)
      /\ jobs' = jobs /\ snap' = snap /\ told' = told /\ load' = load
      /\ copy' = copy /\ tasks' = tasks
  BY DEF ServeSync, tab
<1>2. Overs' = Overs /\ Heeds(t)
  BY <1>1, SameOvers DEF Heeds, OnlyFresh
<1>3. Awaited(out[t][k]) /\ Alone(out[t][k])
  BY <1>1 DEF Awaited, Alone
<1> DEFINE m == [req |-> out[t][k], res |-> "ok", got |-> {}]
<1>4. Good(m, told[t], Listed', Overs')
  BY <1>1 DEF Good
<1>5. m = [req |-> out[t][k], res |-> "ok", got |-> {}]
  OBVIOUS
<1> HIDE DEF m
<1>6. {} \in SUBSET (CardSet \union TaskIds)
  OBVIOUS
<1> QED BY <1>1, <1>2, <1>3, <1>4, <1>5, <1>6, AnswerMirrors

LEMMA FailMirrors ==
    ASSUME Odds = {}, IInv, Mirror, NEW t \in Tabs, NEW k \in Due(t), Fails(t, k)
    PROVE  Mirror'
<1>1. /\ jobs' = jobs /\ snap' = snap /\ told' = told /\ load' = load /\ copy' = copy
      /\ cards' = cards /\ tombs' = tombs /\ tasks' = tasks
      /\ \/ out[t][k].op \in {"deploy", "restart"} /\ fresh' = fresh
         \/ fresh' = [fresh EXCEPT ![t] = FALSE]
      /\ IF Awaited(out[t][k]) THEN Answer(t, k, "failed", {})
         ELSE out' = [out EXCEPT ![t] = RemoveAt(out[t], k)] /\ inbox' = inbox
  BY DEF Fails, server, tab
<1>2. Listed' = Listed /\ Overs' = Overs /\ k \in 1 .. Len(out[t])
  BY <1>1, SameListed, SameOvers, DueIs
<1>3. Heeds(t)
  BY <1>1, <1>2 DEF Heeds, Mirror
<1>4. fresh'[t] => out[t][k].op \in {"deploy", "restart"} /\ fresh' = fresh
  BY <1>1 DEF Mirror
<1>5. CASE Awaited(out[t][k])
  <2>1. fresh'[t] => fresh[t] /\ ~Alone(out[t][k])
    BY <1>2, <1>4, AsksForTask
  <2> DEFINE m == [req |-> out[t][k], res |-> "failed", got |-> {}]
  <2>2. m = [req |-> out[t][k], res |-> "failed", got |-> {}]
    OBVIOUS
  <2> HIDE DEF m
  <2>3. Answer(t, k, "failed", {}) /\ {} \in SUBSET (CardSet \union TaskIds)
    BY <1>1, <1>5
  <2> QED BY <1>1, <1>2, <1>3, <1>5, <2>1, <2>2, <2>3, AnswerMirrors
<1>6. CASE ~Awaited(out[t][k])
  <2>1. ~fresh'[t]
    BY <1>2, <1>4, <1>6, AsksForTask
  <2> QED BY <1>1, <1>3, <1>6, <2>1, DropMirrors
<1> QED BY <1>5, <1>6

LEMMA GatewayMirrors ==
    ASSUME Odds = {}, IInv, Mirror, NEW t \in Tabs, NEW k \in Due(t), Gateway(t, k)
    PROVE  Mirror'
BY GetMirrors, PostMirrors, DeleteMirrors, TornMirrors, DeployMirrors, RestartMirrors,
   SyncMirrors, FailMirrors DEF Gateway

-----------------------------------------------------------------------------
(* The deploys, and the page                                                *)

\* A step of no page; tasks do not start anew.
LEMMA MirrorAll ==
    ASSUME Mirror, UNCHANGED <<jobs, snap, told, out, inbox, load>>, DOMAIN fresh' = Tabs,
           copy' # NoCopy => copy'.task \in Overs',
           \A u \in Tabs : fresh'[u] =>
              Faithful(jobs[u], snap[u], told[u], out[u], inbox[u], load[u], Listed', Overs')
    PROVE  Mirror'
  BY DEF Mirror, MirrorOf

LEMMA VerdictMirrors ==
    ASSUME Odds = {}, IInv, Mirror, VerdictWritten
    PROVE  Mirror'
<1> DEFINE x == copy.task
           V(c) == IF c.id = x THEN [c EXCEPT !.status = "done"] ELSE c
           list2 == {V(c) : c \in Listed}
<1>1. /\ copy # NoCopy /\ copy' = NoCopy /\ tasks' = tasks /\ tombs' = tombs
      /\ cards' = {V(c) : c \in copy.cards}
      /\ UNCHANGED <<jobs, snap, told, out, inbox, load>>
      /\ fresh' = [u \in Tabs |-> fresh[u] /\ cards = copy.cards /\ Hears(u, x)]
  BY DEF VerdictWritten, tab
<1>2. x \in Overs /\ Overs' = Overs
  BY <1>1, SameOvers DEF Mirror
<1>3. cards = copy.cards => Listed' = list2
  <2>1. \A c \in cards : V(c).id = c.id
    BY CardIs DEF IInv, Server, ListIn, Statuses
  <2>2. Listed' = {d \in cards' : d.id \notin tombs}
    BY <1>1 DEF Listed
  <2> HIDE DEF V
  <2> QED BY <1>1, <2>1, <2>2 DEF Listed
<1> HIDE DEF list2
<1>4. ASSUME NEW u \in Tabs, fresh'[u]
      PROVE  Faithful(jobs[u], snap[u], told[u], out[u], inbox[u], load[u], Listed', Overs')
  <2>1. fresh[u] /\ Hears(u, x) /\ Listed' = list2
    BY <1>1, <1>3, <1>4
  <2>2. Faithful(jobs[u], snap[u], told[u], out[u], inbox[u], load[u], Listed, Overs)
    BY <2>1 DEF Mirror, MirrorOf
  <2>3. \/ x \notin told[u]
        \/ /\ \A k \in 1 .. Len(inbox[u]) : ~Lister(inbox[u][k].req)
           /\ \E c \in jobs[u] : c.id = x /\ c.status = "done"
    BY <2>1, OpenIs DEF Hears
  <2>4. ListIn(jobs[u], Issued) /\ ListIn(Listed, Issued)
    BY PageIs, ListedIs
  <2>5. list2 = {IF c.id = x THEN [c EXCEPT !.status = "done"] ELSE c : c \in Listed}
    BY DEF list2
  <2> HIDE DEF x
  <2>6. Faithful(jobs[u], snap[u], told[u], out[u], inbox[u], load[u], list2, Overs)
    BY <1>2, <2>2, <2>3, <2>4, <2>5, FaithVerdict
  <2> QED BY <1>2, <2>1, <2>6
<1>5. DOMAIN fresh' = Tabs
  BY <1>1
<1> QED BY <1>1, <1>4, <1>5, MirrorAll

LEMMA DeploysMirror ==
    ASSUME Odds = {}, IInv, Mirror, Deploys
    PROVE  Mirror'
<1>1. ASSUME NEW i \in TaskIds, EnsureCard(i)
      PROVE  Mirror'
  <2>1. /\ fresh' = [u \in Tabs |-> FALSE] /\ copy' = copy /\ tasks' = tasks
        /\ UNCHANGED <<jobs, snap, told, out, inbox, load>>
    BY <1>1 DEF EnsureCard, tab
  <2>2. (copy' # NoCopy => copy'.task \in Overs') /\ \A u \in Tabs : ~fresh'[u]
    BY <2>1, SameOvers DEF Mirror
  <2> QED BY <2>1, <2>2, MirrorAll
<1>2. ASSUME NEW i \in TaskIds, Ends(i)
      PROVE  Mirror'
  <2>1. /\ fresh' = fresh /\ cards' = cards /\ tombs' = tombs
        /\ tasks' = [tasks EXCEPT ![i].state = "over"]
        /\ copy' = NoCopy \/ copy' = [task |-> i, cards |-> cards]
        /\ UNCHANGED <<jobs, snap, told, out, inbox, load>>
    BY <1>2 DEF Ends, tab
  <2>2. i \in Overs' /\ Overs \subseteq Overs'
    <3>1. tasks \in [TaskIds -> TaskSet]
      BY DEF IInv, Server
    <3>2. tasks'[i].state = "over" /\ \A j \in TaskIds \ {i} : tasks'[j] = tasks[j]
      BY <2>1, <3>1 DEF TaskSet
    <3> QED BY <3>2 DEF Overs
  <2>3. \A u \in Tabs : fresh'[u] =>
           Faithful(jobs[u], snap[u], told[u], out[u], inbox[u], load[u], Listed', Overs')
    BY <2>1, <2>2, SameListed, FaithOver DEF Mirror, MirrorOf
  <2>4. DOMAIN fresh' = Tabs
    BY <2>1 DEF Mirror
  <2> QED BY <2>1, <2>2, <2>3, <2>4, MirrorAll
<1> QED BY <1>1, <1>2, VerdictMirrors DEF Deploys

-----------------------------------------------------------------------------
(* A page takes a reply                                                     *)

\* What a page's own step leaves alone.
LEMMA PageMirrors ==
    ASSUME IInv, Mirror, NEW t \in Tabs, UNCHANGED server, fresh' = fresh,
           NEW js, Only(jobs, jobs', t, js), NEW sn, Only(snap, snap', t, sn),
           NEW td, Only(told, told', t, td), NEW o, Only(out, out', t, o),
           NEW b, Only(inbox, inbox', t, b), NEW n, Only(load, load', t, n),
           Queued(o, b, n), fresh[t] => Faithful(js, sn, td, o, b, n, Listed, Overs)
    PROVE  Mirror'
<1>1. Listed' = Listed /\ Overs' = Overs /\ copy' = copy
  BY SameListed, SameOvers DEF server
<1>2. Heeds(t)
  BY <1>1 DEF Heeds, Mirror
<1>3. /\ jobs'[t] = js /\ snap'[t] = sn /\ told'[t] = td /\ out'[t] = o /\ inbox'[t] = b
      /\ load'[t] = n /\ Others(t)
  BY DEF Only, Others
<1> QED BY <1>1, <1>2, <1>3, MirrorTab

\* The reply m is the first in the inbox; c are the others.
LEMMA Taken ==
    ASSUME IInv, Mirror, NEW t \in Tabs, inbox[t] # <<>>
    PROVE  LET m == Head(inbox[t])
               c == Tail(inbox[t])
           IN /\ m = inbox[t][1] /\ 1 \in 1 .. Len(inbox[t]) /\ Shorter(inbox[t], c)
              /\ Len(inbox[t]) = 1 => c = <<>>
              /\ Queued(out[t], inbox[t], load[t]) /\ Queued(out[t], c, load[t])
              /\ Awaited(m.req)
              /\ Alone(m.req) => c = <<>> /\ \A k \in 1 .. Len(out[t]) : ~Awaited(out[t][k])
              /\ Lister(m.req) => out[t] = <<>>
              /\ fresh[t] => Faithful(jobs[t], snap[t], told[t], out[t], inbox[t], load[t],
                                      Listed, Overs)
              /\ fresh[t] /\ Alone(m.req) => Good(m, told[t], Listed, Overs)
              /\ out[t] \in Seq(RequestSet) /\ load[t] \in Nat
              /\ inbox' = [inbox EXCEPT ![t] = Tail(inbox[t])] => Only(inbox, inbox', t, c)
<1>1. inbox[t] \in Seq(MessageSet) /\ out[t] \in Seq(RequestSet)
  BY TabParts DEF WireIn
<1> DEFINE b == inbox[t]
           c == Tail(inbox[t])
<1>2. Shorter(b, c) /\ Head(b) = b[1] /\ (Len(b) = 1 => c = <<>>)
  BY <1>1, TailShorter
<1>3. /\ Queued(out[t], b, load[t])
      /\ fresh[t] => Faithful(jobs[t], snap[t], told[t], out[t], b, load[t], Listed, Overs)
  BY DEF Mirror, MirrorOf
<1>4. 1 \in 1 .. Len(b)
  BY <1>2 DEF Shorter
<1>5. inbox' = [inbox EXCEPT ![t] = Tail(inbox[t])] => Only(inbox, inbox', t, c)
  BY OnlyIs, PageIs
<1> HIDE DEF b, c
<1>6. b # <<>> /\ load[t] \in Nat
  BY DEF b, IInv, Shaped
<1>7. /\ Awaited(b[1].req) /\ (Lister(b[1].req) => out[t] = <<>>)
      /\ Alone(b[1].req) => Len(b) = 1 /\ \A k \in 1 .. Len(out[t]) : ~Awaited(out[t][k])
  BY <1>3, <1>4 DEF Queued
<1>8. Queued(out[t], c, load[t])
  BY <1>2, <1>3, <1>6, QueuedTaken
<1>9. fresh[t] /\ Alone(b[1].req) => Good(b[1], told[t], Listed, Overs)
  BY <1>3, <1>4 DEF Faithful
<1> QED BY <1>1, <1>2, <1>3, <1>4, <1>5, <1>6, <1>7, <1>8, <1>9 DEF b, c

\* What is not changed.
LEMMA OnlySame ==
    ASSUME IInv, NEW t \in Tabs
    PROVE  /\ jobs' = jobs => Only(jobs, jobs', t, jobs[t])
           /\ snap' = snap => Only(snap, snap', t, snap[t])
           /\ told' = told => Only(told, told', t, told[t])
           /\ out' = out => Only(out, out', t, out[t])
           /\ inbox' = inbox => Only(inbox, inbox', t, inbox[t])
           /\ load' = load => Only(load, load', t, load[t])
<1>1. DOMAIN load = Tabs
  BY DEF IInv, Shaped
<1> QED BY <1>1, OnlyIs, PageIs

\* One request, and the page waits for its reply.
LEMMA SentOne ==
    ASSUME IInv, NEW t \in Tabs, NEW r \in RequestSet,
           out' = [out EXCEPT ![t] = Append(out[t], r)]
    PROVE  /\ Only(out, out', t, Append(out[t], r)) /\ Longer(out[t], <<r>>, Append(out[t], r))
           /\ Len(<<r>>) = 1 /\ <<r>>[1] = r /\ \A k \in 1 .. Len(<<r>>) : <<r>>[k] = r
<1>1. out[t] \in Seq(RequestSet) /\ DOMAIN out = Tabs
  BY TabParts, PageIs DEF WireIn
<1> QED BY <1>1, AppendLonger, OnlyIs

\* The list shown is the server's.
LEMMA ShowMirrors ==
    ASSUME IInv, Mirror, NEW t \in Tabs, UNCHANGED server, fresh' = fresh,
           UNCHANGED <<out, load>>, inbox[t] # <<>>,
           inbox' = [inbox EXCEPT ![t] = Tail(inbox[t])], Lister(Head(inbox[t]).req),
           NEW list, Shows(t, list),
           fresh[t] => \A i \in Ids : \/ At(list, i) = At(Listed, i)
                                      \/ i \in IdsOf(list) /\ i \in Overs /\ i \notin told[t]
    PROVE  Mirror'
<1> DEFINE td == told[t] \cap IdsOf(list)
           o == <<>>
           b == <<>>
<1>1. /\ out[t] = <<>> /\ Tail(inbox[t]) = <<>> /\ Queued(out[t], Tail(inbox[t]), load[t])
      /\ Only(inbox, inbox', t, Tail(inbox[t]))
  BY Taken, AwaitedAlone
<1>2. /\ Only(jobs, jobs', t, list) /\ Only(snap, snap', t, list) /\ Only(told, told', t, td)
      /\ Only(out, out', t, out[t]) /\ Only(load, load', t, load[t])
  <2>1. Only(out, out', t, out[t]) /\ Only(load, load', t, load[t])
    BY OnlySame
  <2> QED BY <2>1, OnlyIs, PageIs DEF Shows
<1>3. fresh[t] => Faithful(list, list, td, <<>>, <<>>, load[t], Listed, Overs)
  BY FaithShown
<1> HIDE DEF td
<1> QED BY <1>1, <1>2, <1>3, PageMirrors

LEMMA GotListMirrors ==
    ASSUME IInv, Mirror, NEW t \in Tabs, GotList(t)
    PROVE  Mirror'
<1> DEFINE m == Head(inbox[t])
           first == m.got = {} /\ ~migrated[t] /\ cached
<1>1. /\ inbox[t] # <<>> /\ m.req.op \in {"get", "reget"}
      /\ inbox' = [inbox EXCEPT ![t] = Tail(inbox[t])]
      /\ UNCHANGED server /\ load' = load /\ fresh' = fresh
      /\ IF first
         THEN /\ \E c \in LegacyCards :
                    out' = [out EXCEPT ![t] = Append(out[t], Req(t, "post", c, "migrate"))]
              /\ jobs' = jobs /\ snap' = snap /\ told' = told
         ELSE Shows(t, m.got) /\ out' = out
  BY DEF GotList, Gets, Sends
<1>2. Lister(m.req) /\ Alone(m.req)
  BY <1>1 DEF Lister, Alone
<1>3. /\ out[t] = <<>> /\ Queued(out[t], inbox[t], load[t]) /\ load[t] \in Nat
      /\ Only(inbox, inbox', t, <<>>)
      /\ fresh[t] => Good(m, told[t], Listed, Overs)
  BY <1>1, <1>2, Taken
<1> HIDE DEF m
<1>4. fresh[t] => \A i \in Ids : \/ At(m.got, i) = At(Listed, i)
                                 \/ i \in IdsOf(m.got) /\ i \in Overs /\ i \notin told[t]
  BY <1>1, <1>3 DEF Good
<1>5. CASE ~first
  BY <1>1, <1>2, <1>4, <1>5, ShowMirrors DEF m
<1>6. CASE first
  <2>1. PICK c \in LegacyCards :
           out' = [out EXCEPT ![t] = Append(out[t], Req(t, "post", c, "migrate"))]
    BY <1>1, <1>6
  <2> DEFINE r == Req(t, "post", c, "migrate")
  <2>2. r \in RequestSet
    <3>1. c \in CardParts
      BY IssuedIds, LegacyList DEF ListIn, CardParts
    <3> QED BY <3>1, ReqTyped DEF IInv, Ops
  <2>3. r.op = "post" /\ r.why = "migrate" /\ r.load = load[t]
    BY DEF Req
  <2>4. out' = [out EXCEPT ![t] = Append(out[t], r)]
    BY <2>1
  <2> HIDE DEF r
  <2>5. /\ Only(out, out', t, Append(out[t], r)) /\ Longer(out[t], <<r>>, Append(out[t], r))
        /\ Len(<<r>>) = 1 /\ <<r>>[1] = r
    BY <2>2, <2>4, SentOne
  <2> DEFINE s == <<r>>
             q == Append(out[t], r)
  <2>6. q = s
    BY <1>3
  <2> HIDE DEF s, q
  <2>7. Longer(out[t], s, q) /\ Len(s) = 1 /\ s[1] = r /\ Only(out, out', t, q)
    BY <2>5 DEF s, q
  <2>8. Queued(q, <<>>, load[t])
    <3>1. \A k \in 1 .. Len(out[t]) : ~Awaited(out[t][k])
      BY <1>1, <1>2, Taken DEF m
    <3> QED BY <1>3, <2>3, <2>7, <3>1, QueuedNext DEF Lister
  <2>9. ASSUME fresh[t]
        PROVE  Faithful(jobs[t], snap[t], told[t], q, <<>>, load[t], Listed, Overs)
    <3>1. Listed = {}
      <4>1. \A i \in Ids : At(Listed, i) = {}
        BY <1>4, <1>6, <2>9 DEF At, IdsOf
      <4> QED BY <4>1, ListedIs DEF At, IdsOf
    <3>2. Faithful(jobs[t], snap[t], told[t], s, <<>>, load[t], {}, Overs)
      BY <2>3, <2>7, FaithUploads
    <3> QED BY <2>6, <3>1, <3>2
  <2> QED BY <1>1, <1>3, <1>6, <2>7, <2>8, <2>9, OnlySame, PageMirrors
<1> QED BY <1>5, <1>6

\* A request for the list, or one that leads to it, is the next.
LEMMA AsksForList ==
    ASSUME IInv, Mirror, NEW t \in Tabs, UNCHANGED server, fresh' = fresh,
           UNCHANGED <<jobs, snap, told, load>>,
           \/ inbox' = inbox /\ inbox[t] = <<>>
           \/ /\ inbox[t] # <<>> /\ inbox' = [inbox EXCEPT ![t] = Tail(inbox[t])]
              /\ Alone(Head(inbox[t]).req),
           \A k \in 1 .. Len(out[t]) : ~Awaited(out[t][k]),
           NEW r \in RequestSet, r.load = load[t], r.op \in {"get", "reget", "sync"},
           r.why # "migrate", out' = [out EXCEPT ![t] = Append(out[t], r)]
    PROVE  Mirror'
<1> DEFINE q == Append(out[t], r)
           s == <<r>>
<1>1. /\ Only(out, out', t, q) /\ Longer(out[t], s, q) /\ Len(s) = 1 /\ s[1] = r
  BY SentOne
<1> HIDE DEF q, s
<1>2. Queued(out[t], inbox[t], load[t]) /\ load[t] \in Nat
  BY DEF Mirror, MirrorOf, IInv, Shaped
<1>3. Only(inbox, inbox', t, <<>>)
  BY Taken, OnlySame
<1>4. Queued(q, <<>>, load[t])
  BY <1>1, <1>2, QueuedNext DEF Lister
<1>5. Faithful(jobs[t], snap[t], told[t], q, <<>>, load[t], Listed, Overs)
  <2>1. Len(out[t]) + 1 \in 1 .. Len(q) /\ q[Len(out[t]) + 1] = r
    <3>1. 1 \in 1 .. Len(s)
      BY <1>1
    <3> QED BY <1>1, <3>1 DEF Longer
  <2> QED BY <1>4, <2>1, FaithLoading
<1> QED BY <1>1, <1>3, <1>4, <1>5, OnlySame, PageMirrors

LEMMA ListRequest ==
    ASSUME IInv, NEW t \in Tabs, NEW op \in {"get", "reget", "sync"}
    PROVE  LET r == Req(t, op, NoCard, "plain") IN
           /\ r \in RequestSet /\ r.load = load[t] /\ r.op = op /\ r.why # "migrate"
<1>1. op \in Ops
  BY DEF Ops
<1>2. Shaped /\ "plain" \in {"plain", "migrate"}
  BY DEF IInv
<1>3. Req(t, op, NoCard, "plain") \in RequestSet
  BY <1>1, <1>2, CardPartsAre, ReqTyped
<1>4. /\ Req(t, op, NoCard, "plain").load = load[t] /\ Req(t, op, NoCard, "plain").op = op
      /\ Req(t, op, NoCard, "plain").why = "plain"
  BY DEF Req
<1>5. Req(t, op, NoCard, "plain").why # "migrate"
  BY <1>4
<1> QED BY <1>3, <1>4, <1>5

LEMMA GotMigratedMirrors ==
    ASSUME IInv, Mirror, NEW t \in Tabs, GotMigrated(t)
    PROVE  Mirror'
<1> DEFINE m == Head(inbox[t])
           r == Req(t, "reget", NoCard, "plain")
<1>1. /\ inbox[t] # <<>> /\ m.req.op = "post"
      /\ inbox' = [inbox EXCEPT ![t] = Tail(inbox[t])]
      /\ UNCHANGED server /\ load' = load /\ fresh' = fresh
      /\ \/ /\ m.res = "ok" /\ out' = [out EXCEPT ![t] = Append(out[t], r)]
            /\ jobs' = jobs /\ snap' = snap /\ told' = told
         \/ m.res \in {"refused", "failed"} /\ Shows(t, {}) /\ out' = out
  BY DEF GotMigrated, Gets, Sends
<1>2. Lister(m.req) /\ Alone(m.req)
  <2>1. Awaited(m.req)
    BY <1>1, Taken
  <2> QED BY <1>1, <2>1 DEF Lister, Alone, Awaited
<1>3. CASE m.res = "ok"
  <2>1. r \in RequestSet /\ r.load = load[t] /\ r.op = "reget" /\ r.why # "migrate"
    BY ListRequest
  <2> HIDE DEF r
  <2>2. \A k \in 1 .. Len(out[t]) : ~Awaited(out[t][k])
    BY <1>1, <1>2, Taken
  <2>3. /\ out' = [out EXCEPT ![t] = Append(out[t], r)]
        /\ jobs' = jobs /\ snap' = snap /\ told' = told
    BY <1>1, <1>3
  <2> QED BY <1>1, <1>2, <2>1, <2>2, <2>3, AsksForList
<1>4. CASE m.res \in {"refused", "failed"}
  <2>1. Shows(t, {}) /\ out' = out
    BY <1>1, <1>4
  <2>2. fresh[t] => Good(m, told[t], Listed, Overs)
    BY <1>1, <1>2, Taken
  <2>3. fresh[t] => Listed = {}
    BY <1>4, <2>2 DEF Good
  <2>4. fresh[t] => \A i \in Ids : At({}, i) = At(Listed, i)
    BY <2>3
  <2> HIDE DEF Listed
  <2> QED BY <1>1, <1>2, <2>1, <2>4, ShowMirrors
<1> QED BY <1>1, <1>3, <1>4

LEMMA GotSyncMirrors ==
    ASSUME IInv, Mirror, NEW t \in Tabs, GotSync(t)
    PROVE  Mirror'
<1> DEFINE m == Head(inbox[t])
           r == Req(t, "get", NoCard, "plain")
<1>1. /\ inbox[t] # <<>> /\ m.req.op = "sync"
      /\ inbox' = [inbox EXCEPT ![t] = Tail(inbox[t])]
      /\ UNCHANGED server /\ load' = load /\ fresh' = fresh
      /\ jobs' = jobs /\ snap' = snap /\ told' = told
      /\ out' = [out EXCEPT ![t] = out[t] \o IF Refreshing(t) THEN <<>> ELSE <<r>>]
  BY DEF GotSync, Gets, tab
<1>2. Alone(m.req)
  BY <1>1 DEF Alone
<1>3. /\ \A k \in 1 .. Len(out[t]) : ~Awaited(out[t][k])
      /\ Tail(inbox[t]) = <<>> /\ Shorter(inbox[t], Tail(inbox[t]))
      /\ m = inbox[t][1] /\ out[t] \in Seq(RequestSet) /\ Awaited(m.req)
      /\ Queued(out[t], inbox[t], load[t]) /\ 1 \in 1 .. Len(inbox[t])
  BY <1>1, <1>2, Taken
<1>4. ~Refreshing(t)
  <2>1. m.req.why # "migrate"
    BY <1>1, <1>3 DEF Queued
  <2>2. \A k \in 1 .. Len(inbox[t]) : inbox[t][k] = m
    <3>1. \A k \in 1 .. Len(inbox[t]) : k = 1
      <4>1. Shorter(inbox[t], <<>>) /\ Len(<<>>) = 0
        BY <1>3
      <4>2. Len(inbox[t]) = 1
        BY <4>1 DEF Shorter
      <4> QED BY <4>2
    <3> QED BY <1>3, <3>1
  <2>3. ~Lister(m.req) /\ \A k \in 1 .. Len(out[t]) : ~Lister(out[t][k])
    BY <1>1, <1>3, <2>1, AwaitedAlone DEF Lister
  <2> QED BY <2>2, <2>3, OpenIs
<1>5. r \in RequestSet /\ r.load = load[t] /\ r.op = "get" /\ r.why # "migrate"
  BY ListRequest
<1> HIDE DEF r
<1>6. out' = [out EXCEPT ![t] = Append(out[t], r)]
  <2>1. Append(out[t], r) = out[t] \o <<r>>
    BY <1>3, <1>5, Appends
  <2>2. out' = [out EXCEPT ![t] = out[t] \o <<r>>]
    BY <1>1, <1>4
  <2> QED BY <2>1, <2>2
<1> QED BY <1>1, <1>2, <1>3, <1>5, <1>6, AsksForList

-----------------------------------------------------------------------------
(* A page changes its list                                                  *)

LEMMA CommitMirrors ==
    ASSUME IInv, IInv', Mirror, NEW t \in Tabs, UNCHANGED server, fresh' = fresh, load' = load,
           NEW c, Only(inbox, inbox', t, c), Queued(out[t], c, load[t]),
           Coming(c) \subseteq Coming(inbox[t]),
           Loading(out[t], inbox[t], load[t]) => c = inbox[t],
           Loading(out[t], c, load[t]) => Loading(out[t], inbox[t], load[t]),
           \A k \in 1 .. Len(out[t]) : out[t][k].load = load[t] => ~Lister(out[t][k]),
           \A k \in 1 .. Len(c) : ~Lister(c[k].req),
           NEW next, NEW touched, Commit(t, next, touched),
           NEW td, Only(told, told', t, td),
           Changes(jobs[t], next, touched, told[t], td, inbox[t], c)
    PROVE  Mirror'
<1> DEFINE o == out[t]
           b == inbox[t]
           n == load[t]
           js == jobs[t]
           d == Diff(t, next, touched)
           q == o \o d
<1>1. /\ Only(jobs, jobs', t, next) /\ Only(snap, snap', t, next) /\ Only(out, out', t, q)
      /\ Only(load, load', t, n)
  <2>1. Only(load, load', t, n)
    BY OnlySame
  <2>2. Only(jobs, jobs', t, next) /\ Only(snap, snap', t, next)
    BY OnlyIs, PageIs DEF Commit
  <2>3. out' = [out EXCEPT ![t] = q] /\ DOMAIN out = Tabs
    BY PageIs DEF Commit
  <2> HIDE DEF q
  <2>4. Only(out, out', t, q)
    BY <2>3, OnlyIs
  <2> QED BY <2>1, <2>2, <2>4
<1>2. ListIn(next, Issued)
  <2>1. Issued' = Issued
    BY SameTasks DEF server
  <2>2. ListIn(jobs'[t], Issued')
    BY DEF IInv, TabIn, PageIn
  <2>3. jobs'[t] = next
    BY <1>1 DEF Only
  <2> QED BY <2>1, <2>2, <2>3
<1>3. d \in Seq(RequestSet) /\ Writing(d, js, next, touched, n) /\ o \in Seq(RequestSet)
  <2>1. Shaped /\ Issued \subseteq Ids /\ ListIn(jobs[t], Issued)
    BY IssuedIds, TabParts DEF PageIn
  <2>2. Difference(d, jobs[t], next, touched, load[t])
    BY <1>2, <2>1, DiffIs
  <2>3. Writing(d, js, next, touched, n)
    BY <1>2, DiffWrites
  <2> HIDE DEF d
  <2> QED BY <2>2, <2>3, TabParts DEF Difference, WireIn
<1>4. /\ n \in Nat
      /\ fresh[t] => Faithful(js, snap[t], told[t], o, b, n, Listed, Overs)
  BY DEF Mirror, MirrorOf, IInv, Shaped
<1> HIDE DEF d
<1>5. Longer(o, d, q)
  BY <1>3, LongerIs
<1> HIDE DEF q, o, b, n, js
<1>6. Queued(o, c, n) /\ \A k \in 1 .. Len(o) : o[k].load = n => ~Lister(o[k])
  BY DEF o, n
<1>7. \A k \in 1 .. Len(d) : /\ d[k].load = n /\ ~Alone(d[k])
                             /\ d[k].why # "migrate" /\ ~Awaited(d[k])
  BY <1>3 DEF Writing, Alone, Lister, Awaited
<1>8. Queued(q, c, n)
  BY <1>4, <1>5, <1>6, <1>7, QueuedMore
<1>9. ASSUME fresh[t]
      PROVE  Faithful(next, next, td, q, c, n, Listed, Overs)
  <2>1. Faithful(js, snap[t], told[t], o, b, n, Listed, Overs)
    BY <1>4, <1>9
  <2>2. /\ Coming(c) \subseteq Coming(b)
        /\ Loading(o, b, n) => c = b
        /\ Loading(o, c, n) => Loading(o, b, n)
        /\ \A k \in 1 .. Len(c) : ~Lister(c[k].req)
    BY DEF o, b, n
  <2>3. Changes(js, next, touched, told[t], td, b, c)
    BY DEF js, b
  <2> QED BY <1>3, <1>5, <1>6, <2>1, <2>2, <2>3, FaithCommit
<1> QED BY <1>1, <1>8, <1>9, PageMirrors

\* Cards leave the list, all those with an id, and one comes.
Replaces(js, rest, c, next) ==
    /\ rest \subseteq js /\ \A x \in js \ rest : x.id \notin IdsOf(rest)
    /\ next = rest \union {c}

LEMMA CardComes ==
    ASSUME NEW js, NEW rest, NEW d, NEW next, Replaces(js, rest, d, next),
           NEW td, NEW td2, td2 \subseteq td \union {d.id},
           NEW b, NEW c, \A i \in Coming(b) : i \in Coming(c) \/ i = d.id
    PROVE  Changes(js, next, {d.id}, td, td2, b, c)
<1>1. d.id \in IdsOf(next)
  BY DEF IdsOf, Replaces
<1>2. \A i : i # d.id => i \in IdsOf(js) \ IdsOf(next) \/ At(next, i) = At(js, i)
  BY DEF At, IdsOf, Replaces
<1> QED BY <1>1, <1>2 DEF Changes

\* The reply to the request of a deploy, or of a restart.
LEMMA TakenTask ==
    ASSUME IInv, Mirror, NEW t \in Tabs, inbox[t] # <<>>,
           Head(inbox[t]).req.op \in {"deploy", "restart"}
    PROVE  LET m == Head(inbox[t])
               c == Tail(inbox[t])
           IN /\ Coming(c) \subseteq Coming(inbox[t])
              /\ \A i \in Coming(inbox[t]) : i \in Coming(c) \/ (Answering(m) /\ i \in m.got)
              /\ ~Loading(out[t], inbox[t], load[t]) /\ ~Loading(out[t], c, load[t])
              /\ \A k \in 1 .. Len(out[t]) : out[t][k].load = load[t] => ~Lister(out[t][k])
              /\ \A k \in 1 .. Len(c) : ~Lister(c[k].req)
              /\ ~Alone(m.req)
<1> DEFINE m == Head(inbox[t])
           b == inbox[t]
           c == Tail(inbox[t])
<1>1. /\ m = b[1] /\ 1 \in 1 .. Len(b) /\ Shorter(b, c) /\ (Len(b) = 1 => c = <<>>)
      /\ Queued(out[t], b, load[t])
  BY Taken
<1>2. m.req.op \in {"deploy", "restart"} /\ b # <<>>
  OBVIOUS
<1> HIDE DEF m, b, c
<1>3. ~Alone(m.req)
  <2>1. m.req.why # "migrate"
    BY <1>1, <1>2 DEF Queued
  <2> QED BY <1>2, <2>1 DEF Alone, Lister
<1>4. ~Loading(out[t], b, load[t]) /\ ~Loading(out[t], c, load[t])
  BY <1>1, <1>2, <1>3, QueuedTaken
<1>5. /\ \A k \in 1 .. Len(out[t]) : out[t][k].load = load[t] => ~Lister(out[t][k])
      /\ \A k \in 1 .. Len(c) : ~Lister(c[k].req)
  BY <1>4, AwaitedAlone DEF Loading
<1>6. /\ \A k \in 1 .. Len(c) : c[k] = b[k + 1] /\ k + 1 \in 1 .. Len(b)
      /\ \A k \in 1 .. Len(b) : k = 1 \/ (k - 1 \in 1 .. Len(c) /\ b[k] = c[k - 1])
  BY <1>1 DEF Shorter
<1>7. Coming(c) \subseteq Coming(b)
  <2> SUFFICES ASSUME NEW i \in Coming(c) PROVE i \in Coming(b)
    OBVIOUS
  <2>1. PICK k \in 1 .. Len(c) : Answering(c[k]) /\ i \in c[k].got
    BY ComingIs
  <2>2. k + 1 \in 1 .. Len(b) /\ Answering(b[k + 1]) /\ i \in b[k + 1].got
    BY <1>6, <2>1
  <2> QED BY <2>2, ComingIs
<1>8. ASSUME NEW i \in Coming(b), i \notin Coming(c)
      PROVE  Answering(m) /\ i \in m.got
  <2>1. PICK k \in 1 .. Len(b) : Answering(b[k]) /\ i \in b[k].got
    BY <1>8, ComingIs
  <2>2. k = 1
    BY <1>6, <1>8, <2>1, ComingIs
  <2> QED BY <1>1, <2>1, <2>2
<1> QED BY <1>3, <1>4, <1>5, <1>7, <1>8 DEF m, b, c

\* The new card comes, in the place of the others.
LEMMA NewCardMirrors ==
    ASSUME IInv, IInv', Mirror, NEW t \in Tabs, UNCHANGED server, fresh' = fresh, load' = load,
           inbox[t] # <<>>, inbox' = [inbox EXCEPT ![t] = Tail(inbox[t])],
           Head(inbox[t]).req.op \in {"deploy", "restart"}, Head(inbox[t]).res = "ok",
           NEW rest, rest \subseteq jobs[t], \A x \in jobs[t] \ rest : x.id \notin IdsOf(rest),
           NEW d, d.id = CHOOSE i \in Head(inbox[t]).got : TRUE,
           Commit(t, rest \union {d}, {d.id}),
           told' = [told EXCEPT ![t] = told[t] \cap IdsOf(rest)]
    PROVE  Mirror'
<1> DEFINE m == Head(inbox[t])
           b == inbox[t]
           c == Tail(inbox[t])
           next == rest \union {d}
           td == told[t] \cap IdsOf(rest)
<1>1. /\ Only(inbox, inbox', t, c) /\ Queued(out[t], c, load[t])
      /\ Only(told, told', t, td)
  <2>1. DOMAIN told = Tabs /\ told' = [told EXCEPT ![t] = td]
    BY PageIs
  <2> HIDE DEF td
  <2> QED BY <2>1, Taken, OnlyIs
<1>2. /\ Coming(c) \subseteq Coming(b)
      /\ \A i \in Coming(b) : i \in Coming(c) \/ (Answering(m) /\ i \in m.got)
      /\ ~Loading(out[t], b, load[t]) /\ ~Loading(out[t], c, load[t])
      /\ \A k \in 1 .. Len(out[t]) : out[t][k].load = load[t] => ~Lister(out[t][k])
      /\ \A k \in 1 .. Len(c) : ~Lister(c[k].req)
  BY TakenTask
<1>3. m.got = {d.id}
  <2>1. Answers(m, Issued)
    BY HeadIs
  <2>2. \E i \in TaskIds : m.got = {i}
    BY <2>1 DEF Answers
  <2> QED BY <2>2
<1>4. /\ next = rest \union {d} /\ Commit(t, next, {d.id}) /\ td \subseteq told[t]
      /\ Replaces(jobs[t], rest, d, next)
  BY DEF Replaces
<1> HIDE DEF next, m, c, td
<1>5. (\A i \in Coming(b) : i \in Coming(c) \/ i = d.id) /\ td \subseteq told[t] \union {d.id}
  BY <1>2, <1>3, <1>4
<1>6. Changes(jobs[t], next, {d.id}, told[t], td, b, c)
  BY <1>4, <1>5, CardComes
<1> QED BY <1>1, <1>2, <1>4, <1>6, CommitMirrors

LEMMA GotTaskMirrors ==
    ASSUME IInv, IInv', Mirror, NEW t \in Tabs, GotDeploy(t) \/ GotRestart(t)
    PROVE  Mirror'
<1> DEFINE m == Head(inbox[t])
           new == CHOOSE i \in m.got : TRUE
           old == m.req.card.id
<1>1. CASE GotDeploy(t)
  <2> DEFINE d == Card(new, m.req.card.addr, "none", m.req.card.color)
             rest == Without(jobs[t], old)
  <2>1. /\ inbox[t] # <<>> /\ inbox' = [inbox EXCEPT ![t] = Tail(inbox[t])]
        /\ m.req.op = "deploy" /\ m.res = "ok"
        /\ UNCHANGED server /\ fresh' = fresh /\ load' = load
        /\ Commit(t, rest \union {d}, {new})
        /\ told' = [told EXCEPT ![t] = told[t] \cap IdsOf(rest)]
    BY <1>1 DEF GotDeploy, Gets
  <2>2. d.id = new
    BY DEF Card
  <2>3. rest \subseteq jobs[t] /\ \A x \in jobs[t] \ rest : x.id \notin IdsOf(rest)
    BY DEF Without, IdsOf
  <2> HIDE DEF d, rest, old
  <2> QED BY <2>1, <2>2, <2>3, NewCardMirrors
<1>2. CASE GotRestart(t)
  <2> DEFINE d == [m.req.card EXCEPT !.id = new, !.status = "none"]
             rest == Rest(jobs[t], old, new)
  <2>1. /\ inbox[t] # <<>> /\ inbox' = [inbox EXCEPT ![t] = Tail(inbox[t])]
        /\ m.req.op = "restart" /\ m.res = "ok"
        /\ UNCHANGED server /\ fresh' = fresh /\ load' = load
        /\ Commit(t, rest \union {d}, {new})
        /\ told' = [told EXCEPT ![t] = told[t] \cap IdsOf(rest)]
    BY <1>2 DEF GotRestart, Gets
  <2>2. d.id = new
    <3>1. m.req.card \in CardSet
      BY <2>1, HeadIs DEF Valid
    <3> HIDE DEF new, m
    <3> QED BY <3>1 DEF CardSet
  <2>3. rest \subseteq jobs[t] /\ \A x \in jobs[t] \ rest : x.id \notin IdsOf(rest)
    <3> HIDE DEF old, new
    <3> QED BY DEF Rest, IdsOf
  <2> HIDE DEF d, rest, old
  <2> QED BY <2>1, <2>2, <2>3, NewCardMirrors
<1> QED BY <1>1, <1>2

LEMMA GotFailureMirrors ==
    ASSUME IInv, Mirror, NEW t \in Tabs, GotFailure(t)
    PROVE  Mirror'
<1> DEFINE m == Head(inbox[t])
<1>1. /\ inbox[t] # <<>> /\ inbox' = [inbox EXCEPT ![t] = Tail(inbox[t])]
      /\ m.req.op \in {"get", "reget", "deploy", "restart", "sync"}
      /\ m.res \in {"failed", "refused"}
      /\ UNCHANGED server /\ fresh' = fresh /\ load' = load /\ out' = out
      /\ \/ m.req.op = "get" /\ Shows(t, snap[t])
         \/ m.req.op = "reget" /\ Shows(t, LegacyCards)
         \/ m.req.op \notin {"get", "reget"} /\ jobs' = jobs /\ snap' = snap /\ told' = told
  BY DEF GotFailure, Gets
<1>2. m.req.op # "post" /\ (fresh[t] /\ Alone(m.req) => Good(m, told[t], Listed, Overs))
  BY <1>1, Taken
<1>3. fresh[t] => ~Alone(m.req)
  BY <1>1, <1>2 DEF Good
<1> HIDE DEF m
<1>4. CASE m.req.op \in {"get", "reget"}
  <2>1. Lister(m.req)
    BY <1>4 DEF Lister
  <2>2. ~fresh[t]
    BY <1>3, <2>1 DEF Alone
  <2>3. \E list : Shows(t, list)
    BY <1>1, <1>4
  <2> QED BY <1>1, <2>1, <2>2, <2>3, ShowMirrors DEF m
<1>5. CASE m.req.op \notin {"get", "reget"}
  <2> DEFINE b == inbox[t]
             c == Tail(inbox[t])
  <2>1. /\ m = b[1] /\ Shorter(b, c) /\ (Len(b) = 1 => c = <<>>) /\ b # <<>>
        /\ Queued(out[t], b, load[t]) /\ Queued(out[t], c, load[t])
        /\ fresh[t] => Faithful(jobs[t], snap[t], told[t], out[t], b, load[t], Listed, Overs)
        /\ Only(inbox, inbox', t, c)
    BY <1>1, Taken DEF m
  <2> HIDE DEF b, c
  <2>2. ~Answering(m)
    BY <1>1 DEF Answering
  <2>3. fresh[t] => Faithful(jobs[t], snap[t], told[t], out[t], c, load[t], Listed, Overs)
    BY <1>3, <2>1, <2>2, FaithTaken
  <2> QED BY <1>1, <1>5, <2>1, <2>3, OnlySame, PageMirrors
<1> QED BY <1>4, <1>5

LEMMA RepliesMirror ==
    ASSUME IInv, IInv', Mirror, NEW t \in Tabs, Replies(t)
    PROVE  Mirror'
BY GotListMirrors, GotMigratedMirrors, GotTaskMirrors, GotSyncMirrors, GotFailureMirrors
   DEF Replies

-----------------------------------------------------------------------------
(* The user, and frames                                                     *)

LEMMA AskMirrors ==
    ASSUME Odds = {}, IInv, Mirror, NEW t \in Tabs, Acts(t), UNCHANGED server, fresh' = fresh,
           UNCHANGED <<jobs, snap, told, load, inbox>>,
           NEW r \in RequestSet, r.load = load[t], r.op \in {"deploy", "restart"},
           r.why = "plain", out' = [out EXCEPT ![t] = Append(out[t], r)]
    PROVE  Mirror'
<1> DEFINE o == out[t]
           b == inbox[t]
           n == load[t]
           q == Append(out[t], r)
           s == <<r>>
<1>1. /\ Only(out, out', t, q) /\ Longer(o, s, q) /\ \A k \in 1 .. Len(s) : s[k] = r
  BY SentOne
<1>2. /\ \A k \in 1 .. Len(o) : o[k].load = n => ~Lister(o[k])
      /\ \A k \in 1 .. Len(b) : ~Lister(b[k].req)
      /\ ~Loading(o, b, n)
  BY SettledIs DEF Acts
<1>3. /\ Queued(o, b, n) /\ n \in Nat
      /\ fresh[t] => Faithful(jobs[t], snap[t], told[t], o, b, n, Listed, Overs)
  BY DEF Mirror, MirrorOf, IInv, Shaped
<1>4. r.load = n /\ Only(inbox, inbox', t, b) /\ Only(load, load', t, n)
  BY OnlySame
<1> HIDE DEF o, b, n, q, s
<1>5. r.why # "migrate"
  OBVIOUS
<1>6. \A k \in 1 .. Len(s) : /\ s[k].load = n /\ s[k].why # "migrate"
                             /\ Awaited(s[k]) /\ ~Alone(s[k])
  BY <1>1, <1>4, <1>5 DEF Awaited, Alone, Lister
<1>7. Queued(q, b, n)
  BY <1>1, <1>2, <1>3, <1>6, QueuedMore
<1>8. fresh[t] => Faithful(jobs[t], snap[t], told[t], q, b, n, Listed, Overs)
  BY <1>1, <1>2, <1>3, <1>6, FaithSent
<1> QED BY <1>1, <1>4, <1>7, <1>8, OnlySame, PageMirrors

LEMMA ButtonMirrors ==
    ASSUME Odds = {}, IInv, Mirror, NEW t \in Tabs,
           \/ \E a \in Addrs : Add(t, a)
           \/ \E c \in jobs[t] : Retry(t, c) \/ Restart(t, c)
    PROVE  Mirror'
<1>1. PICK op \in {"deploy", "restart"}, c \in CardParts :
         Sends(t, Req(t, op, c, "plain")) /\ Acts(t) /\ fresh' = fresh
         /\ UNCHANGED <<server, tab, inbox>>
  <2>1. ASSUME NEW a \in Addrs, Add(t, a)
        PROVE  /\ Sends(t, Req(t, "deploy", Card(NoId, a, "none", NoColor), "plain"))
               /\ Card(NoId, a, "none", NoColor) \in CardParts
               /\ Acts(t) /\ fresh' = fresh /\ UNCHANGED <<server, tab, inbox>>
    BY <2>1, CardPartsAre DEF Add
  <2>2. ASSUME NEW c \in jobs[t]
        PROVE  c \in CardParts
    BY PageIs, CardPartsAre DEF ListIn
  <2>3. ASSUME NEW c \in jobs[t], Retry(t, c)
        PROVE  /\ Sends(t, Req(t, "deploy", c, "plain")) /\ Acts(t) /\ fresh' = fresh
               /\ UNCHANGED <<server, tab, inbox>>
    BY <2>3 DEF Retry
  <2>4. ASSUME NEW c \in jobs[t], Restart(t, c)
        PROVE  /\ Sends(t, Req(t, "restart", c, "plain")) /\ Acts(t) /\ fresh' = fresh
               /\ UNCHANGED <<server, tab, inbox>>
    BY <2>4 DEF Restart
  <2> QED BY <2>1, <2>2, <2>3, <2>4
<1> DEFINE r == Req(t, op, c, "plain")
<1>2. r \in RequestSet
  <2>1. Shaped /\ op \in Ops /\ "plain" \in {"plain", "migrate"}
    BY DEF IInv, Ops
  <2> QED BY <2>1, ReqTyped
<1>3. r.load = load[t] /\ r.op \in {"deploy", "restart"} /\ r.why = "plain"
  BY DEF Req
<1>4. out' = [out EXCEPT ![t] = Append(out[t], r)]
  BY <1>1 DEF Sends
<1>5. UNCHANGED <<jobs, snap, told, load, inbox>> /\ UNCHANGED server
  BY <1>1 DEF tab
<1> HIDE DEF r
<1> QED BY <1>1, <1>2, <1>3, <1>4, <1>5, AskMirrors

LEMMA SyncSentMirrors ==
    ASSUME Odds = {}, IInv, Mirror, NEW t \in Tabs, Sync(t)
    PROVE  Mirror'
<1> DEFINE r == Req(t, "sync", NoCard, "plain")
<1>1. /\ Open(t) = {} /\ out' = [out EXCEPT ![t] = Append(out[t], r)]
      /\ UNCHANGED server /\ fresh' = fresh /\ inbox' = inbox
      /\ jobs' = jobs /\ snap' = snap /\ told' = told /\ load' = load
  BY DEF Sync, Sends, tab
<1>2. r \in RequestSet /\ r.load = load[t] /\ r.op = "sync" /\ r.why # "migrate"
  BY ListRequest
<1> HIDE DEF r
<1>3. inbox[t] = <<>>
  <2>1. \A k \in 1 .. Len(inbox[t]) : FALSE
    BY <1>1, OpenIs
  <2>2. inbox[t] # <<>> => 1 \in 1 .. Len(inbox[t])
    BY Taken
  <2> QED BY <2>1, <2>2
<1>4. \A k \in 1 .. Len(out[t]) : FALSE
  <2>1. \A k \in 1 .. Len(out[t]) : out[t][k].load # load[t]
    BY <1>1, OpenIs
  <2>2. Queued(out[t], inbox[t], load[t])
    BY DEF Mirror, MirrorOf
  <2> QED BY <2>1, <2>2 DEF Queued
<1> QED BY <1>1, <1>2, <1>3, <1>4, AsksForList

LEMMA ChangeMirrors ==
    ASSUME Odds = {}, IInv, IInv', Mirror, NEW t \in Tabs, Settled(t),
           UNCHANGED server, fresh' = fresh, load' = load, inbox' = inbox,
           NEW next, NEW touched, Commit(t, next, touched),
           NEW td, told' = [told EXCEPT ![t] = td] \/ (told' = told /\ td = told[t]),
           Changes(jobs[t], next, touched, told[t], td, inbox[t], inbox[t])
    PROVE  Mirror'
<1> DEFINE b == inbox[t]
<1>1. Only(told, told', t, td) /\ Only(inbox, inbox', t, b)
  BY OnlySame, OnlyIs, PageIs
<1>2. Queued(out[t], b, load[t])
  BY DEF Mirror, MirrorOf
<1>3. /\ \A k \in 1 .. Len(out[t]) : out[t][k].load = load[t] => ~Lister(out[t][k])
      /\ \A k \in 1 .. Len(b) : ~Lister(b[k].req)
  BY SettledIs
<1>4. Changes(jobs[t], next, touched, told[t], td, inbox[t], b) /\ b = inbox[t]
  OBVIOUS
<1> HIDE DEF b
<1>5. /\ Coming(b) \subseteq Coming(inbox[t])
      /\ Loading(out[t], b, load[t]) => Loading(out[t], inbox[t], load[t])
  BY <1>4
<1> QED BY <1>1, <1>2, <1>3, <1>4, <1>5, CommitMirrors

LEMMA CardMirrors ==
    ASSUME Odds = {}, IInv, IInv', Mirror, NEW t \in Tabs, NEW c \in jobs[t],
           \/ Delete(t, c) \/ Frame(t, c)
           \/ \E col \in Colors \union {NoColor} : Color(t, c, col)
    PROVE  Mirror'
<1>0. c \in CardSet
  BY PageIs DEF ListIn
<1>1. ASSUME NEW d, d.id = c.id, Commit(t, With(jobs[t], d), {c.id}), Settled(t),
             UNCHANGED server, fresh' = fresh, load' = load, inbox' = inbox,
             NEW td, told' = [told EXCEPT ![t] = td] \/ (told' = told /\ td = told[t]),
             td \subseteq told[t] \union {c.id}
      PROVE  Mirror'
  <2> DEFINE rest == Without(jobs[t], c.id)
             next == With(jobs[t], d)
  <2>1. Replaces(jobs[t], rest, d, next)
    BY <1>1 DEF Replaces, With, Without, IdsOf
  <2>2. Commit(t, next, {d.id}) /\ td \subseteq told[t] \union {d.id}
    BY <1>1
  <2> HIDE DEF rest, next
  <2>3. \A i \in Coming(inbox[t]) : i \in Coming(inbox[t]) \/ i = d.id
    OBVIOUS
  <2>4. Changes(jobs[t], next, {d.id}, told[t], td, inbox[t], inbox[t])
    BY <2>1, <2>2, <2>3, CardComes
  <2> QED BY <1>1, <2>2, <2>4, ChangeMirrors
<1>2. CASE Delete(t, c)
  <2> DEFINE next == Without(jobs[t], c.id)
             td == told[t] \ {c.id}
  <2>1. /\ Commit(t, next, {}) /\ told' = [told EXCEPT ![t] = td] /\ Settled(t)
        /\ UNCHANGED server /\ fresh' = fresh /\ load' = load /\ inbox' = inbox
    BY <1>2 DEF Delete, Acts
  <2>2. Changes(jobs[t], next, {}, told[t], td, inbox[t], inbox[t])
    BY DEF Changes, Without, At, IdsOf
  <2> HIDE DEF next, td
  <2> QED BY <2>1, <2>2, ChangeMirrors
<1>3. CASE Frame(t, c)
  <2> DEFINE d == [c EXCEPT !.status = "done"]
             td == told[t] \union {c.id}
  <2>1. /\ Commit(t, With(jobs[t], d), {c.id}) /\ told' = [told EXCEPT ![t] = td]
        /\ Settled(t) /\ UNCHANGED server /\ fresh' = fresh /\ load' = load /\ inbox' = inbox
    BY <1>3 DEF Frame
  <2>2. d.id = c.id
    BY <1>0, CardIs DEF Statuses
  <2>3. td \subseteq told[t] \union {c.id}
    OBVIOUS
  <2> HIDE DEF d, td
  <2> QED BY <1>1, <2>1, <2>2, <2>3
<1>4. ASSUME NEW col \in Colors \union {NoColor}, Color(t, c, col)
      PROVE  Mirror'
  <2> DEFINE d == [c EXCEPT !.color = col]
             td == told[t]
  <2>1. /\ Commit(t, With(jobs[t], d), {c.id}) /\ told' = told /\ Settled(t)
        /\ UNCHANGED server /\ fresh' = fresh /\ load' = load /\ inbox' = inbox
    BY <1>4 DEF Color, Acts
  <2>2. d.id = c.id
    BY <1>0, CardIs DEF AnyColor
  <2>3. td = told[t] /\ td \subseteq told[t] \union {c.id}
    OBVIOUS
  <2> HIDE DEF d, td
  <2> QED BY <1>1, <2>1, <2>2, <2>3
<1> QED BY <1>2, <1>3, <1>4

LEMMA ReloadMirrors ==
    ASSUME IInv, Mirror, NEW t \in Tabs, Reload(t)
    PROVE  Mirror'
<1> DEFINE n == load[t] + 1
           r == [op |-> "get", card |-> NoCard, why |-> "plain", load |-> n]
           s == <<r>>
           q == Append(out[t], r)
           js == {}
           b == <<>>
<1>1. /\ UNCHANGED server /\ fresh' = fresh
      /\ load' = [load EXCEPT ![t] = n]
      /\ jobs' = [jobs EXCEPT ![t] = js] /\ snap' = [snap EXCEPT ![t] = js]
      /\ told' = [told EXCEPT ![t] = js] /\ inbox' = [inbox EXCEPT ![t] = b]
      /\ out' = [out EXCEPT ![t] = Append(out[t], r)]
  BY DEF Reload
<1>2. load \in [Tabs -> Nat] /\ load[t] \in Nat /\ n = load[t] + 1 /\ n \in Nat
  <2>1. load \in [Tabs -> Nat]
    BY PageIs
  <2> QED BY <2>1
<1>3. Queued(out[t], inbox[t], load[t]) /\ out[t] \in Seq(RequestSet)
  BY TabParts DEF Mirror, MirrorOf, WireIn
<1>4. b = <<>>
  OBVIOUS
<1> HIDE DEF js, b, n
<1>5. r \in RequestSet /\ r.op = "get" /\ r.why # "migrate" /\ r.load = n
  BY <1>2, CardPartsAre DEF RequestSet, Ops
<1> HIDE DEF r
<1>6. /\ Only(out, out', t, q) /\ Longer(out[t], s, q) /\ Len(s) = 1 /\ s[1] = r
  BY <1>1, <1>5, SentOne
<1> HIDE DEF s, q
<1>7. \A k \in 1 .. Len(out[t]) : out[t][k].load \in Nat
  BY RequestIs DEF RequestSet
<1>8. Queued(q, b, n)
  BY <1>2, <1>3, <1>4, <1>5, <1>6, <1>7, QueuedReload
<1>9. Faithful(js, js, js, q, b, n, Listed, Overs)
  <2>1. Len(out[t]) + 1 \in 1 .. Len(q) /\ q[Len(out[t]) + 1] = r
    <3>1. 1 \in 1 .. Len(s)
      BY <1>6
    <3> QED BY <1>6, <3>1 DEF Longer
  <2> QED BY <1>5, <1>8, <2>1, FaithLoading
<1>10. /\ Only(jobs, jobs', t, js) /\ Only(snap, snap', t, js) /\ Only(told, told', t, js)
       /\ Only(inbox, inbox', t, b) /\ Only(load, load', t, n)
  <2>1. DOMAIN load = Tabs
    BY <1>2
  <2> QED BY <1>1, <2>1, OnlyIs, PageIs
<1> QED BY <1>1, <1>6, <1>8, <1>9, <1>10, PageMirrors

-----------------------------------------------------------------------------
(* The invariant, and what a page shows                                     *)

LEMMA InitMirror == ASSUME Init PROVE Mirror
<1> DEFINE r == [op |-> "get", card |-> NoCard, why |-> "plain", load |-> 0]
           o == <<r>>
           b == <<>>
<1>1. /\ \A t \in Tabs : out[t] = o /\ inbox[t] = b /\ load[t] = 0 /\ ~fresh[t]
      /\ DOMAIN fresh = Tabs /\ copy = NoCopy
  BY DEF Init
<1>2. Len(o) = 1 /\ Len(b) = 0 /\ \A k \in 1 .. 1 : k = 1 /\ o[k] = r
  OBVIOUS
<1>3. r.load = 0 /\ r.why # "migrate"
  OBVIOUS
<1> HIDE DEF r, o
<1>4. Queued(o, b, 0)
  BY <1>2, <1>3 DEF Queued
<1> QED BY <1>1, <1>4 DEF Mirror, MirrorOf

LEMMA NextMirror ==
    ASSUME Odds = {}, IInv, IInv', Mirror, [Next]_vars
    PROVE  Mirror'
<1>1. ASSUME NEW t \in Tabs, User(t)
      PROVE  Mirror'
  <2>1. CASE \/ \E a \in Addrs : Add(t, a)
             \/ \E c \in jobs[t] : Retry(t, c) \/ Restart(t, c)
    BY <2>1, ButtonMirrors
  <2>2. ASSUME NEW c \in jobs[t], \/ Delete(t, c) \/ Frame(t, c)
                                  \/ \E col \in Colors \union {NoColor} : Color(t, c, col)
        PROVE  Mirror'
    BY <2>2, CardMirrors
  <2> QED BY <1>1, <2>1, <2>2, SyncSentMirrors, ReloadMirrors DEF User
<1>2. CASE UNCHANGED vars
  <2>1. /\ UNCHANGED <<jobs, snap, told, out, inbox, load>> /\ fresh' = fresh
        /\ copy' = copy /\ Listed' = Listed /\ Overs' = Overs
    BY <1>2, SameListed, SameOvers DEF vars, server, tab
  <2> QED BY <2>1, MirrorAll DEF Mirror, MirrorOf
<1> QED BY <1>1, <1>2, GatewayMirrors, DeploysMirror, RepliesMirror DEF Next

LEMMA QuietIs ==
    ASSUME IInv, Mirror, NEW t \in Tabs, fresh[t], Quiet(t)
    PROVE  jobs[t] = Listed /\ snap[t] = Listed
<1> DEFINE o == out[t]
           b == inbox[t]
<1>1. /\ Faithful(jobs[t], snap[t], told[t], o, b, load[t], Listed, Overs)
      /\ o = <<>> /\ b = <<>>
  BY DEF Mirror, MirrorOf, Quiet
<1>2. (\A k \in 1 .. Len(o) : FALSE) /\ (\A k \in 1 .. Len(b) : FALSE)
  BY <1>1
<1> HIDE DEF o, b
<1>3. ~Loading(o, b, load[t]) /\ Coming(b) = {}
  BY <1>2 DEF Loading, Coming
<1>4. Unseen(jobs[t], told[t], Overs) = {}
  BY DEF Quiet, HasVerdict, Unseen, Overs
<1>5. \A i \in Ids : At(snap[t], i) = At(jobs[t], i) /\ At(Listed, i) = At(jobs[t], i)
  BY <1>1, <1>2, <1>3, <1>4 DEF Faithful, Reaches
<1>6. /\ \A c \in jobs[t] \union snap[t] \union Listed : c.id \in Ids
  BY PageIs, ListedIs, IssuedIds DEF ListIn, IdsOf
<1> HIDE DEF Listed
<1>7. ASSUME NEW cs, NEW ds, \A i \in Ids : At(cs, i) = At(ds, i), \A c \in cs : c.id \in Ids
      PROVE  cs \subseteq ds
  <2> SUFFICES ASSUME NEW c \in cs PROVE c \in ds
    OBVIOUS
  <2>1. c \in At(cs, c.id) /\ At(cs, c.id) = At(ds, c.id)
    BY <1>7 DEF At
  <2> QED BY <2>1 DEF At
<1> QED BY <1>5, <1>6, <1>7

\* Shown is exactly what lies in the account: where nothing overtakes another
\* request of the tab, and no list is changed that is waited for, a page that
\* nobody interfered with has, once its requests are answered and the verdicts
\* seen, the server's list, on the page and in its store (syncDiff,
\* refreshJobs, updateJobStatus; upsert_server_job, _jobs_for_response).
THEOREM ShownIsStoredHolds == ASSUME Odds = {} PROVE Spec => []ShownIsStored
<1>1. Init => IInv /\ Mirror
  BY InitInv, InitMirror
<1>2. IInv /\ Mirror /\ [Next]_vars => (IInv /\ Mirror)'
  BY NextInv, NextMirror
<1>3. IInv /\ Mirror => ShownIsStored
  BY QuietIs DEF ShownIsStored
<1> QED BY <1>1, <1>2, <1>3, PTL DEF Spec
=============================================================================
