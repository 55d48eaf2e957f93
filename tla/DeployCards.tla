---------------------------- MODULE DeployCards ----------------------------
(***************************************************************************)
(* The cards of the deploy page: the account's deploy_jobs.json on the     *)
(* server (api/deploy_jobs.py, deploy_jobs_sync.py), the browser tabs that *)
(* show and write it (data/deployJobsStore.ts, DeployDashboard.tsx,        *)
(* DeployCard.tsx) and the processes that run the deploys and write their  *)
(* verdicts into it.                                                       *)
(*                                                                         *)
(* A tab changes its list at once and sends the difference to the server:  *)
(* a DELETE for a card that left the list, a POST of the whole card for    *)
(* one that is new or changed.  The server refuses a card that was deleted *)
(* (a tombstone).  Gateway and deploy-worker are two processes with one    *)
(* file and a lock each.                                                   *)
(*                                                                         *)
(* Odds are conditions under which the code goes wrong; each can be left   *)
(* out to see what holds without it:                                       *)
(*   "early"    a tab changes its list while it waits for the server's     *)
(*   "overtake" requests of a tab reach the server in any order            *)
(***************************************************************************)
EXTENDS Integers, Sequences, FiniteSets, SequencesExt

CONSTANTS
    Tabs,       \* browser tabs
    Addrs,      \* addresses of nodes
    Colors,     \* colours a card can be given
    NoColor,
    NoId,
    Odds,       \* see above
    MaxTasks,   \* bound: deploys
    MaxEvents   \* bound: actions of users, reloads, failures

ASSUME ValueAssumption ==
    /\ NoColor \notin Colors /\ NoId \notin Addrs \union Nat
    /\ Addrs \cap Nat = {} /\ Addrs # {} /\ IsFiniteSet(Addrs)
ASSUME BoundAssumption ==
    MaxTasks \in Nat \ {0} /\ MaxEvents \in Nat

VARIABLES
    cards,   \* the server: deploy_jobs.json,
    tombs,   \*   deploy_jobs_tombstones.json,
    tasks,   \*   and per task id the deploy and what became of it
    copy,    \* the file as the process that writes a verdict has read it
    jobs,    \* per tab: the list on the page,
    snap,    \*   the list of the store (deployJobsStore),
    told,    \*   the cards whose verdict the page has taken note of,
    migrated, \*  whether the old cache has been looked at,
    load,    \*   and how often the tab was reloaded
    cached,  \* the browser still has a list from before the server kept it
    out,     \* requests of a tab on their way, oldest first
    inbox,   \* replies on their way to it
    fresh,   \* history: nobody else changed the server's list since the tab's
             \*   last GET, and no request of the tab failed or was refused
    asked,   \* history: cards whose removal a user asked for
    gone,    \* history: cards the server has deleted and not been asked back
    events   \* counts towards MaxEvents

server == <<cards, tombs, tasks, copy>>
tab == <<jobs, snap, told, migrated, load, cached>>
past == <<asked, gone, events>>
vars == <<server, tab, out, inbox, fresh, past>>

TaskIds == 1 .. MaxTasks
Legacy == 0             \* the card of the old cache
Ids == TaskIds \union {Legacy} \union Addrs  \* an address stands for rw-<uuid>
Statuses == {"none", "running", "done"}  \* done: success or failed

Card(i, a, s, col) == [id |-> i, addr |-> a, status |-> s, color |-> col]
CardSet == [id : Ids, addr : Addrs, status : Statuses,
            color : Colors \union {NoColor}]
LegacyCards == {Card(Legacy, CHOOSE a \in Addrs : TRUE, "done", NoColor)}

NoCopy == [task |-> NoId, cards |-> {}]

Counted == events < MaxEvents /\ events' = events + 1

IdsOf(cs) == {c.id : c \in cs}
Without(cs, i) == {c \in cs : c.id # i}
With(cs, c) == Without(cs, c.id) \union {c}

\* upsert_server_job.
Upserted(c) == With(cards, c)

\* Mutant: GET does not look at the tombstones.
ListedWithGone == cards

\* _jobs_for_response: what GET answers.
Listed == {c \in cards : c.id \notin tombs}

(***************************************************************************)
(* Requests.  A request keeps what the code that waits for its reply has   *)
(* in its closure.                                                         *)
(***************************************************************************)
NoCard == [id |-> NoId]
Req(t, op, c, why) == [op |-> op, card |-> c, why |-> why, load |-> load[t]]

\* The requests of this page that have not been answered to it.
Open(t) == {r \in Range(out[t]) : r.load = load[t]}
               \union {m.req : m \in Range(inbox[t])}

\* refreshJobs is under way (inFlight).
Refreshing(t) ==
    \E r \in Open(t) : r.op \in {"get", "reget"} \/ r.why = "migrate"

\* Mutant: by object identity (the "29->1 data-loss bug" of the comment).
RemovedByIdentity(prev, next, touched) == IdsOf(prev) \ (IdsOf(next) \ touched)

\* syncDiff: DELETE for what left the list, by id; POST for what is a new
\* object (touched), whether its fields differ or not.
Removed(prev, next, touched) == IdsOf(prev) \ IdsOf(next)

Diff(t, next, touched) ==
    SetToSeq({Req(t, "delete", [id |-> i], "plain") :
                  i \in Removed(jobs[t], next, touched)})
    \o SetToSeq({Req(t, "post", c, "plain") : c \in {d \in next : d.id \in touched}})

\* commitJobs: the page, the store and the server, in one step.
Commit(t, next, touched) ==
    /\ jobs' = [jobs EXCEPT ![t] = next]
    /\ snap' = [snap EXCEPT ![t] = next]
    /\ out' = [out EXCEPT ![t] = @ \o Diff(t, next, touched)]

-----------------------------------------------------------------------------
(***************************************************************************)
(* The gateway.  A handler runs without an await, under its lock.          *)
(***************************************************************************)
Due(t) == IF "overtake" \in Odds THEN DOMAIN out[t] ELSE DOMAIN out[t] \cap {1}

\* A page that is gone gets no reply.
Answer(t, k, res, got) ==
    LET r == out[t][k] IN
    /\ out' = [out EXCEPT ![t] = RemoveAt(@, k)]
    /\ inbox' = IF r.load = load[t]
                THEN [inbox EXCEPT ![t] = Append(@, [req |-> r, res |-> res, got |-> got])]
                ELSE inbox

\* Another tab than t does not know of a change.
OnlyFresh(t) == [u \in Tabs |-> u = t /\ fresh[u]]

\* list_jobs.
ServeGet(t, k) ==
    /\ out[t][k].op \in {"get", "reget"}
    /\ Answer(t, k, "ok", Listed)
    /\ fresh' = [fresh EXCEPT ![t] = out[t][k].load = load[t]]
    /\ UNCHANGED <<server, tab, past>>

\* The reply of a write is received with the write: it only changes the store,
\* and without "early" no list is on its way to the tab then.
Replied(t, k, list) ==
    /\ out' = [out EXCEPT ![t] = RemoveAt(@, k)]
    /\ snap' = IF out[t][k].load = load[t] THEN [snap EXCEPT ![t] = list] ELSE snap

\* upsert_job, and saveJob of the store: the card is last in its list, or, if
\* the server refuses it, not in it.
ServePost(t, k) ==
    LET c == out[t][k].card
        known == c.id \in tombs
    IN /\ out[t][k].op = "post"
       /\ cards' = IF known THEN cards ELSE Upserted(c)
       /\ fresh' = IF ~known THEN OnlyFresh(t)
                   ELSE [fresh EXCEPT ![t] = @ /\ out[t][k].why = "migrate"]
       /\ IF out[t][k].why = "migrate"
          THEN Answer(t, k, IF known THEN "refused" ELSE "ok", {}) /\ UNCHANGED snap
          ELSE /\ Replied(t, k, IF known THEN Without(snap[t], c.id) ELSE With(snap[t], c))
               /\ UNCHANGED inbox
       /\ UNCHANGED <<tombs, tasks, copy, jobs, told, migrated, load, cached, asked, gone, events>>

\* delete_job, and removeJob of the store; a 404 is as good as a success.
ServeDelete(t, k) ==
    LET i == out[t][k].card.id IN
    /\ out[t][k].op = "delete"
    /\ Replied(t, k, Without(snap[t], i))
    /\ \/ /\ i \in IdsOf(cards)
          /\ cards' = Without(cards, i)
          /\ tombs' = tombs \union {i}
          /\ gone' = gone \union {i}
          /\ fresh' = OnlyFresh(t)
       \/ i \notin IdsOf(cards) /\ UNCHANGED <<cards, tombs, gone, fresh>>
    /\ UNCHANGED <<tasks, copy, jobs, told, migrated, load, cached, inbox, asked, events>>

\* The gateway dies in delete_server_job, between its two files.
DeleteTorn(t, k) ==
    LET i == out[t][k].card.id IN
    /\ out[t][k].op = "delete" /\ i \in IdsOf(cards)
    /\ Counted
    /\ out' = [out EXCEPT ![t] = RemoveAt(@, k)]
    /\ cards' = Without(cards, i)
    /\ fresh' = [u \in Tabs |-> FALSE]
    /\ UNCHANGED <<tombs, tasks, copy, tab, inbox, asked, gone>>

NewTask == {i \in TaskIds : tasks[i].state = "none"
                             /\ \A j \in 1 .. i - 1 : tasks[j].state # "none"}

Task(s, a, next) == [state |-> s, addr |-> a, restarted_as |-> next]

\* deploy: the card is the server's before anything runs.  The task waits for
\* the worker, or runs here.
ServeDeploy(t, k) ==
    LET a == out[t][k].card.addr IN
    /\ out[t][k].op = "deploy"
    /\ \E i \in NewTask, s \in {"waiting", "going"} :
           /\ tasks' = [tasks EXCEPT ![i] = Task(s, a, NoId)]
           /\ cards' = Upserted(Card(i, a, "running", NoColor))
           /\ Answer(t, k, "ok", {i})
    /\ fresh' = OnlyFresh(t)
    /\ UNCHANGED <<tombs, copy, tab, past>>

\* restart_deploy: a task that still waits gets a replacement, once; a second
\* request is told the first one's.
ServeRestart(t, k) ==
    LET i == out[t][k].card.id IN
    /\ out[t][k].op = "restart"
    /\ \/ /\ i \in TaskIds /\ tasks[i].restarted_as # NoId
          /\ Answer(t, k, "ok", {tasks[i].restarted_as})
          /\ UNCHANGED <<cards, tasks, fresh>>
       \/ /\ i \in TaskIds /\ tasks[i].state = "waiting"
          /\ \E j \in NewTask :
                 /\ tasks' = [tasks EXCEPT ![i] = Task("over", @.addr, j),
                                           ![j] = Task("going", tasks[i].addr, NoId)]
                 /\ cards' = Upserted(Card(j, tasks[i].addr, "running", NoColor))
                 /\ Answer(t, k, "ok", {j})
          /\ fresh' = OnlyFresh(t)
       \/ /\ i \in TaskIds => /\ tasks[i].restarted_as = NoId
                              /\ tasks[i].state # "waiting"
          /\ Answer(t, k, "refused", {})
          /\ UNCHANGED <<cards, tasks, fresh>>
    /\ UNCHANGED <<tombs, copy, tab, past>>

\* sync_remnawave: a card for every node of the panel without one, whatever
\* its tombstone says; none for an address that is no node.
ServeSync(t, k) ==
    /\ out[t][k].op = "sync"
    /\ \E nodes \in SUBSET Addrs :
           LET added == {Card(a, a, "done", NoColor) :
                             a \in nodes \ {c.addr : c \in Listed}}
               drop == IdsOf({c \in Listed : c.addr \notin nodes})
           IN /\ cards' = {c \in cards : c.id \notin IdsOf(added) \union drop}
                              \union added
              /\ tombs' = (tombs \ IdsOf(added)) \union drop
              /\ gone' = (gone \ IdsOf(added)) \union drop
              /\ asked' = asked \union drop
    /\ Answer(t, k, "ok", {})
    /\ fresh' = OnlyFresh(t)
    /\ UNCHANGED <<tasks, copy, tab, events>>

\* Code goes on with the reply; of a failed write there is only a toast.
Awaited(r) == r.op \notin {"post", "delete"} \/ r.why = "migrate"

\* A request fails on the way; a deploy may also be refused (503, and here
\* also for want of ids: bound).
Fails(t, k) ==
    /\ \/ out[t][k].op \in {"deploy", "restart"} /\ NewTask = {}
          /\ UNCHANGED <<events, fresh>>
       \/ /\ Counted
          /\ fresh' = [fresh EXCEPT ![t] = FALSE]
    /\ IF Awaited(out[t][k]) THEN Answer(t, k, "failed", {})
       ELSE out' = [out EXCEPT ![t] = RemoveAt(@, k)] /\ UNCHANGED inbox
    /\ UNCHANGED <<server, tab, asked, gone>>

-----------------------------------------------------------------------------
(***************************************************************************)
(* The deploys.                                                            *)
(***************************************************************************)
\* _job_deploy starts (and the backfill of a gateway that starts): a card for
\* a task that has none.
EnsureCard(i) ==
    /\ tasks[i].state \in {"waiting", "going"}
    /\ i \notin IdsOf(cards) /\ i \notin tombs
    /\ cards' = Upserted(Card(i, tasks[i].addr, "running", NoColor))
    /\ fresh' = [u \in Tabs |-> FALSE]
    /\ UNCHANGED <<tombs, tasks, copy, tab, out, inbox, past>>

\* Tab u has the verdict of i on its page, or will have it from the log.
Hears(u, i) ==
    \/ i \notin told[u]
    \/ ~Refreshing(u) /\ \E c \in jobs[u] : c.id = i /\ c.status = "done"

\* The deploy ends (a task that waits is claimed and run meanwhile), and
\* update_server_job_status reads the file ...
Ends(i) ==
    /\ tasks[i].state \in {"waiting", "going"} /\ copy = NoCopy
    /\ tasks' = [tasks EXCEPT ![i].state = "over"]
    /\ copy' = IF i \in IdsOf(cards) THEN [task |-> i, cards |-> cards] ELSE NoCopy
    /\ UNCHANGED <<cards, tombs, tab, out, inbox, fresh, past>>

\* ... and writes it back, whatever the gateway has written since.
VerdictWritten ==
    /\ copy # NoCopy
    /\ cards' = {IF c.id = copy.task THEN [c EXCEPT !.status = "done"] ELSE c :
                     c \in copy.cards}
    /\ copy' = NoCopy
    /\ fresh' = [u \in Tabs |-> fresh[u] /\ cards = copy.cards /\ Hears(u, copy.task)]
    /\ UNCHANGED <<tombs, tasks, tab, out, inbox, past>>

-----------------------------------------------------------------------------
(***************************************************************************)
(* A tab: replies.                                                         *)
(***************************************************************************)
Gets(t, ops, results) ==
    /\ inbox[t] # <<>>
    /\ Head(inbox[t]).req.op \in ops
    /\ Head(inbox[t]).res \in results
    /\ inbox' = [inbox EXCEPT ![t] = Tail(@)]

\* Mutant: a list that comes is merged into the page's.
ShowsMerged(t, list) ==
    LET all == list \union {c \in jobs[t] : c.id \notin IdsOf(list)} IN
    /\ jobs' = [jobs EXCEPT ![t] = all]
    /\ snap' = [snap EXCEPT ![t] = all]
    /\ told' = told

\* setJobs of the store and of the page; a card not in the list is unmounted.
Shows(t, list) ==
    /\ jobs' = [jobs EXCEPT ![t] = list]
    /\ snap' = [snap EXCEPT ![t] = list]
    /\ told' = [told EXCEPT ![t] = @ \cap IdsOf(list)]

Sends(t, r) == out' = [out EXCEPT ![t] = Append(@, r)]

\* refreshJobs: the server's list is the list.  Only if it is empty the first
\* time is the old cache uploaded, and the list asked for again.
GotList(t) ==
    LET m == Head(inbox[t])
        first == m.got = {} /\ ~migrated[t] /\ cached
    IN /\ Gets(t, {"get", "reget"}, {"ok"})
       /\ migrated' = [migrated EXCEPT ![t] = TRUE]
       /\ IF first
          THEN /\ \E c \in LegacyCards : Sends(t, Req(t, "post", c, "migrate"))
               /\ UNCHANGED <<jobs, snap, told, cached>>
          ELSE Shows(t, m.got) /\ cached' = FALSE /\ UNCHANGED out
       /\ UNCHANGED <<server, load, fresh, past>>

\* The upload of the cache returns.
GotMigrated(t) ==
    LET m == Head(inbox[t]) IN
    /\ Gets(t, {"post"}, {"ok", "refused", "failed"})
    /\ IF m.res = "ok"
       THEN Sends(t, Req(t, "reget", NoCard, "plain")) /\ UNCHANGED <<jobs, snap, told, cached>>
       ELSE Shows(t, {}) /\ cached' = FALSE /\ UNCHANGED out
    /\ UNCHANGED <<server, migrated, load, fresh, past>>

\* addJob, retryJob: the new card, in the place of the one retried.
GotDeploy(t) ==
    LET m == Head(inbox[t])
        new == CHOOSE i \in m.got : TRUE
        c == Card(new, m.req.card.addr, "none", m.req.card.color)
        rest == Without(jobs[t], m.req.card.id)
    IN /\ Gets(t, {"deploy"}, {"ok"})
       /\ Commit(t, rest \union {c}, {new})
       /\ told' = [told EXCEPT ![t] = @ \cap IdsOf(rest)]
       /\ UNCHANGED <<server, migrated, load, cached, fresh, past>>

\* Mutant: only the old one.
RestOfOld(list, old, new) == Without(list, old)

\* restartWaitingJob: "filter both ids".
Rest(list, old, new) == {c \in list : c.id \notin {old, new}}

\* The deploy restarted is replaced by what the server says is its replacement.
GotRestart(t) ==
    LET m == Head(inbox[t])
        new == CHOOSE i \in m.got : TRUE
        c == [m.req.card EXCEPT !.id = new, !.status = "none"]
        rest == Rest(jobs[t], m.req.card.id, new)
    IN /\ Gets(t, {"restart"}, {"ok"})
       /\ Commit(t, rest \union {c}, {new})
       /\ told' = [told EXCEPT ![t] = @ \cap IdsOf(rest)]
       /\ UNCHANGED <<server, migrated, load, cached, fresh, past>>

\* The sync was applied: refreshFromServer, or the refresh that is under way.
GotSync(t) ==
    /\ Gets(t, {"sync"}, {"ok"})
    /\ out' = [out EXCEPT ![t] =
                  @ \o IF Refreshing(t) THEN <<>> ELSE <<Req(t, "get", NoCard, "plain")>>]
    /\ UNCHANGED <<server, tab, fresh, past>>

\* notifyDirty, a toast: the list stays as it was changed.  A list that did
\* not come is the store's; if it was to follow an upload, it is the cache's.
GotFailure(t) ==
    LET m == Head(inbox[t]) IN
    /\ Gets(t, {"get", "reget", "deploy", "restart", "sync"}, {"failed", "refused"})
    /\ \/ m.req.op = "get" /\ Shows(t, snap[t]) /\ UNCHANGED cached
       \/ m.req.op = "reget" /\ Shows(t, LegacyCards) /\ cached' = FALSE
       \/ m.req.op \notin {"get", "reget"} /\ UNCHANGED <<jobs, snap, told, cached>>
    /\ UNCHANGED <<server, migrated, load, out, fresh, past>>

-----------------------------------------------------------------------------
(***************************************************************************)
(* A tab: its user, and the frames of the deploys it watches.              *)
(***************************************************************************)
Settled(t) == "early" \in Odds \/ ~Refreshing(t)

\* Nor is one due: the sync has a modal of its own, which covers the page.
NoSync(t) == "early" \in Odds \/ \A r \in Open(t) : r.op # "sync"

\* The button is disabled while the card's request is under way (retrying).
Busy(t, c) == \E r \in Open(t) : r.op \in {"deploy", "restart"} /\ r.card.id = c.id

Acts(t) == Settled(t) /\ NoSync(t) /\ Counted

\* addJob: submitDeploy.
Add(t, a) ==
    /\ Acts(t)
    /\ Sends(t, Req(t, "deploy", Card(NoId, a, "none", NoColor), "plain"))
    /\ UNCHANGED <<server, tab, inbox, fresh, asked, gone>>

\* retryJob of a deploy that failed.
Retry(t, c) ==
    /\ Acts(t) /\ c.id \in told[t] /\ ~Busy(t, c)
    /\ Sends(t, Req(t, "deploy", c, "plain"))
    /\ asked' = asked \union {c.id}
    /\ UNCHANGED <<server, tab, inbox, fresh, gone>>

\* restartWaitingJob of a deploy that does not start.
Restart(t, c) ==
    /\ Acts(t) /\ c.id \notin told[t] /\ c.status = "none" /\ ~Busy(t, c)
    /\ Sends(t, Req(t, "restart", c, "plain"))
    /\ asked' = asked \union {c.id}
    /\ UNCHANGED <<server, tab, inbox, fresh, gone>>

\* removeJob of the page.
Delete(t, c) ==
    /\ Acts(t) /\ c.id \in told[t]
    /\ Commit(t, Without(jobs[t], c.id), {})
    /\ told' = [told EXCEPT ![t] = @ \ {c.id}]
    /\ asked' = asked \union {c.id}
    /\ UNCHANGED <<server, migrated, load, cached, inbox, fresh, gone>>

\* changeJobColor.
Color(t, c, col) ==
    /\ Acts(t) /\ c.color # col
    /\ Commit(t, With(jobs[t], [c EXCEPT !.color = col]), {c.id})
    /\ UNCHANGED <<server, told, migrated, load, cached, inbox, fresh, asked, gone>>

\* RemnawaveSyncModal, confirmed; with no deploy on its way from this page.
Sync(t) ==
    /\ Acts(t) /\ ("early" \in Odds \/ Open(t) = {})
    /\ Sends(t, Req(t, "sync", NoCard, "plain"))
    /\ UNCHANGED <<server, tab, inbox, fresh, asked, gone>>

\* The card has a verdict: from the list when it is mounted, later from the
\* frame that ends its log.
HasVerdict(c) ==
    \/ c.status = "done"
    \/ c.id \in TaskIds /\ tasks[c.id].state = "over"

\* updateJobStatus: the whole card is written, whether the verdict is news or
\* not.
Frame(t, c) ==
    /\ Settled(t) /\ c.id \notin told[t] /\ HasVerdict(c)
    /\ Commit(t, With(jobs[t], [c EXCEPT !.status = "done"]), {c.id})
    /\ told' = [told EXCEPT ![t] = @ \union {c.id}]
    /\ UNCHANGED <<server, migrated, load, cached, inbox, fresh, past>>

\* The page starts anew; its requests are still handled.
Reload(t) ==
    /\ Counted
    /\ load' = [load EXCEPT ![t] = @ + 1]
    /\ jobs' = [jobs EXCEPT ![t] = {}]
    /\ snap' = [snap EXCEPT ![t] = {}]
    /\ told' = [told EXCEPT ![t] = {}]
    /\ migrated' = [migrated EXCEPT ![t] = FALSE]
    /\ inbox' = [inbox EXCEPT ![t] = <<>>]
    /\ out' = [out EXCEPT ![t] =
                  Append(@, [op |-> "get", card |-> NoCard, why |-> "plain", load |-> load[t] + 1])]
    /\ UNCHANGED <<server, cached, fresh, asked, gone>>

-----------------------------------------------------------------------------
\* There was one deploy: its card is deleted, and the browser has an old cache,
\* or it waits for the worker.  No tab has its list yet.
Init ==
    /\ \E a \in Addrs, s \in {"waiting", "over"} :
           /\ tasks = [i \in TaskIds |-> IF i = 1 THEN Task(s, a, NoId)
                                               ELSE Task("none", NoId, NoId)]
           /\ cards = IF s = "over" THEN {} ELSE {Card(1, a, "none", NoColor)}
           /\ tombs = IF s = "over" THEN {1} ELSE {}
           /\ cached = (s = "over")
    /\ gone = tombs /\ asked = tombs
    /\ copy = NoCopy
    /\ jobs = [t \in Tabs |-> {}]
    /\ snap = [t \in Tabs |-> {}]
    /\ told = [t \in Tabs |-> {}]
    /\ migrated = [t \in Tabs |-> FALSE]
    /\ load = [t \in Tabs |-> 0]
    /\ out = [t \in Tabs |-> <<[op |-> "get", card |-> NoCard, why |-> "plain", load |-> 0]>>]
    /\ inbox = [t \in Tabs |-> <<>>]
    /\ fresh = [t \in Tabs |-> FALSE]
    /\ events = 0

Gateway(t, k) ==
    \/ ServeGet(t, k) \/ ServePost(t, k) \/ ServeDelete(t, k) \/ DeleteTorn(t, k)
    \/ ServeDeploy(t, k) \/ ServeRestart(t, k) \/ ServeSync(t, k) \/ Fails(t, k)

Deploys ==
    \/ \E i \in TaskIds : EnsureCard(i) \/ Ends(i)
    \/ VerdictWritten

Replies(t) ==
    \/ GotList(t) \/ GotMigrated(t) \/ GotDeploy(t) \/ GotRestart(t)
    \/ GotSync(t) \/ GotFailure(t)

User(t) ==
    \/ \E a \in Addrs : Add(t, a)
    \/ \E c \in jobs[t] : Retry(t, c) \/ Restart(t, c) \/ Delete(t, c) \/ Frame(t, c)
    \/ \E c \in jobs[t], col \in Colors \union {NoColor} : Color(t, c, col)
    \/ Sync(t) \/ Reload(t)

Next ==
    \/ \E t \in Tabs : \E k \in Due(t) : Gateway(t, k)
    \/ Deploys
    \/ \E t \in Tabs : Replies(t) \/ User(t)

Spec == Init /\ [][Next]_vars

-----------------------------------------------------------------------------
(***************************************************************************)
(* Properties.                                                             *)
(***************************************************************************)
\* The types of the variables.  The file and every page have one card for a
\* task, also if a waiting deploy is restarted from two tabs at once, or from a
\* list that has both cards of an earlier restart.
TypeOK ==
    /\ cards \subseteq CardSet /\ Cardinality(IdsOf(cards)) = Cardinality(cards)
    /\ tombs \subseteq Ids /\ asked \subseteq Ids /\ gone \subseteq tombs
    /\ \A i \in TaskIds :
           tasks[i].state \in {"none", "waiting", "going", "over"}
    /\ \A t \in Tabs : /\ jobs[t] \subseteq CardSet /\ told[t] \subseteq IdsOf(jobs[t])
                       /\ Cardinality(IdsOf(jobs[t])) = Cardinality(jobs[t])
    /\ events \in 0 .. MaxEvents

\* A card that was deleted is never listed again, not when a stale tab, an old
\* cache or a start of the worker writes it, nor when a process writes back a
\* file it read before the deletion: only a node found in the panel brings its
\* card back.
DeletedStaysHidden == IdsOf(Listed) \cap gone = {}

\* A card leaves the file only if a user asked for it, with a button or by
\* applying the panel's list: no mixture of lists of different age deletes
\* one.  (A process that writes back an older file may take one along.)
OnlyAskedDeletes ==
    [][copy' = copy => IdsOf(cards) \ IdsOf(cards') \subseteq asked']_vars

\* Nothing of the tab is under way, and it has seen the verdicts there are.
Quiet(t) ==
    /\ out[t] = <<>> /\ inbox[t] = <<>>
    /\ \A c \in jobs[t] : HasVerdict(c) => c.id \in told[t]

\* "Shown is exactly what lies in the account": a tab that nobody interfered
\* with has, once its requests are answered, on the page and in its store the
\* server's list, colours and verdicts included.
ShownIsStored ==
    \A t \in Tabs : fresh[t] /\ Quiet(t) => jobs[t] = Listed /\ snap[t] = Listed
=============================================================================
