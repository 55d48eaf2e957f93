------------------------------- MODULE AiChat -------------------------------
(***************************************************************************)
(* One browser tab of the assistant (components/automation: aiRunner.ts,   *)
(* aiSessions.ts, AiChat.tsx) and the server it talks to: the runs that    *)
(* answer, and the transcript that both sides write.                       *)
(*                                                                         *)
(* A question is appended to the transcript by the page and by the server; *)
(* the reply is saved by the server when its run ends, and by the page     *)
(* when it stops reading, whatever it has read.  A reader is one call of   *)
(* consume(): it puts the events of a run into the last reply on screen,   *)
(* and reconnects, from the first event, when its stream breaks.  Of the   *)
(* runs (AiRuns) only the events and the end are kept.                     *)
(*                                                                         *)
(* Odds are conditions under which the code goes wrong; each can be left   *)
(* out to see what holds without it:                                       *)
(*   "switch"     another conversation is opened while an answer is read   *)
(*   "lateSync"   the transcripts arrive after the state of the run        *)
(*   "early"      the user acts before the page's first requests return    *)
(*   "overlap"    the user acts while a stopped reader is still asleep     *)
(*   "overtake"   requests reach the server in any order                   *)
(*   "errorFirst" an answer may consist of an error alone                  *)
(***************************************************************************)
EXTENDS ChatStore, FiniteSets

CONSTANTS
    Convs,      \* conversations (session ids)
    NoConv,
    Readers,    \* calls of consume() that can be under way at once
    NoReader,
    Deltas,     \* text events an answer may have
    Attempts,   \* AUTO_RECONNECT_ATTEMPTS
    Odds,       \* see above
    MaxAsked,   \* bound: questions
    MaxDrops,   \* bound: broken connections
    MaxReloads  \* bound: reloads of the page

ASSUME ConvAssumption ==
    Convs # {} /\ NoConv \notin Convs /\ NoReader \notin Readers
ASSUME BoundAssumption ==
    /\ Deltas \in Nat /\ Deltas < Error
    /\ Attempts \in Nat \ {0}
    /\ MaxAsked \in Nat /\ MaxDrops \in Nat /\ MaxReloads \in Nat

VARIABLES
    store,    \* the account's ai_chat.json: the messages of a conversation
    filed,    \* the conversations that have an entry in it
    answer,     \* per question: the events of its run, and whether it goes on
    current,  \* _RUNS: the last run of a conversation
    listed,   \* the page: its conversations,
    used,     \*   every id it ever made,
    active,   \*   the one that is open,
    msgs,     \*   and the messages it shows
    busy,     \* RunState: the conversation with an answer under way
    ac,       \* the reader that "stop" aborts
    reader,   \* per reader: what it reads, how far, and where it is
    checks,   \* GET /chat/state under way, per conversation (resume)
    syncing,  \* GET /chat/history?all_sessions under way (syncSessions)
    wire,     \* requests of the page on their way, oldest first
    asked,    \* history: the conversation of every question
    waived,   \* history: questions the user stopped or removed
    missed,   \* history: a request failed that the page does not repeat
    drops, reloads

server == <<store, filed, answer, current>>
page == <<listed, used, active, msgs>>
link == <<busy, ac, reader>>
boot == <<checks, syncing>>
past == <<asked, waived, missed, drops, reloads>>
chatVars == <<server, page, link, boot, wire, past>>

Questions == 1 .. MaxAsked
NoQuestion == 0
NotRun == [state |-> "none", events |-> <<>>]
Active(c) == current[c] # NoQuestion /\ answer[current[c]].state = "going"

NoRead == [pc |-> "off", conv |-> NoConv, mode |-> "append", run |-> NoQuestion,
           pos |-> 0, tries |-> 0, aborted |-> FALSE, fresh |-> FALSE]
Off(r) == reader[r].pc = "off"

Req(op, c, what, n) == [op |-> op, conv |-> c, msgs |-> what, run |-> n]

\* The requests "on" without the one that puts question n, if it is there.
Unsent(on, n) ==
    LET at == {i \in 1 .. Len(on) : on[i].op = "chat" /\ on[i].run = n}
    IN  IF at = {} THEN on ELSE RemoveAt(on, CHOOSE i \in at : TRUE)

Free == \A r \in Readers : Off(r)  \* the page does not read

\* The user acts when nothing is under way. Bound: not after a missed request,
\* when only the end of what goes on is of interest.
Settled == /\ (checks = {} /\ ~syncing) \/ "early" \in Odds
           /\ Free \/ "overlap" \in Odds
           /\ ~missed
BusyHere == busy # NoConv /\ busy = active
\* A request fails and is not repeated.
Misses == drops < MaxDrops /\ drops' = drops + 1 /\ missed' = TRUE
\* A GET does not overtake what the page sent before it.
InOrder == wire = <<>> \/ "overtake" \in Odds

-----------------------------------------------------------------------------
(* The server                                                               *)

Stored(c, m) == /\ store' = [store EXCEPT ![c] = Deduped(@, m)]
                /\ filed' = filed \cup {c}

\* Mutant: the server leaves the saving to the browser.
EndUnsaved(n, events) ==
    /\ answer' = [answer EXCEPT ![n] = [state |-> "done", events |-> events]]
    /\ UNCHANGED <<store, filed, current>>

\* Mutant: the answer is saved without session_id, so in the default conversation.
EndAnywhere(n, events) ==
    /\ answer' = [answer EXCEPT ![n] = [state |-> "done", events |-> events]]
    /\ IF events = <<>> THEN UNCHANGED <<store, filed>>
       ELSE Stored(CHOOSE c \in Convs : TRUE, Reply(AnswerText(n, events)))
    /\ UNCHANGED current

\* Run.finish with _persist: what the run said goes to the transcript
EndRun(n, events) ==
    /\ answer' = [answer EXCEPT ![n] = [state |-> "done", events |-> events]]
    /\ IF events = <<>> THEN UNCHANGED <<store, filed>>
       ELSE Stored(asked[n], Reply(AnswerText(n, events)))
    /\ UNCHANGED current

AgentSays(n) ==
    /\ answer[n].state = "going" /\ Len(answer[n].events) < Deltas
    /\ answer' = [answer EXCEPT ![n].events = Append(@, Len(@) + 1)]
    /\ UNCHANGED <<store, filed, current, page, link, boot, wire, past>>

AgentEnds(n) ==
    LET said == answer[n].events IN
    /\ answer[n].state = "going"
    /\ \/ EndRun(n, said)
       \/ /\ said # <<>> \/ "errorFirst" \in Odds
          /\ EndRun(n, Append(said, Error))
    /\ UNCHANGED <<page, link, boot, wire, past>>

-----------------------------------------------------------------------------
(* Requests reach the server                                                *)

Arriving(op) == {i \in 1 .. Len(wire) :
                    wire[i].op = op /\ (i = 1 \/ "overtake" \in Odds)}
Taken(i) == wire' = RemoveAt(wire, i)

\* POST /chat/history with append (one message), or without
AppendArrives ==
    \E i \in Arriving("append") :
        /\ Taken(i)
        /\ Stored(wire[i].conv, wire[i].msgs[1])
        /\ UNCHANGED <<answer, current, page, link, boot, past>>

ReplaceArrives ==
    \E i \in Arriving("replace") :
        /\ Taken(i)
        /\ store' = [store EXCEPT ![wire[i].conv] = wire[i].msgs]
        /\ filed' = filed \cup {wire[i].conv}
        /\ UNCHANGED <<answer, current, page, link, boot, past>>

DeleteArrives ==
    \E i \in Arriving("delete") :
        /\ Taken(i)
        /\ store' = [store EXCEPT ![wire[i].conv] = <<>>]
        /\ filed' = filed \ {wire[i].conv}
        /\ UNCHANGED <<answer, current, page, link, boot, past>>

\* POST /chat: the question is saved, then its run starts, or joins the one
\* that goes on; the page's reader, if it still waits, follows that run.
ChatArrives ==
    \E i \in Arriving("chat") :
        LET c == wire[i].conv  n == wire[i].run
            run == IF Active(c) THEN current[c] ELSE n IN
        /\ Taken(i)
        /\ Stored(c, Question(n))
        /\ answer' = [answer EXCEPT ![run].state = "going"]
        /\ current' = [current EXCEPT ![c] = run]
        /\ reader' = [r \in Readers |->
                        IF reader[r].pc = "sent" /\ reader[r].run = n
                        THEN [reader[r] EXCEPT !.pc = "reading", !.run = run]
                        ELSE reader[r]]
        /\ UNCHANGED <<page, busy, ac, boot, past>>

\* POST /chat/stop ends the run with an error line of its own
StopArrives ==
    \E i \in Arriving("stop") :
        LET n == current[wire[i].conv] IN
        /\ Taken(i)
        /\ IF Active(wire[i].conv) THEN EndRun(n, Append(answer[n].events, Error))
           ELSE UNCHANGED server
        /\ UNCHANGED <<page, link, boot, past>>

-----------------------------------------------------------------------------
(* consume: a reader writes into the last reply of the open conversation    *)

\* patchLast
Patched(text) ==
    [msgs EXCEPT ![active] = IF EndsInReply(@) THEN Append(Front(@), Reply(text)) ELSE @]
LastText == IF EndsInReply(msgs[active]) THEN Last(msgs[active]).text ELSE <<>>
Extended(piece) == Patched(Append(LastText, piece))

\* Mutant: a reply that ended early is not worth a request.
KeepsNothing(r, shown) == <<>>

\* "finally": the last reply is appended to the transcript, unless it is blank;
\* after a resume the conversation is written as a whole
Keeps(r, shown) ==
    IF reader[r].mode = "replace"
    THEN << Req("replace", reader[r].conv, shown, NoQuestion) >>
    ELSE IF EndsInReply(shown) /\ Last(shown).text # <<>>
         THEN << Req("append", reader[r].conv, <<Last(shown)>>, NoQuestion) >>
         ELSE <<>>

\* Mutant: "finally" without emit(IDLE).
ReadOverBusy(r, all, sent) ==
    /\ msgs' = all
    /\ wire' = sent \o Keeps(r, all[active])
    /\ reader' = [reader EXCEPT ![r] = NoRead]
    /\ busy' = busy
    /\ ac' = IF ac = r THEN NoReader ELSE ac

\* The reader r stops with "all" on screen, after the requests "sent".
ReadOver(r, all, sent) ==
    /\ msgs' = all
    /\ wire' = sent \o Keeps(r, all[active])
    /\ reader' = [reader EXCEPT ![r] = NoRead]
    /\ busy' = NoConv
    /\ ac' = IF ac = r THEN NoReader ELSE ac

\* send
Ask(r) ==
    LET n == Len(asked) + 1 IN
    /\ n <= MaxAsked /\ Off(r) /\ Settled
    /\ ~BusyHere
    /\ asked' = Append(asked, active)
    /\ msgs' = [msgs EXCEPT ![active] = @ \o <<Question(n), Reply(<<>>)>>]
    /\ wire' = wire \o << Req("append", active, <<Question(n)>>, NoQuestion),
                          Req("chat", active, <<>>, n) >>
    /\ reader' = [reader EXCEPT ![r] = [NoRead EXCEPT !.pc = "sent", !.conv = active,
                                                      !.run = n]]
    /\ busy' = active /\ ac' = r
    /\ UNCHANGED <<server, listed, used, active, boot, waived, missed, drops, reloads>>

\* The server refuses the question (4xx, or the assistant is switched off).
ChatRefused ==
    \E i \in Arriving("chat"), r \in Readers :
        /\ reader[r].pc = "sent" /\ reader[r].run = wire[i].run
        /\ ReadOver(r, Extended(<<wire[i].run, Refused>>), RemoveAt(wire, i))
        /\ UNCHANGED <<server, listed, used, active, boot, past>>

\* readStream: one event. The first one after a reconnect wipes the reply.
ReadEvent(r) ==
    LET rd == reader[r]
        piece == <<rd.run, answer[rd.run].events[rd.pos + 1]>> IN
    /\ rd.pc = "reading" /\ rd.pos < Len(answer[rd.run].events)
    /\ msgs' = IF rd.fresh THEN Patched(<<piece>>) ELSE Extended(piece)
    /\ reader' = [reader EXCEPT ![r].pos = @ + 1, ![r].fresh = FALSE]
    /\ UNCHANGED <<server, listed, used, active, busy, ac, boot, wire, past>>

ReadEnds(r) ==
    LET rd == reader[r] IN
    /\ rd.pc = "reading" /\ answer[rd.run].state = "done"
    /\ rd.pos = Len(answer[rd.run].events)
    /\ ReadOver(r, msgs, wire)
    /\ UNCHANGED <<server, listed, used, active, boot, past>>

\* The connection breaks. A question that has not arrived yet never will.
Breaks(r) ==
    /\ reader[r].pc \in {"sent", "reading"} /\ drops < MaxDrops
    /\ drops' = drops + 1
    /\ reader' = [reader EXCEPT ![r].pc = "broken"]
    /\ wire' = Unsent(wire, reader[r].run)
    /\ UNCHANGED <<server, page, busy, ac, boot, asked, waived, missed, reloads>>

\* Or it dies and the page is not told. Its watchdog throws out of a timer,
\* where nobody catches it; fetch and read go on waiting.
Hangs(r) ==
    /\ reader[r].pc \in {"sent", "reading"} /\ drops < MaxDrops
    /\ drops' = drops + 1
    /\ reader' = [reader EXCEPT ![r].pc = "hung"]
    /\ wire' = Unsent(wire, reader[r].run)
    /\ UNCHANGED <<server, page, busy, ac, boot, asked, waived, missed, reloads>>

-----------------------------------------------------------------------------
(* attemptAutoReconnect, one attempt at a time                              *)

AnotherTry(r) == reader[r].pc = "broken" /\ reader[r].tries < Attempts

\* stopped during the pause
Awakes(r) ==
    /\ AnotherTry(r) /\ reader[r].aborted
    /\ ReadOver(r, msgs, wire)
    /\ UNCHANGED <<server, listed, used, active, boot, past>>

TryFails(r) ==
    /\ AnotherTry(r) /\ ~reader[r].aborted /\ drops < MaxDrops
    /\ drops' = drops + 1
    /\ reader' = [reader EXCEPT ![r].tries = @ + 1]
    /\ UNCHANGED <<server, page, busy, ac, boot, wire, asked, waived, missed, reloads>>

\* The run goes on: it is read from its first event.
TryResumes(r) ==
    LET c == reader[r].conv IN
    /\ AnotherTry(r) /\ ~reader[r].aborted /\ InOrder /\ Active(c)
    /\ reader' = [reader EXCEPT ![r].pc = "reading", ![r].run = current[c],
                                ![r].pos = 0, ![r].fresh = TRUE, ![r].tries = @ + 1]
    /\ UNCHANGED <<server, page, busy, ac, boot, wire, past>>

\* It is over: pullFinalFromHistory, and if that fails the line of the loss.
TryPulls(r) ==
    LET c == reader[r].conv
        lost == Extended(<<reader[r].run, Gone>>) IN
    /\ AnotherTry(r) /\ ~reader[r].aborted /\ InOrder /\ ~Active(c)
    /\ \/ /\ ReadOver(r, IF EndsInReply(store[c]) /\ Last(store[c]).text # <<>>
                         THEN Patched(Last(store[c]).text) ELSE lost, wire)
          /\ UNCHANGED <<missed, drops>>
       \/ ReadOver(r, lost, wire) /\ Misses
    /\ UNCHANGED <<server, listed, used, active, boot, asked, waived, reloads>>

\* "could not reconnect"
GivesUp(r) ==
    /\ reader[r].pc = "broken" /\ ~AnotherTry(r)
    /\ ReadOver(r, IF reader[r].aborted THEN msgs
                   ELSE Extended(<<reader[r].run, Gone>>), wire)
    /\ missed' = TRUE
    /\ UNCHANGED <<server, listed, used, active, boot, asked, waived, drops, reloads>>

-----------------------------------------------------------------------------
(* What the user does                                                       *)

\* stop: the reader that "ac" names is aborted. It ends at once, and its
\* question may still be on the way; one that is asleep ends when it awakes.
StopAnswer ==
    LET sent == Append(wire, Req("stop", busy, <<>>, NoQuestion)) IN
    /\ BusyHere
    /\ waived' = waived \cup (IF ac = NoReader THEN {} ELSE {reader[ac].run})
                        \cup (IF current[busy] = NoQuestion THEN {} ELSE {current[busy]})
    /\ IF ac = NoReader
       THEN /\ wire' = sent /\ busy' = NoConv
            /\ UNCHANGED <<msgs, ac, reader>>
       ELSE IF reader[ac].pc = "broken"
       THEN /\ wire' = sent /\ busy' = NoConv /\ ac' = NoReader
            /\ reader' = [reader EXCEPT ![ac].aborted = TRUE]
            /\ UNCHANGED msgs
       ELSE \/ ReadOver(ac, msgs, sent)
            \/ ReadOver(ac, msgs, Unsent(sent, reader[ac].run))
    /\ UNCHANGED <<server, listed, used, active, boot, asked, missed, drops, reloads>>

\* newSession
New ==
    /\ ~BusyHere /\ Settled
    /\ \E c \in Convs \ used :
          /\ listed' = listed \cup {c} /\ used' = used \cup {c} /\ active' = c
    /\ UNCHANGED <<server, msgs, link, boot, wire, past>>

\* A click on a conversation: it is opened and, unless its answer is being
\* read, the page asks whether one is under way.
Select(c) ==
    /\ c \in listed \ {active}
    /\ "switch" \in Odds \/ (Settled /\ busy = NoConv)
    /\ active' = c
    /\ checks' = IF busy = c THEN checks ELSE checks \cup {c}
    /\ UNCHANGED <<server, listed, used, msgs, link, syncing, wire, past>>

Of(c) == {n \in 1 .. Len(asked) : asked[n] = c}

\* clearActive, and the transcript is overwritten with nothing
Clear ==
    /\ ~BusyHere /\ Settled /\ msgs[active] # <<>>
    /\ msgs' = [msgs EXCEPT ![active] = <<>>]
    /\ wire' = Append(wire, Req("replace", active, <<>>, NoQuestion))
    /\ waived' = waived \cup Of(active)
    /\ UNCHANGED <<server, listed, used, active, link, boot, asked, missed, drops, reloads>>

\* removeSession: a page without conversations makes a new one
Delete(c) ==
    /\ ~BusyHere /\ Settled /\ c \in listed
    /\ \E rest \in IF listed = {c} THEN {{d} : d \in Convs \ used} ELSE {listed \ {c}} :
          /\ listed' = rest /\ used' = used \cup rest
          /\ IF active \in rest THEN active' = active ELSE active' \in rest
    /\ msgs' = [msgs EXCEPT ![c] = <<>>]
    /\ wire' = Append(wire, Req("delete", c, <<>>, NoQuestion))
    /\ waived' = waived \cup Of(c)
    /\ UNCHANGED <<server, link, boot, asked, missed, drops, reloads>>

-----------------------------------------------------------------------------
(* A reload, and what the page asks for when it is mounted                  *)

\* The browser cancels what is on its way; of that, only a "stop" is missed.
Reload ==
    /\ reloads < MaxReloads
    /\ reloads' = reloads + 1
    /\ missed' = (missed \/ \E i \in 1 .. Len(wire) : wire[i].op = "stop")
    /\ reader' = [r \in Readers |-> NoRead] /\ busy' = NoConv /\ ac' = NoReader
    /\ wire' = <<>>
    /\ checks' = {active} /\ syncing' = TRUE
    /\ UNCHANGED <<server, page, asked, waived, drops>>

\* resume, after its GET: a blank reply takes the place of an unfinished one
CheckReturns(c, r) ==
    LET shown == msgs[active]
        head == IF EndsInReply(shown) THEN Front(shown) ELSE shown IN
    /\ c \in checks /\ Active(c) /\ Off(r) /\ InOrder
    /\ ~syncing \/ "lateSync" \in Odds
    /\ checks' = checks \ {c}
    /\ msgs' = [msgs EXCEPT ![active] = Append(head, Reply(<<>>))]
    /\ reader' = [reader EXCEPT ![r] = [NoRead EXCEPT !.pc = "reading", !.conv = c,
                                          !.mode = "replace", !.run = current[c]]]
    /\ busy' = c /\ ac' = r
    /\ UNCHANGED <<server, listed, used, active, syncing, wire, past>>

\* ... or there is none, or no answer
CheckIdle(c) ==
    /\ c \in checks /\ InOrder
    /\ ~syncing \/ "lateSync" \in Odds
    /\ checks' = checks \ {c}
    /\ \/ ~Active(c) /\ UNCHANGED <<missed, drops>>
       \/ Misses
    /\ UNCHANGED <<server, page, link, syncing, wire, asked, waived, reloads>>

\* syncFromServer: the server is right, unless it has no conversation at all;
\* then everything there is goes to it.
SyncReturns ==
    /\ syncing /\ InOrder
    /\ syncing' = FALSE
    /\ IF filed = {}
       THEN /\ wire' = wire \o [i \in 1 .. Cardinality({c \in listed : msgs[c] # <<>>}) |->
                  LET c == SetToSeq({d \in listed : msgs[d] # <<>>})[i]
                  IN  Req("replace", c, msgs[c], NoQuestion)]
            /\ UNCHANGED <<listed, active, msgs>>
       ELSE /\ listed' = filed
            /\ msgs' = [c \in Convs |-> IF c \in filed THEN store[c] ELSE <<>>]
            /\ IF active \in filed THEN active' = active ELSE active' \in filed
            /\ UNCHANGED wire
    /\ UNCHANGED <<server, used, link, checks, past>>

\* no answer: the page goes on with what it has
SyncFails ==
    /\ syncing /\ Misses
    /\ syncing' = FALSE
    /\ UNCHANGED <<server, page, link, checks, wire, asked, waived, reloads>>

\* A write that does not get through is not repeated.
WriteFails ==
    /\ Misses
    /\ \E op \in {"append", "replace", "delete", "stop"} :
          \E i \in Arriving(op) : Taken(i)
    /\ UNCHANGED <<server, page, link, boot, asked, waived, reloads>>

-----------------------------------------------------------------------------
ChatInit ==
    /\ store = [c \in Convs |-> <<>>] /\ filed = {}
    /\ answer = [n \in Questions |-> NotRun]
    /\ current = [c \in Convs |-> NoQuestion]
    /\ active = CHOOSE c \in Convs : TRUE  \* an id of no meaning
    /\ listed = {active} /\ used = {active}
    /\ msgs = [c \in Convs |-> <<>>]
    /\ busy = NoConv /\ ac = NoReader
    /\ reader = [r \in Readers |-> NoRead]
    /\ checks = {} /\ syncing = FALSE /\ wire = <<>>
    /\ asked = <<>> /\ waived = {} /\ missed = FALSE /\ drops = 0 /\ reloads = 0

Arrives == AppendArrives \/ ReplaceArrives \/ DeleteArrives \/ ChatArrives
           \/ StopArrives \/ ChatRefused

Agent(n) == AgentSays(n) \/ AgentEnds(n)

Reads(r) == ReadEvent(r) \/ ReadEnds(r)

Retries(r) == Awakes(r) \/ TryResumes(r) \/ TryPulls(r) \/ GivesUp(r)

Boots == \/ SyncReturns
         \/ \E c \in Convs : CheckIdle(c) \/ \E r \in Readers : CheckReturns(c, r)

User == \/ StopAnswer \/ New \/ Clear \/ Reload
        \/ \E c \in Convs : Select(c) \/ Delete(c)
        \/ \E r \in Readers : Ask(r)

Fails == \/ SyncFails \/ WriteFails
         \/ \E r \in Readers : Breaks(r) \/ Hangs(r) \/ TryFails(r)

ChatNext == \/ Arrives \/ Boots \/ User \/ Fails
        \/ \E n \in Questions : Agent(n)
        \/ \E r \in Readers : Reads(r) \/ Retries(r)

ChatSpec == ChatInit /\ [][ChatNext]_chatVars

\* Requests arrive or fail, agents come to an end, and the page goes on.
FairChatSpec == /\ ChatSpec
            /\ WF_chatVars(Arrives) /\ WF_chatVars(Boots)
            /\ \A n \in Questions : WF_chatVars(Agent(n))
            /\ \A r \in Readers : WF_chatVars(Reads(r)) /\ WF_chatVars(Retries(r))

-----------------------------------------------------------------------------
\* A conversation holds what was asked in it and the answers to that: nothing
\* of an answer is shown or stored in another conversation ("чужой прогресс
\* показывать нельзя", aiRunner.ts:47).
AnswersStayHome ==
    \A c \in Convs : \A kept \in {msgs[c], store[c]} : \A i \in 1 .. Len(kept) :
        \A j \in 1 .. Len(kept[i].text) : asked[kept[i].text[j][1]] = c

About(m) == {m.text[j][1] : j \in 1 .. Len(m.text)}

\* Both sides write the question and the answer, in no agreed order, and the
\* transcript has each once: one reply to a question, directly after it, with no
\* piece of it twice (_dedup, the lazy wipe of a reconnect). It takes a request
\* that fails, or a connection lost for good, to store a reply twice.
EachOnce ==
    missed \/ \A c \in Convs : \A i \in 1 .. Len(store[c]) :
        LET m == store[c][i] IN
        /\ m.text # <<>> => Cardinality(About(m)) = 1
        /\ IsInjective(m.text)
        /\ m.role = "assistant" /\ m.text # <<>> =>
              /\ i > 1 /\ store[c][i - 1].role = "user"
              /\ About(store[c][i - 1]) = About(m)
        /\ \A j \in 1 .. Len(store[c]) :
              j # i /\ store[c][j].role = m.role => About(store[c][j]) \cap About(m) = {}

Quiet == /\ Free /\ wire = <<>> /\ checks = {} /\ ~syncing
         /\ \A n \in Questions : answer[n].state # "going"

\* When nothing is under way, the browser shows nothing that the server does not
\* have: what an answer broke off with is stored too, so the conversation looks
\* the same after a reload.
ShownIsStored ==
    Quiet /\ ~missed => \A c \in listed : \A i \in 1 .. Len(msgs[c]) :
        LET m == msgs[c][i] IN m.text # <<>> =>
            \E j \in 1 .. Len(store[c]) :
                store[c][j].role = m.role /\ IsPrefix(m.text, store[c][j].text)

\* A finished answer is in the transcript, whole, with its question, whatever
\* became of the tab, unless the user stopped or removed it: no later write of
\* the page, of what it had read by then, takes any of it away.
NothingLost ==
    missed \/ \A n \in Questions \ waived : answer[n].state = "done" /\ answer[n].events # <<>> =>
        LET kept == store[asked[n]] IN
        /\ \E i \in 1 .. Len(kept) : kept[i] = Question(n)
        /\ \E i \in 1 .. Len(kept) : kept[i] = Reply(AnswerText(n, answer[n].events))

\* Whatever breaks, the page stops being busy, without a reload or the button
\* "stop"; a dead connection that nobody reported is the exception.
BusyEnds ==
    (busy # NoConv) ~> (busy = NoConv \/ \E r \in Readers : reader[r].pc = "hung")

\* ... although that is what the watchdog is there for ("Сторожевые таймеры: без
\* них «Отправка» может висеть вечно", aiRunner.ts:418).
SendingEnds == (busy # NoConv) ~> (busy = NoConv)
=============================================================================
