----------------------------- MODULE ChatStore -----------------------------
(***************************************************************************)
(* The durable transcript of the assistant: what services/ai_chat_store.py *)
(* does to one conversation, and how services/ai_chat_persist.py turns the *)
(* events of an answer into a reply.                                       *)
(*                                                                         *)
(* A text is a sequence of pieces <<n, k>>: piece k of what belongs to     *)
(* question n.  The piece Asked is the question itself; 1, 2 ... are the   *)
(* deltas of its answer; the others are lines that report an error.        *)
(***************************************************************************)
EXTENDS Naturals, Sequences, SequencesExt

Asked == 0
Error == 101    \* "\n" + error line, as the page writes an error event
BareError == 102  \* the same line without "\n", as the server begins a reply
Gone == 103     \* "\n" + error line of the page: the connection is lost
Refused == 104  \* "\n" + error line of the page: the request was refused

Msg(role, text) == [role |-> role, text |-> text]
Question(n) == Msg("user", << <<n, Asked>> >>)
Reply(text) == Msg("assistant", text)
EndsInReply(msgs) == msgs # <<>> /\ Last(msgs).role = "assistant"

-----------------------------------------------------------------------------
\* Mutant: only equal texts are one message.
SameText(a, b) == a # <<>> /\ a = b

\* _same_or_prefix
SameOrPrefix(a, b) == a # <<>> /\ b # <<>> /\ (IsPrefix(a, b) \/ IsPrefix(b, a))

\* _dedup for one incoming message: it is the last stored one written a second
\* time, of which the longer text stays, or it is a new one.
Deduped(stored, m) ==
    IF /\ stored # <<>> /\ Last(stored).role = m.role
       /\ SameOrPrefix(Last(stored).text, m.text)
    THEN IF Len(m.text) > Len(Last(stored).text)
         THEN Append(Front(stored), m) ELSE stored
    ELSE Append(stored, m)

\* assistant_text: an error begins a line of its own, unless nothing precedes it
AnswerText(n, events) ==
    [i \in 1 .. Len(events) |->
        <<n, IF i = 1 /\ events[i] = Error THEN BareError ELSE events[i]>>]
=============================================================================
