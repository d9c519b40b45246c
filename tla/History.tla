------------------------------- MODULE History -------------------------------
(***************************************************************************)
(* What becomes of a message history on its way to the model: the stored   *)
(* emergency summary put in its middle (emergency-compactor.ts             *)
(* applyCanonicalEmergencyState), the middle replaced by a summary under   *)
(* token pressure (compaction.ts), the messages turned into contents       *)
(* (request.ts), and those cut again when the model is overloaded          *)
(* (emergency-compactor.ts performEmergencyCompaction).                    *)
(*                                                                         *)
(* Abstracted: a block is what it is and the turn it belongs to; token     *)
(* counts are a choice; a client's history never holds a marker or a       *)
(* header of the gateway's own summaries, which it is never sent.  Indices *)
(* are those of the code, from 0.                                          *)
(***************************************************************************)
EXTENDS Naturals, Sequences, FiniteSets, SequencesExt

CONSTANTS
    KeepFirst, KeepLast,   \* keepFirstN, keepLastN
    FailureAnchorDepth,
    PendingWindow,         \* how far back findPendingToolAnchor looks
    MaxTurns               \* bound: turns of a conversation

ASSUME HistoryAssumption ==
    KeepFirst \in Nat /\ {KeepLast, FailureAnchorDepth, PendingWindow, MaxTurns} \subseteq Nat \ {0}

VARIABLES
    hist,              \* the client's messages
    turns,
    compactionCount,   \* of the stored emergency state, 0 for none
    at,                \* what the request does next
    messages,          \* anthropicReq.messages
    contents           \* geminiBody.contents

vars == <<hist, turns, compactionCount, at, messages, contents>>

Block(says, n)      == [says |-> says, turn |-> n]
Message(role, says, n) == [role |-> role, blocks |-> <<Block(says, n)>>]

\* A message of the client: an answer or a call of the model, and what comes back.
Kinds == {"talk", "result", "failed", "unanswered"}
Turn(n, kind) ==
    <<Message("assistant", IF kind = "talk" THEN "text" ELSE "call", n),
      Message("user", IF kind \in {"result", "failed"} THEN kind ELSE "text", n)>>

Has(m, kinds) == \E b \in ToSet(m.blocks) : b.says \in kinds
HasToolUse(m)    == Has(m, {"call"})
HasToolResult(m) == Has(m, {"result", "failed"})
Calls(m)   == {b.turn : b \in {b \in ToSet(m.blocks) : b.says = "call"}}
Results(m) == {b.turn : b \in {b \in ToSet(m.blocks) : b.says \in {"result", "failed"}}}

At(s, i)     == s[i + 1]
From(s, i)   == SubSeq(s, i + 1, Len(s))
FirstN(s, n)  == SubSeq(s, 1, n)
Least(a, b)    == IF a < b THEN a ELSE b
Greatest(a, b) == IF a > b THEN a ELSE b
Slice(s, i, j) == SubSeq(s, i + 1, Least(j, Len(s)))
Highest(S)     == CHOOSE i \in S : \A j \in S : j <= i
Lowest(S)      == CHOOSE i \in S : \A j \in S : i <= j

-----------------------------------------------------------------------------
(* compaction.ts.                                                          *)

\* Mutant: the boundary may fall between a call and its result.
AnyBoundary(ms, i) == i

\* Back over the messages whose results belong to a call before them.
findSafeBoundary(ms, i) ==
    IF i >= Len(ms) THEN i
    ELSE Highest({0} \cup {j \in 1 .. i : ~HasToolResult(At(ms, j)) \/ HasToolUse(At(ms, j))})

\* Back to the last failures, with the calls they belong to.
findRecentFailureAnchor(ms, start) ==
    LET failures == {i \in 0 .. Len(ms) - 1 : Has(At(ms, i), {"failed"})}
        recent   == {i \in failures : Cardinality({j \in failures : j > i}) < FailureAnchorDepth}
        oldest   == Lowest(recent)
    IN  IF failures = {} THEN start
        ELSE Least(start, IF oldest > 0 /\ At(ms, oldest - 1).role = "assistant"
                             /\ HasToolUse(At(ms, oldest - 1)) THEN oldest - 1 ELSE oldest)

\* Back to the last call that no message from there on answers.
findPendingToolAnchor(ms, start) ==
    LET resolved == UNION {Results(At(ms, i)) : i \in {j \in 0 .. Len(ms) - 1 : j >= start}}
        pending  == {i \in 0 .. Len(ms) - 1 : /\ i < start /\ i + PendingWindow >= start
                                             /\ At(ms, i).role = "assistant"
                                             /\ ~(Calls(At(ms, i)) \subseteq resolved)}
    IN  IF pending = {} THEN start ELSE Highest(pending)

LastPartStart(ms) ==
    LET kept     == IF Len(ms) > KeepLast THEN Len(ms) - KeepLast ELSE 0
        safe     == findSafeBoundary(ms, Greatest(KeepFirst + 1, kept))
        failures == findRecentFailureAnchor(ms, safe)
    IN  findPendingToolAnchor(ms, failures)

Summary == Block("summary", 0)

\* compactMessagesDetailed under pressure: the summary goes before the next user
\* message, or becomes one.
Compacted(ms) ==
    LET start == LastPartStart(ms)
        last  == From(ms, start)
    IN  IF Slice(ms, KeepFirst, start) = <<>> THEN ms
        ELSE FirstN(ms, KeepFirst) \o
             IF last # <<>> /\ last[1].role = "user"
             THEN <<[last[1] EXCEPT !.blocks = <<Summary>> \o @]>> \o Tail(last)
             ELSE <<[role |-> "user", blocks |-> <<Summary>>]>> \o last

-----------------------------------------------------------------------------
(* request.ts, emergency-compactor.ts.                                     *)

\* Messages of one role become one content.
Join(cs, m) ==
    IF cs # <<>> /\ Last(cs).role = m.role
    THEN [cs EXCEPT ![Len(cs)].blocks = @ \o m.blocks]
    ELSE Append(cs, m)

Continue == Message("user", "continue", 0)

\* The contents begin and end with the user.
UserFirstAndLast(cs) ==
    LET ended == IF cs # <<>> /\ Last(cs).role = "assistant" THEN Append(cs, Continue) ELSE cs
    IN  IF ended = <<>> \/ ended[1].role = "assistant" THEN <<Continue>> \o ended ELSE ended

Joined(ms) ==
    LET joined[i \in 0 .. Len(ms)] == IF i = 0 THEN <<>> ELSE Join(joined[i - 1], ms[i])
    IN  UserFirstAndLast(joined[Len(ms)])

KeepHead(n) == IF n >= 2 THEN 1 ELSE 2
KeepTail(n) == IF n >= 2 THEN 3 ELSE 5

\* The head, the summary, the tail: they overlap in a history no longer than the head.
Cut(s, n, summary) ==
    LET head == Least(KeepHead(n), Len(s))
        tail == Least(KeepTail(n), Greatest(1, IF Len(s) > head THEN Len(s) - head ELSE 0))
    IN  FirstN(s, head) \o <<summary>> \o From(s, Len(s) - tail)

MAX_EMERGENCY_COMPACTIONS == 2
MIN_CONTENTS == 8

-----------------------------------------------------------------------------
Init ==
    /\ hist = <<Message("user", "text", 0)>> /\ turns = 0
    /\ compactionCount = 0 /\ at = "idle" /\ messages = <<>> /\ contents = <<>>

\* applyCanonicalEmergencyState, if the hydration guard lets it.
Receive ==
    /\ at = "idle" /\ at' = "compact"
    /\ \/ messages' = hist
       \/ /\ compactionCount > 0
          /\ messages' = Cut(hist, compactionCount, Message("assistant", "summary", 0))
    /\ UNCHANGED <<hist, turns, compactionCount, contents>>

\* compactMessagesDetailed: the token estimate is above the limit or not.
Compact ==
    /\ at = "compact" /\ at' = "call"
    /\ \E ms \in {messages, Compacted(messages)} : contents' = Joined(ms)
    /\ messages' = <<>>
    /\ UNCHANGED <<hist, turns, compactionCount>>

\* Mutant: the tail is cut one short of the end.
OverloadedOffByOne ==
    /\ at = "call" /\ compactionCount < MAX_EMERGENCY_COMPACTIONS /\ Len(contents) >= MIN_CONTENTS
    /\ compactionCount' = compactionCount + 1
    /\ contents' = Joined(Cut(FirstN(contents, Len(contents) - 1), compactionCount + 1, Message("user", "summary", 0)))
    /\ UNCHANGED <<hist, turns, at, messages>>

\* performEmergencyCompaction, where it compacts.
Overloaded ==
    /\ at = "call" /\ compactionCount < MAX_EMERGENCY_COMPACTIONS /\ Len(contents) >= MIN_CONTENTS
    /\ compactionCount' = compactionCount + 1
    /\ contents' = Joined(Cut(contents, compactionCount + 1, Message("user", "summary", 0)))
    /\ UNCHANGED <<hist, turns, at, messages>>

\* The model answers and the client goes on.
Answer ==
    /\ at = "call" /\ turns < MaxTurns /\ at' = "idle"
    /\ \E kind \in Kinds : hist' = hist \o Turn(turns + 1, kind)
    /\ turns' = turns + 1 /\ contents' = <<>>
    /\ UNCHANGED <<compactionCount, messages>>

Next == Receive \/ Compact \/ Overloaded \/ Answer

Spec == Init /\ [][Next]_vars

-----------------------------------------------------------------------------
(* Properties.                                                             *)

RolesAlternate ==
    /\ contents[1].role = "user" /\ Last(contents).role = "user"
    /\ \A i \in 1 .. Len(contents) - 1 : contents[i].role # contents[i + 1].role

PairsPartOnlyAtSummary ==
    \A i \in 1 .. Len(contents) :
        /\ \A n \in Results(contents[i]) :
              \/ i > 1 /\ n \in Calls(contents[i - 1])
              \/ /\ compactionCount > 0
                 /\ Has(contents[i], {"summary"}) \/ (i > 1 /\ Has(contents[i - 1], {"summary"}))
        /\ \A n \in Calls(contents[i]) :
              \/ n \in Results(contents[i + 1])
              \/ Block("text", n) \in ToSet(contents[i + 1].blocks)
              \/ Has(contents[i + 1], {"summary"}) \/ Has(contents[i], {"summary"})

\* Whatever was cut where, what the model is sent begins and ends with the user and
\* alternates.  A result that is sent comes right after its call: only emergency
\* compaction parts them, at its summary.  A call the client answered is sent with
\* its result, except the last one before a summary (compaction.ts 359-498,
\* request.ts 643-836, emergency-compactor.ts 41-320).
HistoryIsAccepted == at = "call" => RolesAlternate /\ PairsPartOnlyAtSummary

\* How long a history is that was cut.
CutLengths == {KeepHead(n) + 1 + KeepTail(n) : n \in 1 .. MAX_EMERGENCY_COMPACTIONS}

\* In the history, or in a cut of it, the last message is the first after the kept ones.
LastIsFirstAfterKept ==
    KeepFirst + 1 = Len(hist) \/ (compactionCount > 0 /\ KeepFirst + 1 \in CutLengths)

\* What the user said last is sent, except when the whole of it was summarised, as
\* all that follows the kept messages (compaction.ts 391-420, emergency-compactor.ts
\* 349-465).
LatestIsKept ==
    at = "call" /\ ~LastIsFirstAfterKept =>
        \E b \in ToSet(Last(contents).blocks) : b \in ToSet(Last(hist).blocks)
=============================================================================
