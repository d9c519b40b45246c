------------------------------- MODULE Guidance -------------------------------
(***************************************************************************)
(* What a request tells the model about its own conduct: the alarms of     *)
(* the behaviour audit, computed from the messages alone                   *)
(* (behavior-auditor.ts and the detectors it calls), and the operational   *)
(* state kept in Redis from request to request (operational-state.ts),     *)
(* which every request loads, brings up to date with the last messages,    *)
(* tells and saves without waiting for the save (request.ts).              *)
(*                                                                         *)
(* Abstracted: one file, one server command, one known failure; a turn is  *)
(* a call with its result, a claim to be done, or a "/clear" of the user.   *)
(* A call's arguments are always the same, so two calls of a tool have one *)
(* signature.  No message holds a marker of an earlier compaction.         *)
(* Results that are flagged as errors (is_error):                          *)
(*   error      a failure that is known ("permission denied")              *)
(*   gone       "no such file" with the file's name, not a known failure   *)
(* Results that are not, by what their text says:                          *)
(*   ok         a success; of the server's command, with its startup words *)
(*   quiet      nothing                                                    *)
(*   here, elsewhere    a success that names a project's root, the         *)
(*              client's or another                                        *)
(*   odd        "failed to start: address already in use", which holds     *)
(*              "ready", a word of startup                                 *)
(*   exit       "exited with code 1"                                       *)
(*   usage      "invalid argument"                                         *)
(*   shout      "error: failed to start, address already in use"           *)
(***************************************************************************)
EXTENDS Naturals, Sequences, FiniteSets, SequencesExt

CONSTANTS
    Steps,        \* bound: the turns a client may take
    MaxSteps,     \* bound: turns of a conversation
    MaxPending,   \* bound: saves on their way to Redis at a time
    ScanTurns,    \* turns updateStateFromMessages looks at: scanLimit \div 2
    ClearTurns,   \* turns looked at for a /clear: CLEAR_SCAN_WINDOW \div 2
    AuditTurns,   \* turns the detectors look at
    MinRepeats    \* getAdaptiveLoopPolicy(model).minRepeats

Tools   == {"edit", "read", "serve", "remove"}
Flagged  == {"error", "gone"}
Unheard  == {"odd", "exit", "usage", "shout"}
Outcomes == {"ok", "quiet", "here", "elsewhere"} \cup Flagged \cup Unheard
Claim == [tool |-> "none", res |-> "ok"]
Clear == [tool |-> "none", res |-> "clear"]

ASSUME GuidanceAssumption ==
    /\ Steps \subseteq [tool : Tools, res : Outcomes] \cup {Claim, Clear}
    /\ MinRepeats \in {2, 3} /\ AuditTurns >= MinRepeats
    /\ {MaxSteps, MaxPending, ScanTurns, ClearTurns, AuditTurns} \subseteq Nat \ {0}

VARIABLES
    place,     \* the client's root: "here", or "unknown" if it does not name it
    explicit,  \* it names the conversation's id
    log,       \* the turns of the client's conversation
    stored,    \* the operational state in Redis; of a save, the length of the log it has
               \* seen and whether it has missed no turn of it
    pending,   \* saves on their way to Redis
    told,      \* what the last request told the model
    whole,     \* the state it told of has missed no turn
    looks      \* how often a request looked at a known failure, up to 2

gvars == <<place, explicit, log, stored, pending, told, whole, looks>>

LastTurns(h, n) == SubSeq(h, IF Len(h) > n THEN Len(h) - n + 1 ELSE 1, Len(h))
CallsOf(h) ==
    LET calls[i \in 0 .. Len(h)] ==
            IF i = 0 THEN <<>>
            ELSE IF h[i].tool = "none" THEN calls[i - 1] ELSE Append(calls[i - 1], h[i])
    IN  calls[Len(h)]

-----------------------------------------------------------------------------
(* The detectors.                                                          *)

\* buildPairs, detectEditStagnation: failed by the flag, or by the patterns of
\* ERROR_TEXT_PATTERNS.
Failed(t) == t.res \in Flagged \cup {"usage", "shout"}

\* Mutant: an unflagged failure ends a run of failures.
RunByFlag(cs, n) ==
    /\ Len(cs) >= n
    /\ \A t \in ToSet(LastTurns(cs, n)) : t.res \in Flagged /\ t.tool = Last(cs).tool

\* The last n calls failed and are the same.
Run(cs, n) ==
    /\ Len(cs) >= n
    /\ \A t \in ToSet(LastTurns(cs, n)) : Failed(t) /\ t.tool = Last(cs).tool

Audited(h) == CallsOf(LastTurns(h, AuditTurns))

\* The same call failed minRepeats times at the end; or often enough among many failures.
detectFailureLoop(h) ==
    LET cs     == Audited(h)
        failed == {i \in 1 .. Len(cs) : Failed(cs[i])}
    IN  \/ Run(cs, MinRepeats)
        \/ /\ Cardinality(failed) >= 2 * MinRepeats
           /\ \E tool \in Tools : Cardinality({i \in failed : cs[i].tool = tool}) >= MinRepeats

\* How an edit failed: a file that is gone has changed.
classifyEditFailure(t) == IF t.res = "gone" THEN "FILE_CHANGED" ELSE "UNKNOWN"

\* Two edits failed after a read, whatever came after; or in the same way at the end.
detectEditStagnation(h) ==
    LET cs == Audited(h)
        afterRead == {i \in 1 .. Len(cs) : /\ cs[i].tool = "edit" /\ Failed(cs[i])
                                           /\ \E j \in 1 .. i : cs[j].tool = "read"}
    IN  \/ Cardinality(afterRead) >= 2
        \/ /\ Run(cs, 2) /\ cs[Len(cs)].tool = "edit"
           /\ classifyEditFailure(cs[Len(cs)]) = classifyEditFailure(cs[Len(cs) - 1])

\* verifyToolResult: failure by flag or by its own patterns; uncertain if empty, or
\* a removal that is not confirmed.
verifyToolResult(t) ==
    IF t.res \in Flagged \cup {"exit", "shout"} THEN "failure"
    ELSE IF t.res = "quiet" \/ (t.tool = "remove" /\ t.res # "ok") THEN "uncertain"
    ELSE "success"

\* The last text of the last five answers; tool calls come without one.
ClaimScan == 5
Claims(h) == \E i \in 1 .. Len(h) : /\ h[i] = Claim /\ i + ClaimScan > Len(h)
                                   /\ \A j \in i + 1 .. Len(h) : h[j] # Clear

detectPrematureCompletion(h) ==
    LET verdicts == {verifyToolResult(t) : t \in ToSet(Audited(h))}
    IN  Claims(h) /\ ("failure" \in verdicts \/ verdicts = {"uncertain"})

\* Writing and deleting the file by turns, whether or not it succeeded.
detectContradiction(h) ==
    LET events == {i \in 1 .. Len(h) : h[i].tool \in {"edit", "remove"}}
    IN  Cardinality({i \in events : LET before == {j \in events : j < i}
                                    IN  before # {} /\ h[Max(before)].tool # h[i].tool}) >= 2

\* The last server command of the conversation, by what its result says.
analyzeLongRunningProcessOutput(res) ==
    CASE res = "ok" -> "STARTED"
      [] res \in Flagged \cup {"odd", "exit", "shout"} -> "FAILED"
      [] OTHER -> "UNKNOWN"

assessLongRunningProcessHistory(h) ==
    LET served == {i \in 1 .. Len(h) : h[i].tool = "serve"}
    IN  IF served = {} THEN "NONE" ELSE analyzeLongRunningProcessOutput(h[Max(served)].res)

-----------------------------------------------------------------------------
(* The operational state.                                                  *)

defaultOperationalState ==
    [root |-> "unknown", file |-> "unknown", task |-> "none", count |-> 0, blocked |-> FALSE]
Unsaved == [state |-> defaultOperationalState, seen |-> 0, whole |-> TRUE]

\* A server command not tracked yet.
detectBackgroundTask(s, t) ==
    IF t.tool = "serve" /\ s.task = "none" THEN [s EXCEPT !.task = "unknown"] ELSE s

\* Mutant: a failed edit leaves what was known of the file.
ArtifactsOfSuccess(s, t) ==
    CASE t.res = "gone" /\ t.tool # "edit" -> [s EXCEPT !.file = "missing"]
      [] t.tool = "edit" /\ t.res \notin Flagged -> [s EXCEPT !.file = "exists"]
      [] OTHER -> s

\* By an edit's own path; then any tool's error that names the file as missing.
extractArtifactUpdates(s, t) ==
    IF t.res = "gone" THEN [s EXCEPT !.file = "missing"]
    ELSE IF t.tool = "edit"
    THEN [s EXCEPT !.file = IF t.res \in Flagged THEN "failed_create" ELSE "exists"]
    ELSE s

\* detectProjectRoot: the first root a result names is kept.
NoteRoot(s, t) ==
    IF s.root = "unknown" /\ t.res \in {"here", "elsewhere"} THEN [s EXCEPT !.root = t.res] ELSE s

AtMost2(n) == IF n < 2 THEN n ELSE 2

KnownFailure(t) == t.res = "error"

KnownFailures(h) == {i \in 1 .. Len(h) : KnownFailure(h[i])}

\* Every look at a failure counts, the same result's looked at again included.
RecordFailure(s, t) ==
    IF KnownFailure(t)
    THEN [s EXCEPT !.count = AtMost2(@ + 1), !.blocked = @ \/ s.count >= 1]
    ELSE s

\* The words of a startup in a result's text.
HasSignal(t) == t.res \in {"odd", "shout"} \/ (t.tool = "serve" /\ t.res = "ok")

\* Mutant: a server said to run is not heard of again.
RunsForGood(s, t) ==
    IF s.task # "unknown" THEN s
    ELSE IF t.res \in Flagged THEN [s EXCEPT !.task = "failed"]
    ELSE IF HasSignal(t) THEN [s EXCEPT !.task = "running"]
    ELSE s

\* Any tool's error fails the server, any result with its words starts it; failed it stays.
StartupSignal(s, t) ==
    IF s.task \notin {"unknown", "running"} THEN s
    ELSE IF t.res \in Flagged THEN [s EXCEPT !.task = "failed"]
    ELSE IF HasSignal(t) THEN [s EXCEPT !.task = "running"]
    ELSE s

LookAt(s, t) ==
    IF t.tool = "none" THEN s
    ELSE LET known == NoteRoot(extractArtifactUpdates(detectBackgroundTask(s, t), t), t)
         IN  StartupSignal(RecordFailure(known, t), t)

Scanned(h) == LastTurns(h, ScanTurns)

updateStateFromMessages(s, h) ==
    LET turns_ == Scanned(h)
        after[i \in 0 .. Len(turns_)] == IF i = 0 THEN s ELSE LookAt(after[i - 1], turns_[i])
    IN  after[Len(turns_)]

-----------------------------------------------------------------------------
\* buildOperationalGuidance leaves out failed creations and failed servers.
buildOperationalGuidance(s) ==
    [file    |-> IF s.file = "failed_create" THEN "unknown" ELSE s.file,
     task    |-> IF s.task = "failed" THEN "none" ELSE s.task,
     blocked |-> s.blocked]

runBehaviorAudit(h) ==
    [loop |-> detectFailureLoop(h), stagnant |-> detectEditStagnation(h),
     early |-> detectPrematureCompletion(h), contradiction |-> detectContradiction(h),
     server |-> assessLongRunningProcessHistory(h)]

\* The two blocks of text a request adds.
Guide(s, h) == [state |-> buildOperationalGuidance(s), audit |-> runBehaviorAudit(h)]

detectClearReset(h) == Clear \in ToSet(LastTurns(h, ClearTurns))

\* workspacesMatch, without an id: not both unknown, and the same if both are known.
workspacesMatch(current, root) ==
    IF current = "unknown" THEN root # "unknown" ELSE root \in {"unknown", current}

\* evaluateHydration of the state just brought up to date: a conversation of more than
\* one message, neither its id nor its binding given.
Approved(root, h) == ~detectClearReset(h) /\ workspacesMatch(place, root)

\* The request's first guard denies for NULL_WORKSPACE, and deletes what is stored.
Deletes(root, h) == ~explicit /\ ~detectClearReset(h) /\ place = "unknown" /\ root = "unknown"

\* What loadOperationalState may find: the state stored, if the first guard does not
\* delete it or fails to, or a save that arrives in between.
Findable(h) ==
    {stored} \cup pending
      \cup {Unsaved : root \in {r \in {stored.state.root, "unknown"} : Deletes(r, h)}}

GInit ==
    /\ place \in {"unknown", "here"} /\ explicit \in BOOLEAN
    /\ log = <<>> /\ stored = Unsaved /\ pending = {}
    /\ told = Guide(defaultOperationalState, log) /\ whole = TRUE /\ looks = 0

\* transformRequestToGemini on a conversation: after the first guard load, update, tell
\* if the second guard approves, and let the save go.  A failed read finds nothing.
Request(h) ==
    \E found \in Findable(h) : \E from \in {found, Unsaved} :
      LET s == updateStateFromMessages(from.state, h)
      IN  /\ Cardinality(pending) < MaxPending
          /\ stored' = found
          /\ told' = Guide(IF Approved(s.root, h) THEN s ELSE defaultOperationalState, h)
          /\ whole' = (from.whole /\ Len(h) <= from.seen + ScanTurns)
          /\ looks' = AtMost2(looks + Cardinality(KnownFailures(Scanned(h))))
          /\ pending' = (pending \ {found}) \cup {[state |-> s, seen |-> Len(h), whole |-> whole']}
          /\ UNCHANGED <<place, explicit>>

\* The client's next turn.
Advance ==
    /\ Len(log) < MaxSteps
    /\ \E t \in Steps : log' = Append(log, t) /\ Request(log')

\* The client sends the same conversation again.
Resend == log # <<>> /\ Request(log) /\ UNCHANGED log

\* saveOperationalState: a save arrives, in any order, or fails unheard.
saveOperationalState ==
    \E save \in pending :
      /\ pending' = pending \ {save}
      /\ stored' \in {save, stored}
      /\ UNCHANGED <<place, explicit, log, told, whole, looks>>

GNext == Advance \/ Resend \/ saveOperationalState

GSpec == GInit /\ [][GNext]_gvars

-----------------------------------------------------------------------------
\* The file is told to exist or to be missing as the last edit, or the last error
\* that named it as missing, found it, though saves are lost, deleted and overtake
\* each other, as long as every turn was still among the last messages of a request
\* whose save the next ones built upon; and nothing is told of it upon a /clear, nor if
\* the first root the conversation named is not the client's, or neither named one
\* (operational-state.ts 180-238, 413-421; hydration-guard.ts 330-360).
ToldFileIsCurrent ==
    LET n       == Len(log)
        named   == {i \in 1 .. n : log[i].tool # "none" /\ log[i].res \in {"here", "elsewhere"}}
        cleared == \E i \in 1 .. n : log[i] = Clear /\ i + ClearTurns > n
        told_   == ~cleared /\ IF named = {} THEN place = "here"
                               ELSE place = "unknown" \/ log[Min(named)].res = place
        touches == {i \in 1 .. n : log[i].tool = "edit" \/ log[i].res = "gone"}
        last    == log[Max(touches)]
    IN  whole => (told.state.file =
          IF ~told_ \/ touches = {} THEN "unknown"
          ELSE IF last.res = "gone" THEN "missing"
          ELSE IF last.res = "error" THEN "unknown" ELSE "exists")

\* A server is told to be running ("do NOT attempt to restart") beside the
\* supervisor's report of its failure ("diagnose and retry") only if the failure was
\* not flagged: its text's words or exit code failed it for the one, and the other
\* goes by the flag alone (operational-state.ts 558-571, process-supervisor.ts 245-300).
GuidanceAgreesOnServer ==
    whole /\ told.state.task = "running" /\ told.audit.server = "FAILED" =>
      log[Max({i \in 1 .. Len(log) : log[i].tool = "serve"})].res \in Unheard

\* A model that repeats a failing call, writes and deletes a file by turns, or claims
\* to be done upon a failure, is told so whatever went before, but for failures that
\* were not flagged and whose words the detector does not have: an exit code and a
\* failed start may be repeated, and bad arguments and a failed start claimed upon
\* (loop-detector.ts 39-50, verification-engine.ts 22-37, contradiction-detector.ts).
\* A failure is told to be BLOCKED only when requests looked at one twice: at two
\* failures, or, unlike the comment says, at one in two requests (operational-state.ts
\* 531-551).
StuckIsTold ==
    LET n == Len(log)
        Fails(t, unheard) == t.tool # "none" /\ t.res \in (Flagged \cup Unheard) \ unheard
        Repeats(k) == /\ n >= k
                      /\ \A i \in n - k + 1 .. n :
                           Fails(log[i], {"odd", "exit"}) /\ log[i].tool = log[n].tool
    IN  /\ Repeats(MinRepeats) => told.audit.loop
        /\ Repeats(2) /\ log[n].res = log[n - 1].res /\ log[n].tool = "edit" => told.audit.stagnant
        /\ n > 2 /\ (\A i \in n - 1 .. n : {log[i - 1].tool, log[i].tool} = {"edit", "remove"})
             => told.audit.contradiction
        /\ n > 1 /\ log[n] = Claim /\ Fails(log[n - 1], {"odd", "usage"}) => told.audit.early
        /\ told.state.blocked => looks >= 2
===============================================================================
