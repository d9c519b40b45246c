----------------------------- MODULE SessionLoop ----------------------------
(***************************************************************************)
(* One request served by the agent runtime: AgentRuntime.handle (lib/      *)
(* runtime/agent/runtime.ts), the execution loop it enters (runtime-loop.  *)
(* ts), the finalization and the validation it calls (execution-engine.ts, *)
(* validation-engine.ts), and the clients that ask for the session to be   *)
(* cancelled meanwhile (session-repository.ts behind app/api/runtime/runs/ *)
(* [id]/cancel).                                                           *)
(*                                                                         *)
(* The runtime works on a copy of the session in memory (mem) and writes   *)
(* the whole copy over the stored document (store) at every step, without  *)
(* looking at what is stored.  A canceller reads the document and writes   *)
(* its own copy back if the version is still the one it read.              *)
(*                                                                         *)
(* A step is what happens between two awaits that others can see: one call *)
(* of SessionManager is one step, its mutation, its save and the events it *)
(* appends.  MongoDB may fail a save, or take it and fail the event.       *)
(***************************************************************************)
EXTENDS AgentSession

CONSTANTS
    Clients,         \* who may ask for the session to be cancelled, once each
    MaxCycles,       \* cycles a run may take (12, 20 or 30 in the code)
    MaxReplans,      \* MAX_REPLAN_CYCLES
    MaxToolCalls,    \* bound: tool calls in one answer of the model
    MaxFaults,       \* bound: failed writes
    MaxCrashes,      \* bound: crashes of the process
    MaxResumes,      \* bound: calls of resumeSession
    None             \* a client that has read no document

ASSUME BoundsAssumption ==
    /\ {MaxCycles, MaxReplans, MaxToolCalls, MaxFaults, MaxCrashes, MaxResumes} \subseteq Nat
    /\ MaxCycles >= 1

VARIABLES
    store,           \* the session document in MongoDB
    mem,             \* the session in the memory of the runtime
    pc,              \* the call the runtime makes next
    k,               \* position in InfoTasks or FinalTasks
    cycle,           \* cycles begun by this run
    replans,         \* consecutiveReplanCycles
    turn,            \* the model's last answer and its validation
    error,           \* the last error caught: is it one the retry manager retries?
    stream,          \* did the request ask for streaming?
    seen,            \* what each client read and has not yet written back
    asked,           \* clients whose request was answered
    faults, crashes, resumes

runtimeVars == <<mem, pc, k, cycle, replans, turn, error, stream>>
clientVars  == <<seen, asked>>
bounds      == <<faults, crashes, resumes>>
vars        == <<store, runtimeVars, clientVars, bounds>>

ErrorKind == {"retriable", "permanent"}

(* What an answer of the model amounts to.  "weak" is a text answer with a *)
(* signal of its own against it: text under 20 characters, or three recent *)
(* tool failures.  "failed_tests" and "failed_approval" are failed test    *)
(* commands, by whether the output mentions an approval.                   *)
Content    == {"none", "text", "weak", "empty", "tools"}
Validation == {"none", "passed", "skipped", "failed", "failed_tests", "failed_approval"}
NoTurn     == [content |-> "none", calls |-> 0, validation |-> "none"]

-----------------------------------------------------------------------------
(* Call sites.  transitionRuntimeState is called at 19 places: the state    *)
(* each asks for, and where control goes when it is granted.               *)

Requested(site) ==
    CASE site = "initializing"                                    -> "Initializing"
      [] site \in {"planning", "tool_planning", "reflection_replan"} -> "Planning"
      [] site \in {"executing", "stream_executing"}               -> "Executing"
      [] site \in {"waiting_tool", "gate_tool"}                   -> "Waiting Tool"
      [] site \in {"tool_approval", "gate_approval"}              -> "Waiting Approval"
      [] site \in {"tool_reflecting", "reflecting"}               -> "Reflecting"
      [] site \in {"retrying", "reflection_retry"}                -> "Retrying"
      [] site = "recovering"                                      -> "Recovering"
      [] site = "completed"                                       -> "Completed"
      [] site \in {"failed", "catch_failed", "exhausted"}         -> "Failed"

AfterState(site) ==
    CASE site = "initializing"                             -> "ckpt_initializing"
      [] site = "planning"                                 -> "ckpt_planning"
      [] site = "executing"                                -> "start_model"
      [] site = "stream_executing"                         -> "streaming"
      [] site = "waiting_tool"                             -> "tools"
      [] site = "tool_reflecting"                          -> "tool_planning"
      [] site = "tool_planning"                            -> "ckpt_tools"
      [] site = "reflecting"                               -> "validating"
      [] site = "gate_tool"                                -> "decide"
      [] site \in {"reflection_retry", "reflection_replan"} -> "requeue_reflection"
      [] site = "retrying"                                 -> "requeue_error"
      [] site = "recovering"                               -> "restore"
      [] site \in {"tool_approval", "gate_approval"}       -> "approval"
      [] site \in {"completed", "failed"}                  -> "answered"
      [] site \in {"catch_failed", "exhausted"}            -> "errored"

StateSites ==
    {"initializing", "planning", "executing", "stream_executing", "waiting_tool",
     "tool_approval", "tool_reflecting", "tool_planning", "reflecting",
     "gate_approval", "gate_tool", "reflection_retry", "reflection_replan",
     "completed", "failed", "retrying", "catch_failed", "exhausted", "recovering"}

\* createCheckpoint: where control goes on to from each of its sites.
CheckpointSites == {"ckpt_initializing", "ckpt_planning", "ckpt_tools",
                    "ckpt_reflection", "ckpt_error", "ckpt_recovered"}

AfterCheckpoint(site) ==
    CASE site = "ckpt_initializing" -> "planning"
      [] site = "ckpt_recovered"    -> "initializing"
      [] OTHER                      -> "loop"

\* Where a session stays once the runtime has let go of it: it answered the
\* request, refused it, or an error escaped to the route, which answers 500.
AtRest == {"answered", "cancelled", "approval", "errored", "escaped"}

\* The sites inside the try of the loop: what they throw is caught there.
TryBlock == {"executing", "start_model", "model", "cancel_in_cycle", "waiting_tool",
             "tools", "tool_approval", "tool_reflecting", "tool_planning",
             "ckpt_tools", "finish_model", "reflecting", "validating", "validate",
             "start_final", "finish_final", "final_status", "gate_approval",
             "gate_tool", "decide", "reflection_retry", "reflection_replan",
             "requeue_reflection", "ckpt_reflection", "completed", "failed"}

OtherCalls == {"bootstrap", "start_info", "finish_info", "save_plan", "planned",
               "streaming", "loop", "cancel_at_loop", "catch", "requeue_error",
               "restore", "crashed"}

Control == StateSites \cup CheckpointSites \cup TryBlock
             \cup OtherCalls \cup AtRest

Handler(site) == IF site \in TryBlock THEN "catch" ELSE "escaped"

Throw(kinds) == pc' = Handler(pc) /\ error' \in kinds

(* The end of every SessionManager call: the session s is in memory, its   *)
(* version goes up, the document is overwritten and events are appended.   *)
(* The save may fail, or the events after it: both throw.                  *)
Commit(s, next) ==
    \/ /\ mem' = Saved(s) /\ store' = Saved(s) /\ pc' = next
       /\ UNCHANGED <<error, faults>>
    \/ /\ faults < MaxFaults /\ faults' = faults + 1
       /\ mem' = Saved(s) /\ store' \in {store, Saved(s)}
       /\ Throw(ErrorKind)

\* transitionRuntimeState: an illegal move throws before anything is changed
\* (and the retry manager, which does not know the message, would retry it).
RuntimeTransition(site) ==
    LET to == Requested(site) IN
    IF mem.runtimeState = to \/ CanTransitionRuntimeState(mem.runtimeState, to)
    THEN Commit(WithRuntimeState(mem, to), AfterState(site))
    ELSE Throw({"retriable"}) /\ UNCHANGED <<mem, store, faults>>

local == <<cycle, replans, turn, stream>>
other == <<clientVars, crashes, resumes>>

-----------------------------------------------------------------------------
(* AgentRuntime.handle up to the loop.                                     *)

Bootstrap ==
    /\ pc = "bootstrap"
    /\ Commit(WithStatus(mem, "ANALYZING"), "start_info")
    /\ k' = 1
    /\ UNCHANGED <<local, other>>

StartInfoTask ==
    /\ pc = "start_info"
    /\ Commit(StartTask(mem, InfoTasks[k]), "finish_info")
    /\ UNCHANGED <<k, local, other>>

FinishInfoTask ==
    /\ pc = "finish_info"
    /\ Commit(FinishTask(mem, InfoTasks[k]),
              IF k < Len(InfoTasks) THEN "start_info" ELSE "save_plan")
    /\ k' = IF k < Len(InfoTasks) THEN k + 1 ELSE 1
    /\ UNCHANGED <<local, other>>

SavePlan ==
    /\ pc = "save_plan"
    /\ Commit(mem, IF stream THEN "stream_executing" ELSE "planned")
    /\ UNCHANGED <<k, local, other>>

PlanReady ==
    /\ pc = "planned"
    /\ Commit(WithStatus(mem, "PLANNED"), "initializing")
    /\ UNCHANGED <<k, local, other>>

-----------------------------------------------------------------------------
(* The loop.                                                               *)

\* Every call of transitionRuntimeState, at its site.
EnterState ==
    /\ pc \in StateSites
    /\ RuntimeTransition(pc)
    /\ UNCHANGED <<k, local, other>>

\* Every call of createCheckpoint.
TakeCheckpoint ==
    /\ pc \in CheckpointSites
    /\ Commit(WithCheckpoint(mem), AfterCheckpoint(pc))
    /\ UNCHANGED <<k, local, other>>

\* Mutant: a cancelled session is looked at again instead of being left.
WaitsForever ==
    /\ pc = "loop" /\ cycle < MaxCycles
    /\ turn' = NoTurn
    /\ IF CancellationSeen(store) THEN pc' = "loop" /\ cycle' = cycle
       ELSE pc' = "executing" /\ cycle' = cycle + 1
    /\ UNCHANGED <<store, mem, k, replans, error, stream, faults, other>>

BeginCycle ==
    /\ pc = "loop" /\ cycle < MaxCycles
    /\ cycle' = cycle + 1
    /\ turn' = NoTurn
    /\ pc' = IF CancellationSeen(store) THEN "cancel_at_loop" ELSE "executing"
    /\ UNCHANGED <<store, mem, k, replans, error, stream, faults, other>>

\* The read behind cancellation.refresh fails, outside the try.
RefreshFails ==
    /\ pc = "loop" /\ cycle < MaxCycles
    /\ faults < MaxFaults /\ faults' = faults + 1
    /\ Throw(ErrorKind)
    /\ UNCHANGED <<store, mem, k, local, other>>

ExhaustCycles ==
    /\ pc = "loop" /\ cycle >= MaxCycles
    /\ pc' = "exhausted"
    /\ UNCHANGED <<store, mem, k, local, error, faults, other>>

CancelRun ==
    /\ pc \in {"cancel_at_loop", "cancel_in_cycle"}
    /\ Commit(Cancel(mem), "cancelled")
    /\ UNCHANGED <<k, local, other>>

StartModel ==
    /\ pc = "start_model"
    /\ IF mem.tasks[ModelTask] # "RUNNING"
       THEN Commit(StartTask(mem, ModelTask), "model")
       ELSE pc' = "model" /\ UNCHANGED <<mem, store, error, faults>>
    /\ UNCHANGED <<k, local, other>>

\* The provider fails, or the refresh after its answer does.
ModelFails ==
    /\ pc = "model"
    /\ Throw(ErrorKind)
    /\ UNCHANGED <<store, mem, k, local, faults, other>>

\* An answer, and the cancellation check made before anything is done with it.
Answered(answer, next) ==
    /\ turn' = answer
    /\ pc' = IF CancellationSeen(store) THEN "cancel_in_cycle" ELSE next
    /\ UNCHANGED <<store, mem, k, cycle, replans, error, stream, faults, other>>

ModelAnswers ==
    /\ pc = "model"
    /\ \E c \in {"text", "weak", "empty"} :
          Answered([NoTurn EXCEPT !.content = c], "finish_model")

ModelCallsTools ==
    /\ pc = "model"
    /\ \E n \in 1 .. MaxToolCalls :
          Answered([NoTurn EXCEPT !.content = "tools", !.calls = n], "waiting_tool")

-----------------------------------------------------------------------------
(* A tool turn.                                                            *)

\* A tool or an adapter nobody knows: an error result, nothing is saved.
ToolUnknown ==
    /\ pc = "tools" /\ turn.calls > 0
    /\ turn' = [turn EXCEPT !.calls = @ - 1]
    /\ UNCHANGED <<store, mem, pc, k, cycle, replans, error, stream, faults, other>>

\* The tool runs, well or not; its outcome is saved under the same status.
ToolRuns ==
    /\ pc = "tools" /\ turn.calls > 0
    /\ turn' = [turn EXCEPT !.calls = @ - 1]
    /\ \E modifies \in BOOLEAN :
          Commit([mem EXCEPT !.modifiedFiles = @ \/ modifies], "tools")
    /\ UNCHANGED <<k, cycle, replans, stream, other>>

ToolNeedsApproval ==
    /\ pc = "tools" /\ turn.calls > 0
    /\ pc' = "tool_approval"
    /\ UNCHANGED <<store, mem, k, local, error, faults, other>>

\* Every call answered: the plan is revised in memory before the next state.
FinishToolTurn ==
    /\ pc = "tools" /\ turn.calls = 0
    /\ mem' = Replan(mem)
    /\ pc' = "tool_reflecting"
    /\ UNCHANGED <<store, k, local, error, faults, other>>

-----------------------------------------------------------------------------
(* A final answer: finalizeSession and what follows from its reflection.   *)

FinishModel ==
    /\ pc = "finish_model"
    /\ Commit(FinishTask(mem, ModelTask), "reflecting")
    /\ UNCHANGED <<k, local, other>>

BeginValidation ==
    /\ pc = "validating"
    /\ Commit(WithStatus(mem, "VALIDATING"), "validate")
    /\ UNCHANGED <<k, local, other>>

\* What validate can find.
Findings(s) ==
    CASE ModelTask \notin s.completedTasks -> {"failed"}
      [] ~s.modifiedFiles                  -> {"skipped"}
      [] OTHER -> {"passed", "failed", "failed_tests", "failed_approval"}

\* The lint, build and test commands save the session as they run, or need an
\* approval and do not; their saves, all of the same session, are one here.
Validate ==
    /\ pc = "validate"
    /\ \E v \in Findings(mem) : turn' = [turn EXCEPT !.validation = v]
    /\ \/ mem.modifiedFiles /\ Commit(mem, "start_final")
       \/ pc' = "start_final" /\ UNCHANGED <<store, mem, error, faults>>
    /\ k' = 1
    /\ UNCHANGED <<cycle, replans, stream, other>>

StartFinalTask ==
    /\ pc = "start_final"
    /\ Commit(StartTask(mem, FinalTasks[k]), "finish_final")
    /\ UNCHANGED <<k, local, other>>

FinishFinalTask ==
    /\ pc = "finish_final"
    /\ Commit(FinishTask(mem, FinalTasks[k]),
              IF k < Len(FinalTasks) THEN "start_final" ELSE "final_status")
    /\ k' = IF k < Len(FinalTasks) THEN k + 1 ELSE 1
    /\ UNCHANGED <<local, other>>

(* ReflectionEngine.reflect.  Its quality score never decides anything:    *)
(* with no_tool_progress but neither an empty answer nor a failed          *)
(* validation at most one error counts against it, which leaves it over    *)
(* the threshold of 0.3.                                                   *)
ValidationFailed == turn.validation \in {"failed", "failed_tests", "failed_approval"}
NoToolProgress   == ~mem.modifiedFiles /\ mem.attempts > 1

\* Mutant: repeated attempts are not held against an answer.
SucceedsOnContent == turn.content = "text" /\ ~ValidationFailed

ReflectionSucceeds ==
    turn.content = "text" /\ ~ValidationFailed /\ ~NoToolProgress

ShouldRetry ==
    /\ ~ReflectionSucceeds
    /\ turn.content = "empty"
    /\ \A t \in TaskIds : mem.tasks[t] # "FAILED"

ShouldReplan ==
    /\ ~ReflectionSucceeds /\ ~ShouldRetry
    /\ \/ /\ ValidationFailed
          /\ \A t \in {ModelTask, "validation", "reflection"} : mem.tasks[t] # "FAILED"
       \/ NoToolProgress

\* finalizeSession ends by storing the verdict as the session's status; then
\* failed tests ask for a state that says so.
StoreVerdict ==
    /\ pc = "final_status"
    /\ Commit(WithStatus(mem, IF ReflectionSucceeds THEN "COMPLETED" ELSE "FAILED"),
              CASE turn.validation = "failed_approval" -> "gate_approval"
                [] turn.validation = "failed_tests"    -> "gate_tool"
                [] OTHER                               -> "decide")
    /\ UNCHANGED <<k, local, other>>

TryAgain ==
    /\ pc = "decide" /\ replans < MaxReplans
    /\ \/ ShouldRetry  /\ pc' = "reflection_retry"
       \/ ShouldReplan /\ pc' = "reflection_replan"
    /\ replans' = replans + 1
    /\ UNCHANGED <<store, mem, k, cycle, turn, error, stream, faults, other>>

Conclude ==
    /\ pc = "decide"
    /\ replans >= MaxReplans \/ ~(ShouldRetry \/ ShouldReplan)
    /\ replans' = 0
    /\ pc' = IF mem.status = "COMPLETED" THEN "completed" ELSE "failed"
    /\ UNCHANGED <<store, mem, k, cycle, turn, error, stream, faults, other>>

\* replanAfterFailure and resetTaskForRetry, after either kind of second try.
RequeueModel ==
    /\ pc \in {"requeue_reflection", "requeue_error"}
    /\ Commit(ResetTaskForRetry(Replan(mem), ModelTask),
              IF pc = "requeue_error" THEN "ckpt_error" ELSE "ckpt_reflection")
    /\ UNCHANGED <<k, local, other>>

-----------------------------------------------------------------------------
(* The catch of the loop.                                                  *)

\* RuntimeRetryManager.decide.
RetryAllowed == error = "retriable" /\ mem.attempts + 1 <= mem.maxAttempts

HandleError ==
    /\ pc = "catch"
    /\ Commit(FailTask(mem, ModelTask), IF RetryAllowed THEN "retrying" ELSE "catch_failed")
    /\ UNCHANGED <<k, local, other>>

-----------------------------------------------------------------------------
(* Crash and resume.                                                       *)

\* The process dies: the copy in memory is of no use to anyone any more.
Crash ==
    /\ pc \notin AtRest \cup {"crashed"}
    /\ crashes < MaxCrashes /\ crashes' = crashes + 1
    /\ pc' = "crashed"
    /\ UNCHANGED <<store, mem, k, local, error, faults, clientVars, resumes>>

\* AgentRuntime.resumeSession reads the document and enters loop.resume.
Resume ==
    /\ pc \in AtRest \cup {"crashed"}
    /\ resumes < MaxResumes /\ resumes' = resumes + 1
    /\ mem' = store
    /\ pc' = "recovering"
    /\ cycle' = 0 /\ replans' = 0 /\ turn' = NoTurn /\ stream' = FALSE
    /\ UNCHANGED <<store, k, error, faults, clientVars, crashes>>

\* restoreLatest works on the copy in memory alone.
Restore ==
    /\ pc = "restore"
    /\ mem' = RestoreLatest(mem)
    /\ pc' = "ckpt_recovered"
    /\ UNCHANGED <<store, k, local, error, faults, other>>

-----------------------------------------------------------------------------
(* requestCancellation, by any client, in two steps.                       *)

ReadForCancel(c) ==
    /\ c \notin asked /\ seen[c] = None
    /\ Cancellable(store)
    /\ seen' = [seen EXCEPT ![c] = store]
    /\ UNCHANGED <<store, runtimeVars, asked, bounds>>

\* No document in a cancellable status, or not with the version asked for.
RefuseCancel(c) ==
    /\ c \notin asked /\ seen[c] = None
    /\ asked' = asked \cup {c}
    /\ UNCHANGED <<store, runtimeVars, seen, bounds>>

\* Mutant: the update does not ask for the version that was read.
WriteAnyVersion(c) ==
    /\ seen[c] # None
    /\ store' = CancelledCopy(seen[c])
    /\ seen' = [seen EXCEPT ![c] = None]
    /\ asked' = asked \cup {c}
    /\ UNCHANGED <<runtimeVars, bounds>>

\* The whole document read is written back, if its version is still stored.
WriteCancel(c) ==
    /\ seen[c] # None
    /\ store' = IF store.version = seen[c].version THEN CancelledCopy(seen[c]) ELSE store
    /\ seen' = [seen EXCEPT ![c] = None]
    /\ asked' = asked \cup {c}
    /\ UNCHANGED <<runtimeVars, bounds>>

-----------------------------------------------------------------------------
Init ==
    /\ store = NewSession /\ mem = NewSession
    /\ pc = "bootstrap" /\ k = 1 /\ cycle = 0 /\ replans = 0
    /\ turn = NoTurn /\ error = "retriable" /\ stream \in BOOLEAN
    /\ seen = [c \in Clients |-> None] /\ asked = {}
    /\ faults = 0 /\ crashes = 0 /\ resumes = 0

HandleRequest == Bootstrap \/ StartInfoTask \/ FinishInfoTask \/ SavePlan \/ PlanReady

RunCycle ==
    \/ EnterState \/ TakeCheckpoint \/ BeginCycle \/ RefreshFails \/ ExhaustCycles
    \/ CancelRun \/ StartModel \/ ModelFails \/ ModelAnswers \/ ModelCallsTools

ToolTurn == ToolUnknown \/ ToolRuns \/ ToolNeedsApproval \/ FinishToolTurn

Finalize ==
    \/ FinishModel \/ BeginValidation \/ Validate \/ StartFinalTask
    \/ FinishFinalTask \/ StoreVerdict \/ TryAgain \/ Conclude \/ RequeueModel

RuntimeStep == HandleRequest \/ RunCycle \/ ToolTurn \/ Finalize \/ HandleError \/ Restore

ClientStep == \E c \in Clients : ReadForCancel(c) \/ RefuseCancel(c) \/ WriteCancel(c)

\* The request is over and no client has anything left to ask.
Finished ==
    /\ pc \in AtRest \cup {"crashed"} /\ asked = Clients
    /\ UNCHANGED vars

Next == RuntimeStep \/ Crash \/ Resume \/ ClientStep \/ Finished

Spec == Init /\ [][Next]_vars

\* Every await of the runtime settles: the driver and the provider calls have
\* timeouts of their own, and nothing else can hold the loop up.
FairSpec == Spec /\ WF_vars(RuntimeStep)

-----------------------------------------------------------------------------
(* Properties.                                                             *)

\* Every variable has the type of what it stands for in the code.
TypeOK ==
    /\ store \in Session /\ mem \in Session
    /\ pc \in Control
    /\ k \in 1 .. Len(InfoTasks) \cup 1 .. Len(FinalTasks)
    /\ cycle \in 0 .. MaxCycles /\ replans \in 0 .. MaxReplans
    /\ turn \in [content : Content, calls : 0 .. MaxToolCalls, validation : Validation]
    /\ error \in ErrorKind /\ stream \in BOOLEAN
    /\ seen \in [Clients -> Session \cup {None}] /\ asked \subseteq Clients
    /\ faults \in 0 .. MaxFaults /\ crashes \in 0 .. MaxCrashes
    /\ resumes \in 0 .. MaxResumes

\* The task lists and the task statuses, which SessionManager and the restore
\* update separately, agree in memory, in the stored document and in every
\* checkpoint, whatever failed, crashed or was resumed before.
TaskListsAgree ==
    WellKept(mem) /\ WellKept(store)

\* requestCancellation replaces nothing but what it read: when a client marks
\* the document, every other field keeps what is stored at that moment.
CancelKeepsProgress ==
    [][\A c \in Clients : seen[c] # None /\ seen'[c] = None =>
          store' \in {store, CancelledCopy(store)}]_vars

\* The stored version never goes back, whoever writes: the loop, which never
\* looks at it, a canceller, or a resumed loop that starts from an old copy.
VersionNeverDrops == [][store'.version >= store.version]_vars

\* Both together: nothing that is written takes the document back.
WritesGoForward == CancelKeepsProgress /\ VersionNeverDrops

\* The loop falls behind the stored document by one accepted cancellation at
\* most: its next save goes over the cancelled document at the same version.
AtMostOneCancelAhead == store.version <= mem.version + 1

\* The retry budget is never overdrawn: model-execution is not attempted more
\* often than maxAttempts says, although tool turns, replans and errors all
\* start it again and a resume puts attempts, but not maxAttempts, back.
AttemptsWithinBudget == mem.attempts <= mem.maxAttempts

\* No tool turn gets to the planning that follows it in the loop: the state
\* table refuses to reflect on it, and the turn goes on as a failed attempt.
ToolTurnsNeverPlan == pc # "tool_planning"

\* Every start of model-execution is paid for, and a tool turn is always one
\* that failed (planner.ts 140-175, retry-manager.ts, runtime-loop.ts 170-190).
TurnsAreCounted == AttemptsWithinBudget /\ ToolTurnsNeverPlan

\* With no failed write, crash or resume, every move of the stored runtimeState is
\* one the table of state-machine.ts allows, cancel() included, which does not ask
\* it.  (A restore sets the state and asks nobody.)
StoredMovesAreLegal ==
    [][store'.runtimeState # store.runtimeState =>
          CanTransitionRuntimeState(store.runtimeState, store'.runtimeState)]_vars

\* With none of them, a session stored as COMPLETED has all its tasks done
\* and nothing pending, and stays as it is: neither the loop nor a cancellation
\* that was read before takes it back.
CompletedIsDoneForGood ==
    [][store.status = "COMPLETED" =>
          /\ store'.status = "COMPLETED"
          /\ store.pendingTasks = {}
          /\ \A t \in TaskIds : store.tasks[t] = "COMPLETED"]_vars

\* Both together: what is stored of a session moves as the table says and comes
\* to rest for good.
StoredMovesAreSound == StoredMovesAreLegal /\ CompletedIsDoneForGood

\* When the runtime lets go of a session without a crash, a failed write or an
\* escaped error, the stored status is the one of the stored runtimeState, or
\* says that the session was cancelled.
StatusAgreesAtRest ==
    pc \in AtRest \ {"escaped"} =>
        store.status \in {StatusForRuntimeState(store.runtimeState), "CANCELLED"}

\* A session whose files were not modified is COMPLETED only if the model's
\* first attempt answered: after a retry, a replan or a tool turn reflection
\* finds no_tool_progress and the session ends FAILED, whatever the answer.  And
\* no session that streams is: it asks for Executing from Idle and is refused.
OnlyFirstAttemptsComplete ==
    store.status = "COMPLETED" => ~stream /\ (~store.modifiedFiles => store.attempts = 1)

\* What is stored in the end tells how the session ended.
StoredEndIsTrue == StatusAgreesAtRest /\ OnlyFirstAttemptsComplete

\* Whatever fails, crashes or is resumed: once a session is stored as Completed
\* or Cancelled its runtimeState stays that.  Completed is given up neither by
\* an error after the save, which the loop still catches, nor by a resume.
FinishedStaysFinished ==
    [][store.runtimeState \in {"Completed", "Cancelled"} =>
          store'.runtimeState = store.runtimeState]_vars

\* A resumed run gets to a cycle only where the run before had not asked the model
\* yet: the state that is restored has to allow Initializing, as only that of the
\* first checkpoint does.
ResumesOnlyUnstarted ==
    [][resumes > 0 /\ cycle = 0 /\ cycle' > 0 => mem.attempts = 0]_vars

\* Both together: a resume takes up neither what is over nor what was under way.
ResumesTakeUpLittle == FinishedStaysFinished /\ ResumesOnlyUnstarted

\* Every request ends: the loop comes to an answer, a refusal or an error.
EveryRequestEnds == <>(pc \in AtRest)

-----------------------------------------------------------------------------
(* What the repository says of the session, and the code does not do.      *)

\* "Terminal states are COMPLETED, FAILED, and CANCELLED; no transition may
\* leave a terminal state" (docs/AGENT_RUNTIME_PLAN.md): an accepted
\* cancellation is final.
CancellationIsFinal ==
    [][store.status = "CANCELLED" => store'.status = "CANCELLED"]_vars
=============================================================================
