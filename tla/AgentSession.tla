---------------------------- MODULE AgentSession ----------------------------
(***************************************************************************)
(* The session document and the functions on it: the mutations of          *)
(* lib/runtime/agent/session-manager.ts, the snapshot and the restore of   *)
(* checkpoint-manager.ts and the budget bump of planner.ts.  Each operator *)
(* returns the session a method leaves in memory before it is saved.       *)
(*                                                                         *)
(* Abstracted: lists without duplicates are sets, modifiedFiles is whether *)
(* any file was modified, and of the attempt counters only model-execution *)
(* has one (no other task's counter is ever read).  Of the up to 50        *)
(* checkpoints only the newest is kept: every checkpoint the code creates  *)
(* passes canRestoreFrom, so restoreLatest never looks further.            *)
(***************************************************************************)
EXTENDS RuntimeStates, Naturals, Sequences

CONSTANTS
    InfoTasks,       \* the informational tasks, in order (runtime.ts runs seven)
    NoCheckpoint     \* the newest checkpoint of a session that has none

ModelTask  == "model-execution"
FinalTasks == <<"validation", "reflection", "memory-update", "completion">>
TaskIds    == {InfoTasks[i] : i \in DOMAIN InfoTasks} \cup {ModelTask}
                \cup {FinalTasks[i] : i \in DOMAIN FinalTasks}

TaskStatus == {"PENDING", "RUNNING", "COMPLETED", "FAILED"}

Checkpoint ==
    [runtimeState : RuntimeLifecycleState, tasks : [TaskIds -> TaskStatus],
     pendingTasks : SUBSET TaskIds, runningTasks : SUBSET TaskIds,
     completedTasks : SUBSET TaskIds, attempts : Nat, modifiedFiles : BOOLEAN]

Session ==
    [version : Nat, status : AgentSessionStatus, runtimeState : RuntimeLifecycleState,
     tasks : [TaskIds -> TaskStatus], pendingTasks : SUBSET TaskIds,
     runningTasks : SUBSET TaskIds, completedTasks : SUBSET TaskIds,
     attempts : Nat, maxAttempts : Nat, modifiedFiles : BOOLEAN,
     cancellationRequestedAt : BOOLEAN, checkpoint : Checkpoint \cup {NoCheckpoint}]

ASSUME InfoTasksAssumption ==
    /\ InfoTasks \in Seq(STRING) /\ InfoTasks # <<>>
    /\ \A i, j \in DOMAIN InfoTasks : InfoTasks[i] = InfoTasks[j] => i = j
    /\ \A i \in DOMAIN InfoTasks :
          /\ InfoTasks[i] # ModelTask
          /\ \A j \in DOMAIN FinalTasks : InfoTasks[i] # FinalTasks[j]

ASSUME CheckpointAssumption == NoCheckpoint \notin Checkpoint

\* The document a request starts with; model-execution may be tried three times.
NewSession ==
    [version |-> 1, status |-> "CREATED", runtimeState |-> "Idle",
     tasks |-> [t \in TaskIds |-> "PENDING"], pendingTasks |-> TaskIds,
     runningTasks |-> {}, completedTasks |-> {},
     attempts |-> 0, maxAttempts |-> 3, modifiedFiles |-> FALSE,
     cancellationRequestedAt |-> FALSE, checkpoint |-> NoCheckpoint]

Saved(s) == [s EXCEPT !.version = @ + 1]

WithStatus(s, status) == [s EXCEPT !.status = status]

WithRuntimeState(s, state) ==
    [s EXCEPT !.runtimeState = state, !.status = StatusForRuntimeState(state)]

Bump(s, t) == IF t = ModelTask THEN s.attempts + 1 ELSE s.attempts

StartTask(s, t) ==
    [s EXCEPT !.tasks[t] = "RUNNING", !.attempts = Bump(s, t),
              !.pendingTasks = @ \ {t}, !.runningTasks = @ \cup {t}]

FinishTask(s, t) ==
    [s EXCEPT !.tasks[t] = "COMPLETED", !.runningTasks = @ \ {t},
              !.completedTasks = @ \cup {t}]

\* A failed task may stay on completedTasks or pendingTasks.
FailTask(s, t) == [s EXCEPT !.tasks[t] = "FAILED", !.runningTasks = @ \ {t}]

ResetTaskForRetry(s, t) ==
    [s EXCEPT !.tasks[t] = "PENDING", !.runningTasks = @ \ {t},
              !.pendingTasks = @ \cup {t}]

\* Mutant: the plan is left as it is.
ReplanNothing(s) == s

\* replanAfterFailure raises the attempt budget to admit one more attempt.
Replan(s) ==
    [s EXCEPT !.maxAttempts = IF s.attempts + 1 > @ THEN s.attempts + 1 ELSE @]

Cancel(s) ==
    [s EXCEPT !.cancellationRequestedAt = TRUE, !.status = "CANCELLED",
              !.runtimeState = "Cancelled"]

WithCheckpoint(s) ==
    [s EXCEPT !.checkpoint =
        [runtimeState |-> s.runtimeState, tasks |-> s.tasks,
         pendingTasks |-> s.pendingTasks, runningTasks |-> s.runningTasks,
         completedTasks |-> s.completedTasks, attempts |-> s.attempts,
         modifiedFiles |-> s.modifiedFiles]]

\* The tasks a checkpoint caught in flight: a restore makes them PENDING again.
InFlight(c) == {t \in TaskIds : c.tasks[t] = "RUNNING"}

\* Mutant: tasks in flight come back as RUNNING.
RestoreAsTheyWere(s) ==
    IF s.checkpoint = NoCheckpoint THEN s
    ELSE LET c == s.checkpoint IN
         [s EXCEPT !.runtimeState = c.runtimeState, !.tasks = c.tasks,
                   !.pendingTasks = c.pendingTasks \cup InFlight(c),
                   !.runningTasks = c.runningTasks \ InFlight(c),
                   !.completedTasks = c.completedTasks,
                   !.attempts = c.attempts, !.modifiedFiles = c.modifiedFiles]

\* status, maxAttempts and version are not restored.
RestoreLatest(s) ==
    IF s.checkpoint = NoCheckpoint THEN s
    ELSE LET c == s.checkpoint IN
         [s EXCEPT !.runtimeState = c.runtimeState,
                   !.tasks = [t \in TaskIds |->
                                IF t \in InFlight(c) THEN "PENDING" ELSE c.tasks[t]],
                   !.pendingTasks = c.pendingTasks \cup InFlight(c),
                   !.runningTasks = c.runningTasks \ InFlight(c),
                   !.completedTasks = c.completedTasks,
                   !.attempts = c.attempts, !.modifiedFiles = c.modifiedFiles]

\* What SessionCancellationSignal.refresh makes of the stored document.
CancellationSeen(doc) == doc.status = "CANCELLED" \/ doc.cancellationRequestedAt

\* Mutant: a session that is cancelled already is cancelled again.
CancellableAgain(doc) == doc.status \notin {"COMPLETED", "FAILED"}

\* The statuses requestCancellation accepts.
Cancellable(doc) ==
    doc.status \in {"CREATED", "ANALYZING", "PLANNED", "RUNNING", "VALIDATING"}

\* What requestCancellation writes over the document it read.
CancelledCopy(doc) == [doc EXCEPT !.version = @ + 1, !.status = "CANCELLED"]

\* The lists of a session (or of a checkpoint) agree with its tasks' statuses:
\* runningTasks lists exactly the RUNNING ones, none of which is also pending,
\* and no PENDING or COMPLETED task is missing from its list.
Bookkept(s) ==
    /\ s.runningTasks = {t \in TaskIds : s.tasks[t] = "RUNNING"}
    /\ s.pendingTasks \cap s.runningTasks = {}
    /\ \A t \in TaskIds : s.tasks[t] = "PENDING" => t \in s.pendingTasks
    /\ \A t \in TaskIds : s.tasks[t] = "COMPLETED" => t \in s.completedTasks

\* So do those of the checkpoint a session carries.
WellKept(s) ==
    Bookkept(s) /\ (s.checkpoint # NoCheckpoint => Bookkept(s.checkpoint))
=============================================================================
