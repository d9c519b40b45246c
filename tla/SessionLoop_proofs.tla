------------------------- MODULE SessionLoop_proofs -------------------------
(***************************************************************************)
(* Proofs about SessionLoop, for any informational tasks, any number of    *)
(* cancelling clients and any bounds.                                      *)
(*                                                                         *)
(* Everything rests on one inductive invariant, IndInv.  Its first part    *)
(* says that every copy of the session anybody holds - the loop's, the     *)
(* stored one, the one a client read - is sound, and that the control      *)
(* variables have their types; its second part, VersionInv, says how the   *)
(* versions of these copies relate.  A step of the runtime changes the     *)
(* documents in one of two ways only (Writes), which is proved action by   *)
(* action; the rest is about Writes and the clients' three actions.        *)
(*                                                                         *)
(* Four more invariants rest on it: ToolInv, of the turn that calls a      *)
(* tool; BudgetInv, of the attempts that checkpoints leave room for;       *)
(* ResumeInv, of the states in which a session is kept and comes back; and *)
(* QuietInv, of runs that no failed write, crash or resume disturbs.       *)
(***************************************************************************)
EXTENDS SessionLoop, TLAPS

-----------------------------------------------------------------------------
(* What the functions on the session document return and preserve: the     *)
(* type Session, the agreement of task lists and task statuses (WellKept), *)
(* and the version, which saving alone may change.                         *)

\* A document of the right type whose task lists agree with its statuses.
Sound(s) == s \in Session /\ WellKept(s)

\* A session d made from s without a save: sound, and of the same version.
Edited(d, s) == Sound(d) /\ d.version = s.version

-----------------------------------------------------------------------------
\* Every task the runtime names is one of the plan.
LEMMA TaskIdsKnown ==
    /\ ModelTask \in TaskIds
    /\ \A i \in DOMAIN InfoTasks : InfoTasks[i] \in TaskIds
    /\ \A i \in 1 .. Len(FinalTasks) : FinalTasks[i] \in TaskIds
  BY InfoTasksAssumption DEF TaskIds, ModelTask, FinalTasks

\* The status a runtimeState stands for is one of AgentSessionStatus.
LEMMA StatusTyped ==
    \A r \in RuntimeLifecycleState : StatusForRuntimeState(r) \in AgentSessionStatus
  BY DEF RuntimeLifecycleState, StatusForRuntimeState, AgentSessionStatus

\* The session a request starts with is sound.
LEMMA NewSessionSound == Sound(NewSession)
  BY TaskIdsKnown DEF Sound, WellKept, Bookkept, NewSession, Session, TaskStatus,
     AgentSessionStatus, RuntimeLifecycleState

-----------------------------------------------------------------------------
\* Saving makes no difference but to the version.
LEMMA SavedSound ==
    ASSUME NEW s, Sound(s)
    PROVE  /\ Sound(Saved(s))
           /\ Saved(s).version = s.version + 1
           /\ Saved(s).status = s.status
           /\ Saved(s).runtimeState = s.runtimeState
  BY DEF Sound, WellKept, Bookkept, Saved, Session

\* Changing the status leaves a session sound (transition).
LEMMA WithStatusSound ==
    ASSUME NEW s, Sound(s), NEW status \in AgentSessionStatus
    PROVE  Edited(WithStatus(s, status), s)
  BY DEF Edited, Sound, WellKept, Bookkept, WithStatus, Session

\* So does changing the runtimeState, and with it the status
\* (transitionRuntimeState).
LEMMA WithRuntimeStateSound ==
    ASSUME NEW s, Sound(s), NEW r \in RuntimeLifecycleState
    PROVE  Edited(WithRuntimeState(s, r), s) /\ WithRuntimeState(s, r).runtimeState = r
  BY StatusTyped DEF Edited, Sound, WellKept, Bookkept, WithRuntimeState, Session

\* A started task leaves pendingTasks for runningTasks (startTask).
LEMMA StartTaskSound ==
    ASSUME NEW s, Sound(s), NEW t \in TaskIds
    PROVE  Edited(StartTask(s, t), s)
<1> DEFINE d == StartTask(s, t)
<1>1. d \in Session /\ d.version = s.version /\ d.checkpoint = s.checkpoint
  <2>1. Bump(s, t) \in Nat /\ [s.tasks EXCEPT ![t] = "RUNNING"] \in [TaskIds -> TaskStatus]
    BY DEF Sound, Session, Bump, TaskStatus
  <2> QED
    BY <2>1 DEF Sound, StartTask, Session
<1>2. Bookkept(d)
  BY DEF Sound, WellKept, Bookkept, StartTask, Session
<1> QED
  BY <1>1, <1>2 DEF Edited, Sound, WellKept

\* A finished task leaves runningTasks for completedTasks (finishTask).
LEMMA FinishTaskSound ==
    ASSUME NEW s, Sound(s), NEW t \in TaskIds
    PROVE  Edited(FinishTask(s, t), s)
  BY DEF Edited, Sound, WellKept, Bookkept, FinishTask, Session, TaskStatus

\* A failed task leaves runningTasks (failTask).
LEMMA FailTaskSound ==
    ASSUME NEW s, Sound(s), NEW t \in TaskIds
    PROVE  Edited(FailTask(s, t), s)
  BY DEF Edited, Sound, WellKept, Bookkept, FailTask, Session, TaskStatus

\* A task reset for a retry is pending again (resetTaskForRetry).
LEMMA ResetTaskSound ==
    ASSUME NEW s, Sound(s), NEW t \in TaskIds
    PROVE  Edited(ResetTaskForRetry(s, t), s)
  BY DEF Edited, Sound, WellKept, Bookkept, ResetTaskForRetry, Session, TaskStatus

\* A revised plan changes the attempt budget alone (replanAfterFailure).
LEMMA ReplanSound ==
    ASSUME NEW s, Sound(s)
    PROVE  Edited(Replan(s), s) /\ Replan(s).runtimeState = s.runtimeState
  BY DEF Edited, Sound, WellKept, Bookkept, Replan, Session

\* A cancelled session is sound (cancel).
LEMMA CancelSound ==
    ASSUME NEW s, Sound(s)
    PROVE  Edited(Cancel(s), s)
  BY DEF Edited, Sound, WellKept, Bookkept, Cancel, Session, AgentSessionStatus,
     RuntimeLifecycleState

\* So is one whose files a tool may have modified.
LEMMA ModifiedSound ==
    ASSUME NEW s, Sound(s), NEW b \in BOOLEAN
    PROVE  /\ Edited([s EXCEPT !.modifiedFiles = @ \/ b], s)
           /\ [s EXCEPT !.modifiedFiles = @ \/ b].runtimeState = s.runtimeState
  BY DEF Edited, Sound, WellKept, Bookkept, Session

\* A checkpoint of a sound session is as well kept (createCheckpoint).
LEMMA WithCheckpointSound ==
    ASSUME NEW s, Sound(s)
    PROVE  Edited(WithCheckpoint(s), s)
  BY DEF Edited, Sound, WellKept, Bookkept, WithCheckpoint, Session, Checkpoint

\* What a canceller writes over what it read (requestCancellation).
LEMMA CancelledCopySound ==
    ASSUME NEW s, Sound(s)
    PROVE  /\ Sound(CancelledCopy(s))
           /\ CancelledCopy(s).version = s.version + 1
           /\ CancelledCopy(s).status = "CANCELLED"
<1> DEFINE d == CancelledCopy(s)
<1>1. d \in Session /\ d.checkpoint = s.checkpoint
  <2>1. s.version + 1 \in Nat /\ "CANCELLED" \in AgentSessionStatus
    BY DEF Sound, Session, AgentSessionStatus
  <2> QED
    BY <2>1 DEF Sound, CancelledCopy, Session
<1>2. Bookkept(d)
  BY DEF Sound, WellKept, Bookkept, CancelledCopy, Session
<1>3. d.version = s.version + 1 /\ d.status = "CANCELLED"
  BY DEF Sound, CancelledCopy, Session
<1> QED
  BY <1>1, <1>2, <1>3 DEF Sound, WellKept

\* restoreLatest turns the tasks a checkpoint caught in flight into PENDING
\* ones, in the statuses and in the lists alike.
LEMMA RestoreSound ==
    ASSUME NEW s, Sound(s)
    PROVE  Edited(RestoreLatest(s), s)
  BY DEF Edited, Sound, WellKept, Bookkept, RestoreLatest, InFlight, Session,
     Checkpoint, TaskStatus

-----------------------------------------------------------------------------
(* The loop.                                                               *)

\* The control points that use the position k.
PlaceSites == {"start_info", "finish_info", "start_final", "finish_final"}

\* The types of everything but the documents; where the runtime works on a
\* list of tasks, its position is one of that list.
ControlOK ==
    /\ pc \in Control
    /\ k \in 1 .. Len(InfoTasks) \cup 1 .. Len(FinalTasks)
    /\ pc \in {"start_info", "finish_info"} => k \in 1 .. Len(InfoTasks)
    /\ pc \in {"start_final", "finish_final"} => k \in 1 .. Len(FinalTasks)
    /\ cycle \in 0 .. MaxCycles /\ replans \in 0 .. MaxReplans
    /\ turn \in [content : Content, calls : 0 .. MaxToolCalls, validation : Validation]
    /\ error \in ErrorKind /\ stream \in BOOLEAN
    /\ asked \subseteq Clients
    /\ faults \in 0 .. MaxFaults /\ crashes \in 0 .. MaxCrashes
    /\ resumes \in 0 .. MaxResumes

DocsSound ==
    /\ Sound(mem) /\ Sound(store)
    /\ seen \in [Clients -> Session \cup {None}]
    /\ \A c \in Clients : seen[c] # None => Sound(seen[c])

\* The loop is behind the stored document by one cancellation at most, and
\* what a client read is either out of date or what is stored.
VersionInv ==
    /\ store.version <= mem.version + 1
    /\ store.status # "CANCELLED" => store.version <= mem.version
    /\ \A c \in Clients : seen[c] # None =>
          /\ Cancellable(seen[c])
          /\ seen[c].version <= store.version
          /\ seen[c].version = store.version => seen[c] = store

IndInv == ControlOK /\ DocsSound /\ VersionInv

\* What a step of the runtime does to the documents: it saves the copy in
\* memory, or leaves the stored one alone.
Writes ==
    /\ Sound(mem')
    /\ seen' = seen
    /\ \/ mem'.version = mem.version + 1 /\ store' \in {store, mem'}
       \/ mem'.version = mem.version /\ store' = store

-----------------------------------------------------------------------------
\* The table of call sites names runtime states and control points only.
LEMMA SitesKnown ==
    \A site \in StateSites :
        /\ Requested(site) \in RuntimeLifecycleState
        /\ AfterState(site) \in Control \ PlaceSites
<1> SUFFICES ASSUME NEW site \in StateSites
             PROVE  /\ Requested(site) \in RuntimeLifecycleState
                    /\ AfterState(site) \in Control \ PlaceSites
  OBVIOUS
<1>1. Requested(site) \in RuntimeLifecycleState
  BY DEF StateSites, Requested, RuntimeLifecycleState
<1>2. AfterState(site) \in {"ckpt_initializing", "ckpt_planning", "start_model",
         "streaming", "tools", "approval", "tool_planning", "ckpt_tools", "validating",
         "decide", "requeue_reflection", "answered", "requeue_error", "errored", "restore"}
  BY DEF StateSites, AfterState
<1>3. {"ckpt_initializing", "ckpt_planning", "start_model", "streaming", "tools",
       "approval", "tool_planning", "ckpt_tools", "validating", "decide",
       "requeue_reflection", "answered", "requeue_error", "errored", "restore"}
         \subseteq Control \ PlaceSites
  BY DEF Control, CheckpointSites, TryBlock, OtherCalls, AtRest, PlaceSites
<1> QED
  BY <1>1, <1>2, <1>3

\* So does the one of checkpoints.
LEMMA CheckpointSitesKnown ==
    \A site \in CheckpointSites : AfterCheckpoint(site) \in Control \ PlaceSites
  BY DEF StateSites, Control, AfterCheckpoint, OtherCalls, PlaceSites

\* What a step throws lands in the catch of the loop or escapes it.
LEMMA HandlerKnown == \A site : Handler(site) \in {"catch", "escaped"}
  BY DEF Handler

\* The control points that are not call sites of a table.
LEMMA OthersKnown ==
    TryBlock \cup OtherCalls \cup AtRest \subseteq Control
  BY DEF Control

\* Saving an edited copy of mem, with or without a failure.
LEMMA CommitOK ==
    ASSUME DocsSound, ControlOK,
           NEW s, Edited(s, mem), NEW next \in Control, Commit(s, next), seen' = seen
    PROVE  /\ Writes
           /\ pc' \in {next, "catch", "escaped"}
           /\ error' \in ErrorKind /\ faults' \in 0 .. MaxFaults
<1>1. Sound(Saved(s)) /\ Saved(s).version = mem.version + 1
  BY SavedSound DEF Edited
<1>2. mem' = Saved(s) /\ store' \in {store, mem'}
  BY DEF Commit
<1>3. pc' \in {next, "catch", "escaped"} /\ error' \in ErrorKind
  BY HandlerKnown DEF Commit, Throw, ControlOK
<1>4. faults' \in 0 .. MaxFaults
  BY BoundsAssumption DEF Commit, ControlOK
<1> QED
  BY <1>1, <1>2, <1>3, <1>4 DEF Writes

\* A step that changes no control variable but pc, error and faults.
LEMMA OnlyPcMoves ==
    ASSUME ControlOK, UNCHANGED <<k, local, asked, crashes, resumes>>,
           error' \in ErrorKind, faults' \in 0 .. MaxFaults,
           pc' \in Control \ PlaceSites
    PROVE  ControlOK'
  BY DEF ControlOK, local, PlaceSites

\* Where errors land the runtime works on no list of tasks.
LEMMA ErrorExits == {"catch", "escaped"} \subseteq Control \ PlaceSites
  BY DEF Control, OtherCalls, AtRest, PlaceSites

\* A step that only commits an edited copy and goes on to another site.
LEMMA CommitStepOK ==
    ASSUME DocsSound, ControlOK,
           NEW s, Edited(s, mem), NEW next \in Control \ PlaceSites, Commit(s, next),
           UNCHANGED <<k, local, other>>
    PROVE  Writes /\ ControlOK'
<1>1. seen' = seen /\ UNCHANGED <<k, local, asked, crashes, resumes>>
  BY DEF other, clientVars
<1>2. /\ Writes
      /\ pc' \in {next, "catch", "escaped"}
      /\ error' \in ErrorKind /\ faults' \in 0 .. MaxFaults
  BY <1>1, CommitOK
<1> QED
  BY <1>1, <1>2, ErrorExits, OnlyPcMoves

\* A step that leaves the documents alone.
LEMMA IdleStepWrites ==
    ASSUME DocsSound, UNCHANGED <<store, mem, other>>
    PROVE  Writes
  BY DEF DocsSound, Writes, other, clientVars, Sound, WellKept, Bookkept

\* An unchanged copy is an edited one.
LEMMA SameEdited == ASSUME DocsSound PROVE Edited(mem, mem)
  BY DEF DocsSound, Edited

-----------------------------------------------------------------------------
(* The actions, group by group.                                            *)

\* handle saves sound sessions up to the loop.
LEMMA HandleRequestOK == ASSUME IndInv, HandleRequest PROVE Writes /\ ControlOK'
<1> USE DEF IndInv
<1>1. CASE Bootstrap
  <2>1. Edited(WithStatus(mem, "ANALYZING"), mem)
    BY WithStatusSound DEF DocsSound, AgentSessionStatus
  <2>2. seen' = seen /\ UNCHANGED <<local, asked, crashes, resumes>> /\ k' = 1
    BY <1>1 DEF Bootstrap, other, clientVars
  <2>3. "start_info" \in Control
    BY OthersKnown DEF OtherCalls
  <2>4. /\ Writes /\ pc' \in {"start_info", "catch", "escaped"}
        /\ error' \in ErrorKind /\ faults' \in 0 .. MaxFaults
    BY <1>1, <2>1, <2>2, <2>3, CommitOK DEF Bootstrap
  <2>5. 1 \in 1 .. Len(InfoTasks)
    BY InfoTasksAssumption
  <2> QED
    BY <2>2, <2>3, <2>4, <2>5, ErrorExits DEF ControlOK, local, PlaceSites
<1>2. CASE StartInfoTask
  <2>1. k \in 1 .. Len(InfoTasks) /\ InfoTasks[k] \in TaskIds
    BY <1>2, TaskIdsKnown, InfoTasksAssumption DEF StartInfoTask, ControlOK
  <2>2. Edited(StartTask(mem, InfoTasks[k]), mem)
    BY <2>1, StartTaskSound DEF DocsSound
  <2>3. seen' = seen /\ UNCHANGED <<k, local, asked, crashes, resumes>>
    BY <1>2 DEF StartInfoTask, other, clientVars
  <2>4. "finish_info" \in Control
    BY OthersKnown DEF OtherCalls
  <2>5. /\ Writes /\ pc' \in {"finish_info", "catch", "escaped"}
        /\ error' \in ErrorKind /\ faults' \in 0 .. MaxFaults
    BY <1>2, <2>2, <2>3, <2>4, CommitOK DEF StartInfoTask
  <2> QED
    BY <2>1, <2>3, <2>4, <2>5, ErrorExits DEF ControlOK, local, PlaceSites
<1>3. CASE FinishInfoTask
  <2> DEFINE next == IF k < Len(InfoTasks) THEN "start_info" ELSE "save_plan"
  <2>1. k \in 1 .. Len(InfoTasks) /\ InfoTasks[k] \in TaskIds
    BY <1>3, TaskIdsKnown, InfoTasksAssumption DEF FinishInfoTask, ControlOK
  <2>2. Edited(FinishTask(mem, InfoTasks[k]), mem)
    BY <2>1, FinishTaskSound DEF DocsSound
  <2>3. seen' = seen /\ UNCHANGED <<local, asked, crashes, resumes>>
    BY <1>3 DEF FinishInfoTask, other, clientVars
  <2>4. next \in Control /\ "save_plan" \notin PlaceSites
    BY OthersKnown DEF OtherCalls, PlaceSites
  <2>5. Commit(FinishTask(mem, InfoTasks[k]), next)
    BY <1>3 DEF FinishInfoTask
  <2>6. /\ Writes /\ pc' \in {next, "catch", "escaped"}
        /\ error' \in ErrorKind /\ faults' \in 0 .. MaxFaults
    BY <2>2, <2>3, <2>4, <2>5, CommitOK
  <2>7. k' = IF k < Len(InfoTasks) THEN k + 1 ELSE 1
    BY <1>3 DEF FinishInfoTask
  <2>8. k' \in 1 .. Len(InfoTasks)
    BY <2>1, <2>7, InfoTasksAssumption
  <2> QED
    BY <2>3, <2>4, <2>6, <2>8, ErrorExits DEF ControlOK, local, PlaceSites
<1>4. CASE SavePlan
  <2>1. (IF stream THEN "stream_executing" ELSE "planned") \in Control \ PlaceSites
    BY DEF Control, StateSites, OtherCalls, PlaceSites
  <2> QED
    BY <1>4, <2>1, SameEdited, CommitStepOK DEF SavePlan
<1>5. CASE PlanReady
  <2>1. "initializing" \in Control \ PlaceSites
    BY DEF Control, StateSites, PlaceSites
  <2>2. Edited(WithStatus(mem, "PLANNED"), mem)
    BY WithStatusSound DEF DocsSound, AgentSessionStatus
  <2> QED
    BY <1>5, <2>1, <2>2, CommitStepOK DEF PlanReady
<1> QED
  BY <1>1, <1>2, <1>3, <1>4, <1>5 DEF HandleRequest

\* So do the steps of a cycle, the refused transitions among them.
LEMMA RunCycleOK == ASSUME IndInv, RunCycle PROVE Writes /\ ControlOK'
<1> USE DEF IndInv
<1>1. CASE EnterState
  <2> DEFINE to == Requested(pc)
  <2>1. pc \in StateSites /\ UNCHANGED <<k, local, other>> /\ RuntimeTransition(pc)
    BY <1>1 DEF EnterState
  <2>2. to \in RuntimeLifecycleState /\ AfterState(pc) \in Control \ PlaceSites
    BY <2>1, SitesKnown
  <2>3. Edited(WithRuntimeState(mem, to), mem)
    BY <2>2, WithRuntimeStateSound DEF DocsSound
  <2>4. CASE Commit(WithRuntimeState(mem, to), AfterState(pc))
    BY <2>1, <2>2, <2>3, <2>4, CommitStepOK
  <2>5. CASE Throw({"retriable"}) /\ UNCHANGED <<mem, store, faults>>
    <3>1. pc' \in Control \ PlaceSites /\ error' \in ErrorKind /\ faults' \in 0 .. MaxFaults
      BY <2>5, HandlerKnown, ErrorExits DEF Throw, ErrorKind, ControlOK
    <3> QED
      BY <2>1, <2>5, <3>1, IdleStepWrites, OnlyPcMoves DEF other, clientVars
  <2> QED
    BY <2>1, <2>4, <2>5 DEF RuntimeTransition
<1>2. CASE TakeCheckpoint
  <2>1. Edited(WithCheckpoint(mem), mem)
    BY WithCheckpointSound DEF DocsSound
  <2> QED
    BY <1>2, <2>1, CheckpointSitesKnown, CommitStepOK DEF TakeCheckpoint
<1>3. CASE BeginCycle
  <2>1. pc' \in {"cancel_at_loop", "executing"} /\ cycle' \in 0 .. MaxCycles
    BY <1>3, BoundsAssumption DEF BeginCycle, ControlOK
  <2>2. {"cancel_at_loop", "executing"} \subseteq Control \ PlaceSites
    BY DEF Control, OtherCalls, TryBlock, PlaceSites
  <2>3. turn' \in [content : Content, calls : 0 .. MaxToolCalls, validation : Validation]
    BY <1>3, BoundsAssumption DEF BeginCycle, NoTurn, Content, Validation
  <2>4. ControlOK'
    BY <1>3, <2>1, <2>2, <2>3 DEF BeginCycle, ControlOK, PlaceSites, other, clientVars
  <2> QED
    BY <1>3, <2>4, IdleStepWrites DEF BeginCycle
<1>4. CASE RefreshFails
  <2>1. error' \in ErrorKind /\ faults' \in 0 .. MaxFaults /\ pc' \in Control \ PlaceSites
    BY <1>4, BoundsAssumption, HandlerKnown, ErrorExits DEF RefreshFails, Throw, ControlOK
  <2> QED
    BY <1>4, <2>1, OnlyPcMoves, IdleStepWrites DEF RefreshFails, other, clientVars
<1>5. CASE ExhaustCycles
  <2>1. "exhausted" \in Control \ PlaceSites
    BY DEF Control, StateSites, PlaceSites
  <2> QED
    BY <1>5, <2>1, OnlyPcMoves, IdleStepWrites DEF ExhaustCycles, ControlOK, other, clientVars
<1>6. CASE CancelRun
  <2>1. "cancelled" \in Control \ PlaceSites
    BY DEF Control, AtRest, PlaceSites
  <2>2. Edited(Cancel(mem), mem)
    BY CancelSound DEF DocsSound
  <2> QED
    BY <1>6, <2>1, <2>2, CommitStepOK DEF CancelRun
<1>7. CASE StartModel
  <2>1. "model" \in Control \ PlaceSites
    BY DEF Control, TryBlock, PlaceSites
  <2>2. Edited(StartTask(mem, ModelTask), mem)
    BY StartTaskSound, TaskIdsKnown DEF DocsSound
  <2>3. CASE Commit(StartTask(mem, ModelTask), "model")
    BY <1>7, <2>1, <2>2, <2>3, CommitStepOK DEF StartModel
  <2>4. CASE pc' = "model" /\ UNCHANGED <<mem, store, error, faults>>
    BY <1>7, <2>1, <2>4, OnlyPcMoves, IdleStepWrites DEF StartModel, ControlOK, other, clientVars
  <2> QED
    BY <1>7, <2>3, <2>4 DEF StartModel
<1>8. CASE ModelFails
  <2>1. error' \in ErrorKind /\ pc' \in Control \ PlaceSites
    BY <1>8, HandlerKnown, ErrorExits DEF ModelFails, Throw
  <2> QED
    BY <1>8, <2>1, OnlyPcMoves, IdleStepWrites DEF ModelFails, ControlOK, other, clientVars
<1>9. CASE ModelAnswers \/ ModelCallsTools
  <2>1. PICK answer \in [content : Content, calls : 0 .. MaxToolCalls, validation : Validation],
             next \in {"finish_model", "waiting_tool"} : Answered(answer, next)
    <3>1. CASE ModelAnswers
      <4>1. PICK c \in {"text", "weak", "empty"} :
               Answered([NoTurn EXCEPT !.content = c], "finish_model")
        BY <3>1 DEF ModelAnswers
      <4>2. c \in Content /\ 0 \in 0 .. MaxToolCalls /\ "none" \in Validation
        BY BoundsAssumption DEF Content, Validation
      <4>3. [NoTurn EXCEPT !.content = c]
               \in [content : Content, calls : 0 .. MaxToolCalls, validation : Validation]
        BY <4>2 DEF NoTurn
      <4> QED
        BY <4>1, <4>3
    <3>2. CASE ModelCallsTools
      <4>1. PICK n \in 1 .. MaxToolCalls :
               Answered([NoTurn EXCEPT !.content = "tools", !.calls = n], "waiting_tool")
        BY <3>2 DEF ModelCallsTools
      <4>2. n \in 0 .. MaxToolCalls /\ "tools" \in Content /\ "none" \in Validation
        BY BoundsAssumption DEF Content, Validation
      <4>3. [NoTurn EXCEPT !.content = "tools", !.calls = n]
               \in [content : Content, calls : 0 .. MaxToolCalls, validation : Validation]
        BY <4>2 DEF NoTurn
      <4> QED
        BY <4>1, <4>3
    <3> QED
      BY <1>9, <3>1, <3>2
  <2>2. pc' \in {"cancel_in_cycle", "finish_model", "waiting_tool"} /\ turn' = answer
    BY <2>1 DEF Answered
  <2>3. {"cancel_in_cycle", "finish_model", "waiting_tool"} \subseteq Control \ PlaceSites
    BY DEF Control, TryBlock, PlaceSites
  <2>4. ControlOK'
    BY <2>1, <2>2, <2>3 DEF Answered, ControlOK, PlaceSites, other, clientVars
  <2> QED
    BY <2>1, <2>4, IdleStepWrites DEF Answered
<1> QED
  BY <1>1, <1>2, <1>3, <1>4, <1>5, <1>6, <1>7, <1>8, <1>9 DEF RunCycle

\* So does a tool turn, whose last step revises the plan in memory alone.
LEMMA ToolTurnOK == ASSUME IndInv, ToolTurn PROVE Writes /\ ControlOK'
<1> USE DEF IndInv
<1>1. turn.calls > 0 => [turn EXCEPT !.calls = @ - 1]
         \in [content : Content, calls : 0 .. MaxToolCalls, validation : Validation]
  BY BoundsAssumption DEF ControlOK
<1>2. CASE ToolUnknown
  <2>1. ControlOK'
    BY <1>1, <1>2 DEF ToolUnknown, ControlOK, other, clientVars
  <2> QED
    BY <1>2, <2>1, IdleStepWrites DEF ToolUnknown
<1>3. CASE ToolRuns
  <2>1. PICK b \in BOOLEAN : Commit([mem EXCEPT !.modifiedFiles = @ \/ b], "tools")
    BY <1>3 DEF ToolRuns
  <2>2. Edited([mem EXCEPT !.modifiedFiles = @ \/ b], mem)
    BY ModifiedSound DEF DocsSound
  <2>3. "tools" \in Control \ PlaceSites
    BY DEF Control, TryBlock, PlaceSites
  <2>4. seen' = seen /\ UNCHANGED <<k, cycle, replans, stream, asked, crashes, resumes>>
    BY <1>3 DEF ToolRuns, other, clientVars
  <2>5. /\ Writes /\ pc' \in {"tools", "catch", "escaped"}
        /\ error' \in ErrorKind /\ faults' \in 0 .. MaxFaults
    BY <2>1, <2>2, <2>3, <2>4, CommitOK
  <2>6. turn' \in [content : Content, calls : 0 .. MaxToolCalls, validation : Validation]
    BY <1>1, <1>3 DEF ToolRuns
  <2> QED
    BY <2>3, <2>4, <2>5, <2>6, ErrorExits DEF ControlOK, PlaceSites
<1>4. CASE ToolNeedsApproval
  <2>1. "tool_approval" \in Control \ PlaceSites
    BY DEF Control, TryBlock, PlaceSites
  <2> QED
    BY <1>4, <2>1, OnlyPcMoves, IdleStepWrites DEF ToolNeedsApproval, ControlOK, other, clientVars
<1>5. CASE FinishToolTurn
  <2>1. "tool_reflecting" \in Control \ PlaceSites
    BY DEF Control, TryBlock, PlaceSites
  <2>2. Edited(Replan(mem), mem)
    BY ReplanSound DEF DocsSound
  <2>3. Writes
    BY <1>5, <2>2 DEF FinishToolTurn, Writes, Edited, other, clientVars
  <2> QED
    BY <1>5, <2>1, <2>3, OnlyPcMoves DEF FinishToolTurn, ControlOK, other, clientVars
<1> QED
  BY <1>2, <1>3, <1>4, <1>5 DEF ToolTurn

\* So do finalizeSession and what follows from its reflection.
LEMMA FinalizeOK == ASSUME IndInv, Finalize PROVE Writes /\ ControlOK'
<1> USE DEF IndInv
<1>1. CASE FinishModel
  <2>1. "reflecting" \in Control \ PlaceSites
    BY DEF Control, TryBlock, PlaceSites
  <2>2. Edited(FinishTask(mem, ModelTask), mem)
    BY FinishTaskSound, TaskIdsKnown DEF DocsSound
  <2> QED
    BY <1>1, <2>1, <2>2, CommitStepOK DEF FinishModel
<1>2. CASE BeginValidation
  <2>1. "validate" \in Control \ PlaceSites
    BY DEF Control, TryBlock, PlaceSites
  <2>2. Edited(WithStatus(mem, "VALIDATING"), mem)
    BY WithStatusSound DEF DocsSound, AgentSessionStatus
  <2> QED
    BY <1>2, <2>1, <2>2, CommitStepOK DEF BeginValidation
<1>3. CASE Validate
  <2>1. seen' = seen /\ UNCHANGED <<cycle, replans, stream, asked, crashes, resumes>>
    BY <1>3 DEF Validate, other, clientVars
  <2>2. PICK v \in Findings(mem) : turn' = [turn EXCEPT !.validation = v]
    BY <1>3 DEF Validate
  <2>3. v \in Validation
    BY <2>2 DEF Findings, Validation
  <2>4. turn' \in [content : Content, calls : 0 .. MaxToolCalls, validation : Validation]
    BY <2>2, <2>3 DEF ControlOK
  <2>5. "start_final" \in Control
    BY DEF Control, TryBlock
  <2>6. /\ Writes /\ pc' \in {"start_final", "catch", "escaped"}
        /\ error' \in ErrorKind /\ faults' \in 0 .. MaxFaults
    <3>1. CASE Commit(mem, "start_final")
      BY <2>1, <2>5, <3>1, SameEdited, CommitOK
    <3>2. CASE pc' = "start_final" /\ UNCHANGED <<store, mem, error, faults>>
      BY <1>3, <3>2, IdleStepWrites DEF Validate, ControlOK
    <3> QED
      BY <1>3, <3>1, <3>2 DEF Validate
  <2>7. k' \in 1 .. Len(FinalTasks)
    BY <1>3 DEF Validate, FinalTasks
  <2> QED
    BY <2>1, <2>4, <2>5, <2>6, <2>7, ErrorExits DEF ControlOK, PlaceSites
<1>4. CASE StartFinalTask
  <2>1. k \in 1 .. Len(FinalTasks) /\ FinalTasks[k] \in TaskIds
    BY <1>4, TaskIdsKnown DEF StartFinalTask, ControlOK
  <2>2. Edited(StartTask(mem, FinalTasks[k]), mem)
    BY <2>1, StartTaskSound DEF DocsSound
  <2>3. seen' = seen /\ UNCHANGED <<k, local, asked, crashes, resumes>>
    BY <1>4 DEF StartFinalTask, other, clientVars
  <2>4. "finish_final" \in Control
    BY DEF Control, TryBlock
  <2>5. /\ Writes /\ pc' \in {"finish_final", "catch", "escaped"}
        /\ error' \in ErrorKind /\ faults' \in 0 .. MaxFaults
    BY <1>4, <2>2, <2>3, <2>4, CommitOK DEF StartFinalTask
  <2> QED
    BY <2>1, <2>3, <2>4, <2>5, ErrorExits DEF ControlOK, local, PlaceSites
<1>5. CASE FinishFinalTask
  <2> DEFINE next == IF k < Len(FinalTasks) THEN "start_final" ELSE "final_status"
  <2>1. k \in 1 .. Len(FinalTasks) /\ FinalTasks[k] \in TaskIds
    BY <1>5, TaskIdsKnown DEF FinishFinalTask, ControlOK
  <2>2. Edited(FinishTask(mem, FinalTasks[k]), mem)
    BY <2>1, FinishTaskSound DEF DocsSound
  <2>3. seen' = seen /\ UNCHANGED <<local, asked, crashes, resumes>>
    BY <1>5 DEF FinishFinalTask, other, clientVars
  <2>4. next \in Control /\ "final_status" \notin PlaceSites
    BY DEF Control, TryBlock, PlaceSites
  <2>5. Commit(FinishTask(mem, FinalTasks[k]), next)
    BY <1>5 DEF FinishFinalTask
  <2>6. /\ Writes /\ pc' \in {next, "catch", "escaped"}
        /\ error' \in ErrorKind /\ faults' \in 0 .. MaxFaults
    BY <2>2, <2>3, <2>4, <2>5, CommitOK
  <2>7. k' = IF k < Len(FinalTasks) THEN k + 1 ELSE 1
    BY <1>5 DEF FinishFinalTask
  <2>8. k' \in 1 .. Len(FinalTasks)
    BY <2>1, <2>7 DEF FinalTasks
  <2> QED
    BY <2>3, <2>4, <2>6, <2>8, ErrorExits DEF ControlOK, local, PlaceSites
<1>6. CASE StoreVerdict
  <2> DEFINE next == CASE turn.validation = "failed_approval" -> "gate_approval"
                       [] turn.validation = "failed_tests"    -> "gate_tool"
                       [] OTHER                               -> "decide"
             verdict == IF ReflectionSucceeds THEN "COMPLETED" ELSE "FAILED"
  <2>1. next \in {"gate_approval", "gate_tool", "decide"}
    OBVIOUS
  <2>2. {"gate_approval", "gate_tool", "decide"} \subseteq Control \ PlaceSites
    BY DEF Control, TryBlock, PlaceSites
  <2>3. verdict \in AgentSessionStatus
    BY DEF AgentSessionStatus
  <2>4. Edited(WithStatus(mem, verdict), mem)
    BY <2>3, WithStatusSound DEF DocsSound
  <2>5. Commit(WithStatus(mem, verdict), next) /\ UNCHANGED <<k, local, other>>
    BY <1>6 DEF StoreVerdict
  <2> HIDE DEF next, verdict
  <2>6. next \in Control \ PlaceSites
    BY <2>1, <2>2
  <2> QED
    BY <2>4, <2>5, <2>6, CommitStepOK
<1>7. CASE TryAgain
  <2>1. pc' \in {"reflection_retry", "reflection_replan"} /\ replans' \in 0 .. MaxReplans
    BY <1>7, BoundsAssumption DEF TryAgain, ControlOK
  <2>2. {"reflection_retry", "reflection_replan"} \subseteq Control \ PlaceSites
    BY DEF Control, TryBlock, PlaceSites
  <2>3. ControlOK'
    BY <1>7, <2>1, <2>2 DEF TryAgain, ControlOK, PlaceSites, other, clientVars
  <2> QED
    BY <1>7, <2>3, IdleStepWrites DEF TryAgain
<1>8. CASE Conclude
  <2>1. pc' \in {"completed", "failed"} /\ replans' \in 0 .. MaxReplans
    BY <1>8, BoundsAssumption DEF Conclude, ControlOK
  <2>2. {"completed", "failed"} \subseteq Control \ PlaceSites
    BY DEF Control, TryBlock, PlaceSites
  <2>3. ControlOK'
    BY <1>8, <2>1, <2>2 DEF Conclude, ControlOK, PlaceSites, other, clientVars
  <2> QED
    BY <1>8, <2>3, IdleStepWrites DEF Conclude
<1>9. CASE RequeueModel
  <2> DEFINE next == IF pc = "requeue_error" THEN "ckpt_error" ELSE "ckpt_reflection"
  <2>1. next \in Control \ PlaceSites
    BY DEF Control, CheckpointSites, PlaceSites
  <2>2. Edited(Replan(mem), mem)
    BY ReplanSound DEF DocsSound
  <2>3. Edited(ResetTaskForRetry(Replan(mem), ModelTask), mem)
    BY <2>2, ResetTaskSound, TaskIdsKnown DEF Edited
  <2>4. Commit(ResetTaskForRetry(Replan(mem), ModelTask), next) /\ UNCHANGED <<k, local, other>>
    BY <1>9 DEF RequeueModel
  <2> QED
    BY <2>1, <2>3, <2>4, CommitStepOK
<1> QED
  BY <1>1, <1>2, <1>3, <1>4, <1>5, <1>6, <1>7, <1>8, <1>9 DEF Finalize

\* So does the catch of the loop.
LEMMA HandleErrorOK == ASSUME IndInv, HandleError PROVE Writes /\ ControlOK'
<1> DEFINE next == IF RetryAllowed THEN "retrying" ELSE "catch_failed"
<1>1. next \in Control \ PlaceSites
  BY DEF Control, StateSites, PlaceSites
<1>2. Edited(FailTask(mem, ModelTask), mem)
  BY FailTaskSound, TaskIdsKnown DEF IndInv, DocsSound
<1>3. Commit(FailTask(mem, ModelTask), next) /\ UNCHANGED <<k, local, other>>
  BY DEF HandleError
<1> HIDE DEF next
<1> QED
  BY <1>1, <1>2, <1>3, CommitStepOK DEF IndInv

\* restoreLatest makes a sound copy in memory and saves nothing.
LEMMA RestoreOK == ASSUME IndInv, Restore PROVE Writes /\ ControlOK'
<1>1. "ckpt_recovered" \in Control \ PlaceSites
  BY DEF Control, CheckpointSites, PlaceSites
<1>2. Edited(RestoreLatest(mem), mem)
  BY RestoreSound DEF IndInv, DocsSound
<1>3. Writes
  BY <1>2 DEF Restore, Writes, Edited, other, clientVars
<1> QED
  BY <1>1, <1>3, OnlyPcMoves DEF IndInv, Restore, ControlOK, other, clientVars

\* A step of the runtime saves a sound session or leaves the document alone.
LEMMA RuntimeStepOK == ASSUME IndInv, RuntimeStep PROVE Writes /\ ControlOK'
  BY HandleRequestOK, RunCycleOK, ToolTurnOK, FinalizeOK, HandleErrorOK, RestoreOK
     DEF RuntimeStep

-----------------------------------------------------------------------------
(* IndInv is inductive.                                                    *)

\* After a step of the runtime the versions are still in order: a save leaves
\* the stored document no older than what the loop, one cancellation behind at
\* most, goes over; and at the same version it can only be over a cancelled
\* one, which no client holds, since it was not cancellable when written.
LEMMA WritesKeepVersions ==
    ASSUME DocsSound, VersionInv, Writes
    PROVE  DocsSound' /\ VersionInv' /\ store'.version >= store.version
<1>1. /\ mem.version \in Nat /\ store.version \in Nat /\ mem'.version \in Nat
      /\ \A c \in Clients : seen[c] # None => seen[c].version \in Nat
  BY DEF DocsSound, Writes, Sound, Session
<1>2. CASE store' = store /\ mem'.version \in {mem.version, mem.version + 1}
  <2>1. DocsSound'
    BY <1>2 DEF DocsSound, Writes
  <2>2. VersionInv'
    BY <1>1, <1>2 DEF VersionInv, Writes
  <2> QED
    BY <1>1, <1>2, <2>1, <2>2
<1>3. CASE store' = mem' /\ mem'.version = mem.version + 1
  <2>1. DocsSound'
    BY <1>3 DEF DocsSound, Writes
  <2>2. store'.version >= store.version
    BY <1>1, <1>3 DEF VersionInv
  <2>3. ASSUME NEW c \in Clients, seen[c] # None
        PROVE  seen[c].version < store'.version
    <3>1. seen[c].version <= store.version /\ Cancellable(seen[c])
      BY <2>3 DEF VersionInv
    <3>2. CASE store.version <= mem.version
      BY <1>1, <1>3, <2>3, <3>1, <3>2
    <3>3. CASE store.version = mem.version + 1
      <4>1. store.status = "CANCELLED"
        BY <1>1, <3>3 DEF VersionInv
      <4>2. seen[c] # store
        BY <3>1, <4>1 DEF Cancellable
      <4> QED
        BY <1>1, <1>3, <2>3, <3>1, <3>3, <4>2 DEF VersionInv
    <3> QED
      BY <1>1, <3>2, <3>3 DEF VersionInv
  <2>4. VersionInv'
    <3>1. seen' = seen /\ store'.version <= mem'.version
      BY <1>1, <1>3 DEF Writes
    <3>2. store'.version <= mem'.version + 1
      BY <1>1, <1>3
    <3>3. \A c \in Clients : seen[c] # None => seen[c].version < store'.version
      BY <2>3
    <3>4. store'.version \in Nat
      BY <1>1, <1>3
    <3> QED
      BY <1>1, <3>1, <3>2, <3>3, <3>4 DEF VersionInv
  <2> QED
    BY <2>1, <2>2, <2>4
<1> QED
  BY <1>2, <1>3 DEF Writes

\* A step of a client leaves the loop alone, and the stored document too unless
\* it is what the client read.
LEMMA ClientStepOK ==
    ASSUME IndInv, NEW c \in Clients,
           ReadForCancel(c) \/ RefuseCancel(c) \/ WriteCancel(c)
    PROVE  /\ IndInv'
           /\ store' \in {store, CancelledCopy(store)}
           /\ store'.version >= store.version
<1>1. /\ mem.version \in Nat /\ store.version \in Nat
      /\ \A d \in Clients : seen[d] # None => seen[d].version \in Nat
  BY DEF IndInv, DocsSound, Sound, Session
<1>2. ControlOK'
  BY DEF IndInv, ControlOK, ReadForCancel, RefuseCancel, WriteCancel, runtimeVars, bounds
<1>3. CASE ReadForCancel(c)
  <2>1. DocsSound'
    BY <1>3 DEF IndInv, DocsSound, ReadForCancel, runtimeVars, Sound
  <2>2. VersionInv'
    BY <1>1, <1>3 DEF IndInv, DocsSound, VersionInv, ReadForCancel, runtimeVars
  <2>3. store' = store
    BY <1>3 DEF ReadForCancel
  <2> QED
    BY <1>1, <1>2, <2>1, <2>2, <2>3 DEF IndInv
<1>4. CASE RefuseCancel(c)
  <2>1. UNCHANGED <<store, mem, seen>>
    BY <1>4 DEF RefuseCancel, runtimeVars
  <2>2. DocsSound' /\ VersionInv'
    BY <2>1 DEF IndInv, DocsSound, VersionInv
  <2> QED
    BY <1>1, <1>2, <2>1, <2>2 DEF IndInv
<1>5. CASE WriteCancel(c)
  <2>1. /\ mem' = mem /\ seen[c] # None /\ seen' = [seen EXCEPT ![c] = None]
        /\ store' = IF store.version = seen[c].version THEN CancelledCopy(seen[c]) ELSE store
    BY <1>5 DEF WriteCancel, runtimeVars
  <2>2. CASE store' = store
    <3>1. DocsSound'
      BY <2>1, <2>2 DEF IndInv, DocsSound
    <3>2. VersionInv'
      BY <2>1, <2>2 DEF IndInv, DocsSound, VersionInv
    <3> QED
      BY <1>1, <1>2, <2>2, <3>1, <3>2 DEF IndInv
  <2>3. CASE store' # store
    <3>1. store' = CancelledCopy(store) /\ store.status # "CANCELLED"
      <4>1. seen[c].version = store.version /\ store' = CancelledCopy(seen[c])
        BY <2>1, <2>3
      <4>2. seen[c] = store /\ Cancellable(seen[c])
        BY <2>1, <4>1 DEF IndInv, VersionInv
      <4> QED
        BY <4>1, <4>2 DEF Cancellable
    <3>2. Sound(store') /\ store'.version = store.version + 1 /\ store'.status = "CANCELLED"
      BY <3>1, CancelledCopySound DEF IndInv, DocsSound
    <3>3. DocsSound'
      BY <2>1, <3>2 DEF IndInv, DocsSound
    <3>4. VersionInv'
      <4>1. store'.version <= mem'.version + 1
        BY <1>1, <2>1, <3>1, <3>2 DEF IndInv, VersionInv
      <4>2. ASSUME NEW d \in Clients, seen'[d] # None
            PROVE  Cancellable(seen'[d]) /\ seen'[d].version < store'.version
        <5>1. seen'[d] = seen[d] /\ seen[d] # None
          BY <2>1, <4>2 DEF IndInv, DocsSound
        <5> QED
          BY <1>1, <3>2, <5>1 DEF IndInv, VersionInv
      <4>3. \A d \in Clients : seen'[d] # None => seen'[d].version \in Nat
        BY <1>1, <2>1 DEF IndInv, DocsSound
      <4> QED
        BY <1>1, <3>2, <4>1, <4>2, <4>3 DEF VersionInv
    <3> QED
      BY <1>1, <1>2, <3>1, <3>2, <3>3, <3>4 DEF IndInv
  <2> QED
    BY <2>2, <2>3
<1> QED
  BY <1>3, <1>4, <1>5

\* A crash changes nothing the invariant speaks of, and a resumed loop starts
\* from the stored document.
LEMMA CrashOrResumeOK ==
    ASSUME IndInv, Crash \/ Resume
    PROVE  IndInv' /\ store' = store
<1>1. CASE Crash
  <2>1. "crashed" \in Control \ PlaceSites
    BY DEF Control, OtherCalls, PlaceSites
  <2>2. ControlOK'
    BY <1>1, <2>1, BoundsAssumption DEF IndInv, ControlOK, Crash, PlaceSites, local, clientVars
  <2>3. UNCHANGED <<store, mem, seen>>
    BY <1>1 DEF Crash, clientVars
  <2> QED
    BY <2>2, <2>3 DEF IndInv, DocsSound, VersionInv
<1>2. CASE Resume
  <2>1. "recovering" \in Control \ PlaceSites
    BY DEF Control, StateSites, PlaceSites
  <2>2. NoTurn \in [content : Content, calls : 0 .. MaxToolCalls, validation : Validation]
    BY BoundsAssumption DEF NoTurn, Content, Validation
  <2>3. ControlOK'
    <3>1. 0 \in 0 .. MaxCycles /\ 0 \in 0 .. MaxReplans /\ resumes' \in 0 .. MaxResumes
      BY <1>2, BoundsAssumption DEF IndInv, ControlOK, Resume
    <3>2. /\ pc' = "recovering" /\ cycle' = 0 /\ replans' = 0 /\ turn' = NoTurn
          /\ stream' = FALSE /\ UNCHANGED <<k, error, faults, asked, crashes>>
      BY <1>2 DEF Resume, clientVars
    <3> QED
      BY <2>1, <2>2, <3>1, <3>2 DEF IndInv, ControlOK, PlaceSites
  <2>4. mem' = store /\ store' = store /\ seen' = seen
    BY <1>2 DEF Resume, clientVars
  <2>5. store.version \in Nat
    BY DEF IndInv, DocsSound, Sound, Session
  <2>6. DocsSound' /\ VersionInv'
    BY <2>4, <2>5 DEF IndInv, DocsSound, VersionInv
  <2> QED
    BY <2>3, <2>4, <2>6 DEF IndInv
<1> QED
  BY <1>1, <1>2

\* A request starts with every copy of the session the same, and sound.
LEMMA InitOK == Init => IndInv
<1> SUFFICES ASSUME Init PROVE IndInv
  OBVIOUS
<1>1. "bootstrap" \in Control \ PlaceSites
  BY DEF Control, OtherCalls, PlaceSites
<1>2. NoTurn \in [content : Content, calls : 0 .. MaxToolCalls, validation : Validation]
  BY BoundsAssumption DEF NoTurn, Content, Validation
<1>3. 1 \in 1 .. Len(InfoTasks)
  BY InfoTasksAssumption
<1>4. ControlOK
  BY <1>1, <1>2, <1>3, BoundsAssumption DEF Init, ControlOK, PlaceSites, ErrorKind
<1>5. DocsSound
  BY NewSessionSound DEF Init, DocsSound
<1>6. VersionInv
  BY DEF Init, VersionInv, NewSession
<1> QED
  BY <1>4, <1>5, <1>6 DEF IndInv

\* What every step does, whoever takes it.
LEMMA StepOK ==
    IndInv /\ [Next]_vars => IndInv' /\ store'.version >= store.version
<1> SUFFICES ASSUME IndInv, [Next]_vars
             PROVE  IndInv' /\ store'.version >= store.version
  OBVIOUS
<1>1. store.version \in Nat
  BY DEF IndInv, DocsSound, Sound, Session
<1>2. CASE RuntimeStep
  BY <1>2, RuntimeStepOK, WritesKeepVersions DEF IndInv
<1>3. CASE Crash \/ Resume
  BY <1>1, <1>3, CrashOrResumeOK
<1>4. CASE ClientStep
  BY <1>4, ClientStepOK DEF ClientStep
<1>5. CASE UNCHANGED vars
  BY <1>1, <1>5 DEF IndInv, ControlOK, DocsSound, VersionInv, vars, runtimeVars, clientVars, bounds
<1> QED
  BY <1>2, <1>3, <1>4, <1>5 DEF Next, Finished

\* IndInv holds of every reachable state.
THEOREM Invariance == Spec => []IndInv
<1>1. Init => IndInv
  BY InitOK
<1>2. IndInv /\ [Next]_vars => IndInv'
  BY StepOK
<1> QED
  BY <1>1, <1>2, PTL DEF Spec

-----------------------------------------------------------------------------
(* What follows for the properties that the runs check.                    *)

\* Type correctness, for every value of the constants.
THEOREM TypeCorrect == Spec => []TypeOK
<1>1. IndInv => TypeOK
  BY DEF IndInv, ControlOK, DocsSound, Sound, TypeOK
<1> QED
  BY <1>1, Invariance, PTL

\* Whatever fails, crashes or is resumed, the task lists and statuses of a
\* session and of its newest checkpoint agree, in memory and as stored.
THEOREM ListsAgree == Spec => []TaskListsAgree
<1>1. IndInv => TaskListsAgree
  BY DEF IndInv, DocsSound, Sound, TaskListsAgree
<1> QED
  BY <1>1, Invariance, PTL

\* However many clients cancel, the loop is behind by one version at most.
THEOREM OneCancelAhead == Spec => []AtMostOneCancelAhead
<1>1. IndInv => AtMostOneCancelAhead
  BY DEF IndInv, VersionInv, AtMostOneCancelAhead
<1> QED
  BY <1>1, Invariance, PTL

\* However many clients cancel, the stored version never goes back.
THEOREM VersionsGrow == Spec => VersionNeverDrops
<1>1. IndInv /\ [Next]_vars => [store'.version >= store.version]_vars
  BY StepOK
<1> QED
  BY <1>1, Invariance, PTL DEF Spec, VersionNeverDrops

\* A client that marks the document replaces nothing but what it read: what it
\* read is either stored still, or out of date and not written.
THEOREM CancelsKeepProgress == Spec => CancelKeepsProgress
<1> DEFINE Keeps == \A c \in Clients : seen[c] # None /\ seen'[c] = None =>
                      store' \in {store, CancelledCopy(store)}
<1>1. IndInv /\ [Next]_vars => [Keeps]_vars
  <2> SUFFICES ASSUME IndInv, Next PROVE Keeps
    OBVIOUS
  <2>1. CASE RuntimeStep
    <3>1. seen' = seen
      BY <2>1, RuntimeStepOK DEF Writes
    <3> QED
      BY <3>1
  <2>2. CASE Crash \/ Resume
    BY <2>2, CrashOrResumeOK
  <2>3. CASE ClientStep
    BY <2>3, ClientStepOK DEF ClientStep
  <2>4. CASE Finished
    BY <2>4 DEF Finished, vars
  <2> QED
    BY <2>1, <2>2, <2>3, <2>4 DEF Next
<1> QED
  BY <1>1, Invariance, PTL DEF Spec, CancelKeepsProgress

\* What is stored only goes forward: no write goes back before another, and a
\* cancellation loses nothing the run had stored.
THEOREM WritesForward == Spec => WritesGoForward
BY VersionsGrow, CancelsKeepProgress DEF WritesGoForward

-----------------------------------------------------------------------------
(* The tool turn that is never planned after.                              *)

\* While a tool turn lasts the session is "Waiting Tool"; the two control
\* points behind the state that the table refuses are never reached.
ToolInv ==
    /\ pc \in {"tools", "tool_approval", "tool_reflecting"} => mem.runtimeState = "Waiting Tool"
    /\ pc \notin {"tool_planning", "ckpt_tools"}

\* Where a step goes to the control points of a tool turn, it is one of the turn.
LEMMA ToolSites ==
    \A site \in StateSites :
        /\ AfterState(site) = "tools" => site = "waiting_tool"
        /\ AfterState(site) \notin {"tool_approval", "tool_reflecting"}
        /\ AfterState(site) = "tool_planning" => site = "tool_reflecting"
        /\ AfterState(site) = "ckpt_tools" => site = "tool_planning"
<1> SUFFICES ASSUME NEW site \in StateSites
             PROVE  /\ AfterState(site) = "tools" => site = "waiting_tool"
                    /\ AfterState(site) \notin {"tool_approval", "tool_reflecting"}
                    /\ AfterState(site) = "tool_planning" => site = "tool_reflecting"
                    /\ AfterState(site) = "ckpt_tools" => site = "tool_planning"
  OBVIOUS
<1>1. CASE site \in {"waiting_tool", "tool_reflecting", "tool_planning"}
  BY <1>1 DEF AfterState
<1>2. CASE site \in StateSites \ {"waiting_tool", "tool_reflecting", "tool_planning"}
  <2>1. AfterState(site) \in {"ckpt_initializing", "ckpt_planning", "start_model",
           "streaming", "approval", "validating", "decide", "requeue_reflection",
           "answered", "requeue_error", "errored", "restore"}
    BY <1>2 DEF StateSites, AfterState
  <2> QED
    BY <2>1
<1> QED
  BY <1>1, <1>2

\* A step that commits and goes on outside the turn leaves ToolInv true.
LEMMA CommitLeavesTurn ==
    ASSUME NEW s, NEW next, Commit(s, next),
           next \notin {"tools", "tool_approval", "tool_reflecting", "tool_planning", "ckpt_tools"}
    PROVE  ToolInv'
  BY HandlerKnown DEF Commit, Throw, ToolInv

\* ToolInv is inductive: Waiting Tool to Reflecting is not in the table.
LEMMA ToolStep == IndInv /\ ToolInv /\ [Next]_vars => ToolInv'
<1> SUFFICES ASSUME IndInv, ToolInv, [Next]_vars PROVE ToolInv'
  OBVIOUS
<1> USE DEF ToolInv
<1>1. CASE HandleRequest
  <2>1. CASE Bootstrap \/ StartInfoTask \/ PlanReady
    BY <2>1, CommitLeavesTurn DEF Bootstrap, StartInfoTask, PlanReady
  <2>2. CASE FinishInfoTask
    <3> DEFINE next == IF k < Len(InfoTasks) THEN "start_info" ELSE "save_plan"
    <3>1. next \in {"start_info", "save_plan"}
      OBVIOUS
    <3>2. Commit(FinishTask(mem, InfoTasks[k]), next)
      BY <2>2 DEF FinishInfoTask
    <3> QED
      BY <3>1, <3>2, CommitLeavesTurn
  <2>3. CASE SavePlan
    <3> DEFINE next == IF stream THEN "stream_executing" ELSE "planned"
    <3>1. next \in {"stream_executing", "planned"} /\ Commit(mem, next)
      BY <2>3 DEF SavePlan
    <3> QED
      BY <3>1, CommitLeavesTurn
  <2> QED
    BY <1>1, <2>1, <2>2, <2>3 DEF HandleRequest
<1>2. CASE EnterState
  <2>1. pc \in StateSites /\ RuntimeTransition(pc)
    BY <1>2 DEF EnterState
  <2>2. CASE Throw({"retriable"}) /\ UNCHANGED <<mem, store, faults>>
    BY <2>2, HandlerKnown DEF Throw
  <2>3. CASE Commit(WithRuntimeState(mem, Requested(pc)), AfterState(pc))
    <3>1. CASE pc = "waiting_tool"
      <4>1. Requested(pc) = "Waiting Tool" /\ AfterState(pc) = "tools"
        BY <3>1 DEF Requested, AfterState
      <4>2. Saved(WithRuntimeState(mem, "Waiting Tool")).runtimeState = "Waiting Tool"
        <5>1. "Waiting Tool" \in RuntimeLifecycleState /\ Sound(mem)
          BY DEF RuntimeLifecycleState, IndInv, DocsSound
        <5>2. /\ Sound(WithRuntimeState(mem, "Waiting Tool"))
              /\ WithRuntimeState(mem, "Waiting Tool").runtimeState = "Waiting Tool"
          BY <5>1, WithRuntimeStateSound DEF Edited
        <5> QED
          BY <5>2, SavedSound
      <4> QED
        BY <2>3, <4>1, <4>2, HandlerKnown DEF Commit, Throw
    <3>2. CASE pc = "tool_reflecting"
      <4>1. Requested(pc) = "Reflecting" /\ mem.runtimeState = "Waiting Tool"
        BY <3>2 DEF Requested
      <4>2. ~CanTransitionRuntimeState("Waiting Tool", "Reflecting")
        BY DEF CanTransitionRuntimeState, Transitions
      <4> QED
        BY <2>1, <4>1, <4>2, HandlerKnown DEF RuntimeTransition, Throw
    <3>3. CASE pc \notin {"waiting_tool", "tool_reflecting"}
      BY <2>1, <2>3, <3>3, ToolSites, CommitLeavesTurn
    <3> QED
      BY <3>1, <3>2, <3>3
  <2> QED
    BY <2>1, <2>2, <2>3 DEF RuntimeTransition
<1>3. CASE TakeCheckpoint
  BY <1>3, CommitLeavesTurn, CheckpointSitesKnown DEF TakeCheckpoint, AfterCheckpoint
<1>4. CASE BeginCycle \/ RefreshFails \/ ExhaustCycles \/ ModelFails
             \/ ModelAnswers \/ ModelCallsTools
  BY <1>4, HandlerKnown DEF BeginCycle, RefreshFails, ExhaustCycles, ModelFails, Throw,
     ModelAnswers, ModelCallsTools, Answered
<1>5. CASE CancelRun \/ StartModel
  BY <1>5, CommitLeavesTurn DEF CancelRun, StartModel
<1>6. CASE ToolUnknown \/ ToolNeedsApproval
  BY <1>6 DEF ToolUnknown, ToolNeedsApproval
<1>7. CASE ToolRuns
  <2>1. PICK b \in BOOLEAN : Commit([mem EXCEPT !.modifiedFiles = @ \/ b], "tools")
    BY <1>7 DEF ToolRuns
  <2> DEFINE s == [mem EXCEPT !.modifiedFiles = @ \/ b]
  <2>2. s.runtimeState = mem.runtimeState /\ Sound(s)
    BY ModifiedSound DEF IndInv, DocsSound, Edited
  <2>3. Saved(s).runtimeState = mem.runtimeState
    BY <2>2, SavedSound
  <2> QED
    BY <1>7, <2>1, <2>3, HandlerKnown DEF ToolRuns, Commit, Throw
<1>8. CASE FinishToolTurn
  BY <1>8, ReplanSound DEF FinishToolTurn, IndInv, DocsSound
<1>9. CASE FinishModel \/ BeginValidation \/ Validate \/ StartFinalTask \/ FinishFinalTask
             \/ StoreVerdict \/ RequeueModel \/ HandleError
  BY <1>9, CommitLeavesTurn DEF FinishModel, BeginValidation, Validate, StartFinalTask,
     FinishFinalTask, StoreVerdict, RequeueModel, HandleError
<1>10. CASE TryAgain \/ Conclude \/ Restore \/ Crash \/ Resume
  BY <1>10 DEF TryAgain, Conclude, Restore, Crash, Resume
<1>11. CASE ClientStep \/ Finished \/ UNCHANGED vars
  BY <1>11 DEF ClientStep, ReadForCancel, RefuseCancel, WriteCancel, Finished, vars, runtimeVars
<1> QED
  BY <1>1, <1>2, <1>3, <1>4, <1>5, <1>6, <1>7, <1>8, <1>9, <1>10, <1>11
     DEF Next, RuntimeStep, RunCycle, ToolTurn, Finalize

\* No tool turn ever gets to the planning behind it.
THEOREM ToolTurnsFail == Spec => []ToolTurnsNeverPlan
<1>1. Init => ToolInv
  BY DEF Init, ToolInv
<1>2. ToolInv => ToolTurnsNeverPlan
  BY DEF ToolInv, ToolTurnsNeverPlan
<1> QED
  BY <1>1, <1>2, ToolStep, Invariance, PTL DEF Spec

-----------------------------------------------------------------------------
(* The attempts of the model.                                              *)

\* A session within its budget, which a restore leaves room for one more attempt:
\* every checkpoint was taken, and every session without one is, before the model
\* is started.
Affordable(s) ==
    /\ s.attempts <= s.maxAttempts
    /\ IF s.checkpoint = NoCheckpoint THEN s.attempts < s.maxAttempts
       ELSE s.checkpoint.attempts < s.maxAttempts

HasRoom(s) == s.attempts < s.maxAttempts

\* From where a run gets to the start of the model without a look at the budget.
UnstartedSites ==
    CheckpointSites \cup
    {"bootstrap", "start_info", "finish_info", "save_plan", "planned", "initializing", "planning",
     "loop", "executing", "start_model", "tool_reflecting", "tool_planning"}

BudgetInv ==
    /\ Affordable(mem) /\ Affordable(store)
    /\ \A c \in Clients : seen[c] # None => Affordable(seen[c])
    /\ pc \in UnstartedSites => HasRoom(mem)
    /\ pc \in {"loop", "executing", "start_model"} => mem.checkpoint # NoCheckpoint

\* A session with the attempts, budget and checkpoint of another is as affordable.
SameBudget(d, s) ==
    d.attempts = s.attempts /\ d.maxAttempts = s.maxAttempts /\ d.checkpoint = s.checkpoint

LEMMA MutationsKeepBudget ==
    ASSUME NEW s \in Session
    PROVE  /\ SameBudget(Saved(s), s)
           /\ \A status \in AgentSessionStatus : SameBudget(WithStatus(s, status), s)
           /\ \A r \in RuntimeLifecycleState : SameBudget(WithRuntimeState(s, r), s)
           /\ \A t \in TaskIds : /\ t # ModelTask => SameBudget(StartTask(s, t), s)
                                 /\ SameBudget(FinishTask(s, t), s)
                                 /\ SameBudget(FailTask(s, t), s)
                                 /\ SameBudget(ResetTaskForRetry(s, t), s)
           /\ SameBudget(Cancel(s), s) /\ SameBudget(CancelledCopy(s), s)
           /\ \A b \in BOOLEAN : SameBudget([s EXCEPT !.modifiedFiles = @ \/ b], s)
<1>1. SameBudget(Saved(s), s) /\ SameBudget(Cancel(s), s) /\ SameBudget(CancelledCopy(s), s)
  BY DEF SameBudget, Session, Saved, Cancel, CancelledCopy
<1>2. \A status \in AgentSessionStatus : SameBudget(WithStatus(s, status), s)
  BY DEF SameBudget, Session, WithStatus
<1>3. \A r \in RuntimeLifecycleState : SameBudget(WithRuntimeState(s, r), s)
  BY DEF SameBudget, Session, WithRuntimeState
<1>4. \A b \in BOOLEAN : SameBudget([s EXCEPT !.modifiedFiles = @ \/ b], s)
  BY DEF SameBudget, Session
<1>5. ASSUME NEW t \in TaskIds
      PROVE  /\ t # ModelTask => SameBudget(StartTask(s, t), s)
             /\ SameBudget(FinishTask(s, t), s) /\ SameBudget(FailTask(s, t), s)
             /\ SameBudget(ResetTaskForRetry(s, t), s)
  BY DEF SameBudget, Session, StartTask, Bump, FinishTask, FailTask, ResetTaskForRetry
<1> QED
  BY <1>1, <1>2, <1>3, <1>4, <1>5

\* replanAfterFailure makes room, and keeps the budget of what had it.
LEMMA ReplanMakesRoom ==
    ASSUME NEW s \in Session, Affordable(s)
    PROVE  Replan(s) \in Session /\ Affordable(Replan(s)) /\ HasRoom(Replan(s))
<1>1. /\ s.attempts \in Nat /\ s.maxAttempts \in Nat
      /\ s.checkpoint # NoCheckpoint => s.checkpoint \in Checkpoint
  BY DEF Session
<1>2. s.checkpoint # NoCheckpoint => s.checkpoint.attempts \in Nat
  BY <1>1 DEF Checkpoint
<1>3. /\ Replan(s) \in Session
      /\ Replan(s).attempts = s.attempts /\ Replan(s).checkpoint = s.checkpoint
      /\ Replan(s).maxAttempts = IF s.attempts + 1 > s.maxAttempts THEN s.attempts + 1 ELSE s.maxAttempts
  BY <1>1 DEF Replan, Session
<1>4. Replan(s).maxAttempts \in Nat /\ Replan(s).maxAttempts >= s.maxAttempts
      /\ Replan(s).maxAttempts >= s.attempts + 1
  BY <1>1, <1>3
<1> QED
  BY <1>1, <1>2, <1>3, <1>4 DEF Affordable, HasRoom

\* The model is started with room for it, and after a checkpoint.
LEMMA StartKeepsBudget ==
    ASSUME NEW s \in Session, Affordable(s), HasRoom(s), s.checkpoint # NoCheckpoint
    PROVE  Affordable(StartTask(s, ModelTask))
<1>1. s.attempts \in Nat /\ s.maxAttempts \in Nat
  BY DEF Session
<1>2. /\ StartTask(s, ModelTask).attempts = s.attempts + 1
      /\ StartTask(s, ModelTask).maxAttempts = s.maxAttempts
      /\ StartTask(s, ModelTask).checkpoint = s.checkpoint
  BY DEF StartTask, Bump, Session
<1> QED
  BY <1>1, <1>2 DEF Affordable, HasRoom

LEMMA CheckpointHasRoom ==
    ASSUME NEW s \in Session, Affordable(s), HasRoom(s)
    PROVE  /\ Affordable(WithCheckpoint(s)) /\ HasRoom(WithCheckpoint(s))
           /\ WithCheckpoint(s).checkpoint # NoCheckpoint
<1> DEFINE c == WithCheckpoint(s).checkpoint
<1>1. /\ WithCheckpoint(s).attempts = s.attempts /\ WithCheckpoint(s).maxAttempts = s.maxAttempts
      /\ c \in Checkpoint /\ c.attempts = s.attempts
  BY DEF WithCheckpoint, Session, Checkpoint
<1> QED
  BY <1>1, CheckpointAssumption DEF Affordable, HasRoom

\* Whatever is restored has room.
LEMMA RestoredHasRoom ==
    ASSUME NEW s \in Session, Affordable(s)
    PROVE  Affordable(RestoreLatest(s)) /\ HasRoom(RestoreLatest(s))
<1>1. CASE s.checkpoint = NoCheckpoint
  BY <1>1 DEF RestoreLatest, Affordable, HasRoom
<1>2. CASE s.checkpoint # NoCheckpoint
  <2>1. s.checkpoint \in Checkpoint /\ s.maxAttempts \in Nat
    BY <1>2 DEF Session
  <2>2. /\ RestoreLatest(s).attempts = s.checkpoint.attempts
        /\ RestoreLatest(s).maxAttempts = s.maxAttempts
        /\ RestoreLatest(s).checkpoint = s.checkpoint
    BY <1>2 DEF RestoreLatest, Session
  <2>3. s.checkpoint.attempts \in Nat
    BY <2>1 DEF Checkpoint
  <2> QED
    BY <1>2, <2>1, <2>2, <2>3 DEF Affordable, HasRoom
<1> QED
  BY <1>1, <1>2

-----------------------------------------------------------------------------
\* A step that leaves the budget of what is in memory as it is.
LEMMA SameBudgetOK ==
    ASSUME NEW d, NEW s, Affordable(s), SameBudget(d, s)
    PROVE  Affordable(d) /\ (HasRoom(s) => HasRoom(d)) /\ (s.checkpoint # NoCheckpoint => d.checkpoint # NoCheckpoint)
BY DEF SameBudget, Affordable, HasRoom

\* A step that commits a copy within its budget, and goes on to a place that asks
\* no more of it.
LEMMA CommitWithinBudget ==
    ASSUME IndInv, BudgetInv, NEW s \in Session, NEW next, Commit(s, next), seen' = seen,
           Affordable(s), next \in UnstartedSites => HasRoom(s),
           next \in {"loop", "executing", "start_model"} => s.checkpoint # NoCheckpoint
    PROVE  BudgetInv'
<1>1. SameBudget(Saved(s), s)
  BY MutationsKeepBudget
<1>2. /\ Affordable(Saved(s))
      /\ HasRoom(s) => HasRoom(Saved(s))
      /\ s.checkpoint # NoCheckpoint => Saved(s).checkpoint # NoCheckpoint
  BY <1>1, SameBudgetOK
<1>3. mem' = Saved(s) /\ store' \in {store, Saved(s)} /\ pc' \in {next, "catch", "escaped"}
  BY HandlerKnown DEF Commit, Throw
<1>4. {"catch", "escaped"} \cap UnstartedSites = {}
  BY DEF UnstartedSites, CheckpointSites
<1> QED
  BY <1>2, <1>3, <1>4 DEF BudgetInv

\* Sites of transitionRuntimeState that lead on to the start of the model.
LEMMA BudgetSites ==
    \A site \in StateSites :
        /\ AfterState(site) \in UnstartedSites => site \in UnstartedSites
        /\ AfterState(site) \in {"loop", "executing", "start_model"} => site = "executing"
<1> SUFFICES ASSUME NEW site \in StateSites
             PROVE  /\ AfterState(site) \in UnstartedSites => site \in UnstartedSites
                    /\ AfterState(site) \in {"loop", "executing", "start_model"} => site = "executing"
  OBVIOUS
<1>1. CASE site \in UnstartedSites
  <2>1. site \in {"initializing", "planning", "executing", "tool_reflecting", "tool_planning"}
    BY <1>1 DEF StateSites, UnstartedSites, CheckpointSites
  <2> QED
    BY <1>1, <2>1 DEF AfterState
<1>2. CASE site \notin UnstartedSites
  <2>1. AfterState(site) \in {"streaming", "tools", "approval", "validating", "decide", "requeue_reflection",
           "answered", "requeue_error", "errored", "restore"}
    BY <1>2 DEF StateSites, UnstartedSites, AfterState
  <2> QED
    BY <2>1 DEF UnstartedSites, CheckpointSites
<1> QED
  BY <1>1, <1>2

LEMMA BudgetStep == IndInv /\ BudgetInv /\ [Next]_vars => BudgetInv'
<1> SUFFICES ASSUME IndInv, BudgetInv, [Next]_vars PROVE BudgetInv'
  OBVIOUS
<1>0. mem \in Session /\ store \in Session /\ Affordable(mem) /\ Affordable(store)
  BY DEF IndInv, DocsSound, Sound, BudgetInv
<1>a. pc \in UnstartedSites => HasRoom(mem)
  BY DEF BudgetInv
<1>b. \A d : SameBudget(d, mem) => Affordable(d) /\ (HasRoom(mem) => HasRoom(d))
  BY <1>0, SameBudgetOK
<1>s. mem \in Session /\ \A status \in AgentSessionStatus : WithStatus(mem, status) \in Session
  BY <1>0 DEF WithStatus, Session
<1>1. CASE HandleRequest
  <2>1. CASE Bootstrap \/ PlanReady
    <3>1. WithStatus(mem, "ANALYZING") \in Session /\ WithStatus(mem, "PLANNED") \in Session
          /\ SameBudget(WithStatus(mem, "ANALYZING"), mem) /\ SameBudget(WithStatus(mem, "PLANNED"), mem)
      BY <1>s, MutationsKeepBudget DEF AgentSessionStatus
    <3>2. HasRoom(mem)
      BY <1>a, <2>1 DEF Bootstrap, PlanReady, UnstartedSites
    <3> QED
      BY <1>b, <2>1, <3>1, <3>2, CommitWithinBudget DEF Bootstrap, PlanReady, other, clientVars
  <2>2. CASE StartInfoTask
    <3>1. InfoTasks[k] \in TaskIds /\ InfoTasks[k] # ModelTask
      BY <2>2, TaskIdsKnown, InfoTasksAssumption DEF StartInfoTask, IndInv, ControlOK
    <3>2. SameBudget(StartTask(mem, InfoTasks[k]), mem) /\ StartTask(mem, InfoTasks[k]) \in Session
      BY <1>0, <3>1, MutationsKeepBudget, StartTaskSound DEF IndInv, DocsSound, Edited, Sound
    <3>3. HasRoom(mem)
      BY <1>a, <2>2 DEF StartInfoTask, UnstartedSites
    <3> QED
      BY <1>b, <2>2, <3>2, <3>3, CommitWithinBudget DEF StartInfoTask, other, clientVars
  <2>3. CASE FinishInfoTask
    <3> DEFINE next == IF k < Len(InfoTasks) THEN "start_info" ELSE "save_plan"
    <3>1. InfoTasks[k] \in TaskIds
      BY <2>3, TaskIdsKnown, InfoTasksAssumption DEF FinishInfoTask, IndInv, ControlOK
    <3>2. SameBudget(FinishTask(mem, InfoTasks[k]), mem) /\ FinishTask(mem, InfoTasks[k]) \in Session
      BY <1>0, <3>1, MutationsKeepBudget, FinishTaskSound DEF IndInv, DocsSound, Edited, Sound
    <3>3. Commit(FinishTask(mem, InfoTasks[k]), next) /\ next \in {"start_info", "save_plan"} /\ seen' = seen
      BY <2>3 DEF FinishInfoTask, other, clientVars
    <3>4. HasRoom(mem)
      BY <1>a, <2>3 DEF FinishInfoTask, UnstartedSites
    <3> HIDE DEF next
    <3> QED
      BY <1>b, <3>2, <3>3, <3>4, CommitWithinBudget
  <2>4. CASE SavePlan
    <3> DEFINE next == IF stream THEN "stream_executing" ELSE "planned"
    <3>1. next \in {"stream_executing", "planned"} /\ Commit(mem, next) /\ seen' = seen
      BY <2>4 DEF SavePlan, other, clientVars
    <3>2. HasRoom(mem)
      BY <1>a, <2>4 DEF SavePlan, UnstartedSites
    <3> HIDE DEF next
    <3> QED
      BY <1>0, <3>1, <3>2, CommitWithinBudget
  <2> QED
    BY <1>1, <2>1, <2>2, <2>3, <2>4 DEF HandleRequest
<1>2. CASE EnterState
  <2>1. pc \in StateSites /\ RuntimeTransition(pc) /\ seen' = seen
    BY <1>2 DEF EnterState, other, clientVars
  <2>2. CASE Throw({"retriable"}) /\ UNCHANGED <<mem, store, faults>>
    BY <2>1, <2>2, HandlerKnown DEF Throw, BudgetInv, UnstartedSites, CheckpointSites
  <2>3. CASE Commit(WithRuntimeState(mem, Requested(pc)), AfterState(pc))
    <3> DEFINE s == WithRuntimeState(mem, Requested(pc))
    <3>1. s \in Session /\ SameBudget(s, mem)
      BY <1>0, <2>1, SitesKnown, WithRuntimeStateSound, MutationsKeepBudget
         DEF IndInv, DocsSound, Edited, Sound
    <3>2. AfterState(pc) \in UnstartedSites => HasRoom(mem)
      BY <1>a, <2>1, BudgetSites
    <3>3. AfterState(pc) \in {"loop", "executing", "start_model"} => mem.checkpoint # NoCheckpoint
      BY <2>1, BudgetSites DEF BudgetInv
    <3>4. s.checkpoint = mem.checkpoint
      BY <3>1 DEF SameBudget
    <3> HIDE DEF s
    <3> QED
      BY <1>b, <2>1, <2>3, <3>1, <3>2, <3>3, <3>4, CommitWithinBudget DEF s
  <2> QED
    BY <2>1, <2>2, <2>3 DEF RuntimeTransition
<1>3. CASE TakeCheckpoint
  <2>1. pc \in CheckpointSites /\ Commit(WithCheckpoint(mem), AfterCheckpoint(pc)) /\ seen' = seen
    BY <1>3 DEF TakeCheckpoint, other, clientVars
  <2>2. HasRoom(mem)
    BY <1>a, <2>1 DEF UnstartedSites
  <2>3. WithCheckpoint(mem) \in Session
    BY WithCheckpointSound DEF IndInv, DocsSound, Edited, Sound
  <2> QED
    BY <1>0, <2>1, <2>2, <2>3, CheckpointHasRoom, CommitWithinBudget
<1>4. CASE BeginCycle \/ ExhaustCycles \/ ModelAnswers \/ ModelCallsTools
  <2>1. UNCHANGED <<mem, store, seen>>
    BY <1>4 DEF BeginCycle, ExhaustCycles, ModelAnswers, ModelCallsTools, Answered, other, clientVars
  <2>2. \/ pc = "loop" /\ pc' = "executing"
        \/ pc' \in {"cancel_at_loop", "exhausted", "cancel_in_cycle", "finish_model", "waiting_tool"}
    BY <1>4 DEF BeginCycle, ExhaustCycles, ModelAnswers, ModelCallsTools, Answered
  <2> QED
    BY <2>1, <2>2 DEF BudgetInv, UnstartedSites, CheckpointSites
<1>5. CASE RefreshFails \/ ModelFails
  BY <1>5, HandlerKnown DEF RefreshFails, ModelFails, Throw, other, clientVars, BudgetInv, UnstartedSites,
     CheckpointSites
<1>6. CASE CancelRun
  <2>1. Cancel(mem) \in Session /\ SameBudget(Cancel(mem), mem)
    BY <1>0, CancelSound, MutationsKeepBudget DEF IndInv, DocsSound, Edited, Sound
  <2> QED
    BY <1>6, <1>b, <2>1, CommitWithinBudget DEF CancelRun, other, clientVars, UnstartedSites, CheckpointSites
<1>7. CASE StartModel
  <2>1. CASE pc' = "model" /\ UNCHANGED <<mem, store, seen>>
    BY <2>1 DEF BudgetInv, UnstartedSites, CheckpointSites
  <2>2. CASE Commit(StartTask(mem, ModelTask), "model") /\ seen' = seen
    <3>1. HasRoom(mem) /\ mem.checkpoint # NoCheckpoint
      BY <1>7 DEF StartModel, BudgetInv, UnstartedSites
    <3>2. StartTask(mem, ModelTask) \in Session
      BY StartTaskSound, TaskIdsKnown DEF IndInv, DocsSound, Edited, Sound
    <3>3. "model" \notin UnstartedSites
      BY DEF UnstartedSites, CheckpointSites
    <3> QED
      BY <1>0, <2>2, <3>1, <3>2, <3>3, StartKeepsBudget, CommitWithinBudget
  <2> QED
    BY <1>7, <2>1, <2>2 DEF StartModel, other, clientVars
<1>8. CASE ToolUnknown \/ ToolNeedsApproval
  BY <1>8 DEF ToolUnknown, ToolNeedsApproval, other, clientVars, BudgetInv, UnstartedSites, CheckpointSites
<1>9. CASE ToolRuns
  <2>1. PICK b \in BOOLEAN : Commit([mem EXCEPT !.modifiedFiles = @ \/ b], "tools")
    BY <1>9 DEF ToolRuns
  <2> DEFINE s == [mem EXCEPT !.modifiedFiles = @ \/ b]
  <2>2. s \in Session /\ SameBudget(s, mem)
    BY <1>0, ModifiedSound, MutationsKeepBudget DEF IndInv, DocsSound, Edited, Sound
  <2>3. seen' = seen /\ "tools" \notin UnstartedSites
    BY <1>9 DEF ToolRuns, other, clientVars, UnstartedSites, CheckpointSites
  <2> HIDE DEF s
  <2> QED
    BY <1>b, <2>1, <2>2, <2>3, CommitWithinBudget DEF s
<1>10. CASE FinishToolTurn
  BY <1>0, <1>10, ReplanMakesRoom DEF FinishToolTurn, other, clientVars, BudgetInv
<1>11. CASE FinishModel \/ HandleError
  <2> DEFINE next == IF RetryAllowed THEN "retrying" ELSE "catch_failed"
  <2>1. /\ FinishTask(mem, ModelTask) \in Session /\ SameBudget(FinishTask(mem, ModelTask), mem)
        /\ FailTask(mem, ModelTask) \in Session /\ SameBudget(FailTask(mem, ModelTask), mem)
    BY <1>0, FinishTaskSound, FailTaskSound, MutationsKeepBudget, TaskIdsKnown
       DEF IndInv, DocsSound, Edited, Sound
  <2>2. {"reflecting", "retrying", "catch_failed"} \cap UnstartedSites = {}
    BY DEF UnstartedSites, CheckpointSites
  <2>3. seen' = seen /\ \/ Commit(FinishTask(mem, ModelTask), "reflecting")
                        \/ Commit(FailTask(mem, ModelTask), next)
    BY <1>11 DEF FinishModel, HandleError, other, clientVars
  <2>4. next \in {"retrying", "catch_failed"}
    OBVIOUS
  <2> HIDE DEF next
  <2>5. CASE Commit(FinishTask(mem, ModelTask), "reflecting")
    BY <1>b, <2>1, <2>2, <2>3, <2>5, CommitWithinBudget
  <2>6. CASE Commit(FailTask(mem, ModelTask), next)
    BY <1>b, <2>1, <2>2, <2>3, <2>4, <2>6, CommitWithinBudget
  <2> QED
    BY <2>3, <2>5, <2>6
<1>12. CASE BeginValidation \/ StoreVerdict
  <2> DEFINE next == CASE turn.validation = "failed_approval" -> "gate_approval"
                       [] turn.validation = "failed_tests"    -> "gate_tool"
                       [] OTHER                               -> "decide"
             verdict == IF ReflectionSucceeds THEN "COMPLETED" ELSE "FAILED"
  <2>1. next \in {"gate_approval", "gate_tool", "decide"} /\ verdict \in {"COMPLETED", "FAILED"}
    OBVIOUS
  <2>2. PICK status \in AgentSessionStatus, site \in {"validate", "gate_approval", "gate_tool", "decide"} :
           Commit(WithStatus(mem, status), site)
    <3>1. CASE BeginValidation
      BY <3>1 DEF BeginValidation, AgentSessionStatus
    <3>2. CASE StoreVerdict
      <4>1. Commit(WithStatus(mem, verdict), next)
        BY <3>2 DEF StoreVerdict
      <4> HIDE DEF next, verdict
      <4> QED
        BY <2>1, <4>1 DEF AgentSessionStatus
    <3> QED
      BY <1>12, <3>1, <3>2
  <2>3. WithStatus(mem, status) \in Session /\ SameBudget(WithStatus(mem, status), mem)
    BY <1>s, MutationsKeepBudget
  <2>4. seen' = seen /\ site \notin UnstartedSites
    BY <1>12 DEF BeginValidation, StoreVerdict, other, clientVars, UnstartedSites, CheckpointSites
  <2> HIDE DEF next, verdict
  <2> QED
    BY <1>b, <2>2, <2>3, <2>4, CommitWithinBudget
<1>13. CASE Validate
  <2>1. CASE Commit(mem, "start_final")
    BY <1>0, <1>13, <2>1, CommitWithinBudget DEF Validate, other, clientVars, UnstartedSites, CheckpointSites
  <2>2. CASE pc' = "start_final" /\ UNCHANGED <<store, mem, error, faults>>
    BY <1>13, <2>2 DEF Validate, other, clientVars, BudgetInv, UnstartedSites, CheckpointSites
  <2> QED
    BY <1>13, <2>1, <2>2 DEF Validate
<1>14. CASE StartFinalTask \/ FinishFinalTask
  <2> DEFINE next == IF k < Len(FinalTasks) THEN "start_final" ELSE "final_status"
  <2>1. FinalTasks[k] \in TaskIds /\ FinalTasks[k] # ModelTask
    BY <1>14, TaskIdsKnown DEF StartFinalTask, FinishFinalTask, IndInv, ControlOK, FinalTasks, ModelTask
  <2>2. /\ StartTask(mem, FinalTasks[k]) \in Session /\ SameBudget(StartTask(mem, FinalTasks[k]), mem)
        /\ FinishTask(mem, FinalTasks[k]) \in Session /\ SameBudget(FinishTask(mem, FinalTasks[k]), mem)
    BY <1>0, <2>1, StartTaskSound, FinishTaskSound, MutationsKeepBudget DEF IndInv, DocsSound, Edited, Sound
  <2>3. {"finish_final", "start_final", "final_status"} \cap UnstartedSites = {}
    BY DEF UnstartedSites, CheckpointSites
  <2>4. seen' = seen /\ \/ Commit(StartTask(mem, FinalTasks[k]), "finish_final")
                        \/ Commit(FinishTask(mem, FinalTasks[k]), next)
    BY <1>14 DEF StartFinalTask, FinishFinalTask, other, clientVars
  <2>5. next \in {"start_final", "final_status"}
    OBVIOUS
  <2> HIDE DEF next
  <2>6. CASE Commit(StartTask(mem, FinalTasks[k]), "finish_final")
    BY <1>b, <2>2, <2>3, <2>4, <2>6, CommitWithinBudget
  <2>7. CASE Commit(FinishTask(mem, FinalTasks[k]), next)
    BY <1>b, <2>2, <2>3, <2>4, <2>5, <2>7, CommitWithinBudget
  <2> QED
    BY <2>4, <2>6, <2>7
<1>15. CASE TryAgain \/ Conclude
  BY <1>15 DEF TryAgain, Conclude, other, clientVars, BudgetInv, UnstartedSites, CheckpointSites
<1>16. CASE RequeueModel
  <2> DEFINE next == IF pc = "requeue_error" THEN "ckpt_error" ELSE "ckpt_reflection"
             s == ResetTaskForRetry(Replan(mem), ModelTask)
  <2>1. next \in {"ckpt_error", "ckpt_reflection"} /\ Commit(s, next) /\ seen' = seen
    BY <1>16 DEF RequeueModel, other, clientVars
  <2>2. Replan(mem) \in Session /\ Affordable(Replan(mem)) /\ HasRoom(Replan(mem)) /\ Sound(Replan(mem))
    BY <1>0, ReplanMakesRoom, ReplanSound DEF IndInv, DocsSound, Edited
  <2>3. s \in Session /\ SameBudget(s, Replan(mem))
    BY <2>2, ResetTaskSound, MutationsKeepBudget, TaskIdsKnown DEF Edited, Sound
  <2>4. Affordable(s) /\ HasRoom(s)
    BY <2>2, <2>3, SameBudgetOK
  <2> HIDE DEF next, s
  <2> QED
    BY <2>1, <2>3, <2>4, CommitWithinBudget
<1>17. CASE Restore
  BY <1>0, <1>17, RestoredHasRoom DEF Restore, other, clientVars, BudgetInv
<1>18. CASE Crash \/ Resume
  BY <1>0, <1>18 DEF Crash, Resume, clientVars, BudgetInv, UnstartedSites, CheckpointSites
<1>19. CASE ClientStep
  <2>1. PICK c \in Clients : ReadForCancel(c) \/ RefuseCancel(c) \/ WriteCancel(c)
    BY <1>19 DEF ClientStep
  <2>2. UNCHANGED <<mem, pc>>
    BY <2>1 DEF ReadForCancel, RefuseCancel, WriteCancel, runtimeVars
  <2>3. CASE ReadForCancel(c) \/ RefuseCancel(c)
    BY <1>0, <2>1, <2>2, <2>3 DEF ReadForCancel, RefuseCancel, BudgetInv, IndInv, DocsSound
  <2>4. CASE WriteCancel(c)
    <3>1. seen[c] \in Session /\ Affordable(seen[c])
      BY <2>4 DEF WriteCancel, BudgetInv, IndInv, DocsSound
    <3>2. Affordable(CancelledCopy(seen[c]))
      BY <3>1, MutationsKeepBudget, SameBudgetOK
    <3>3. store' \in {store, CancelledCopy(seen[c])} /\ seen' = [seen EXCEPT ![c] = None]
      BY <2>4 DEF WriteCancel
    <3>4. \A b \in Clients : seen'[b] # None => seen'[b] = seen[b] /\ seen[b] # None
      BY <3>3 DEF IndInv, DocsSound
    <3> QED
      BY <1>0, <2>2, <3>2, <3>3, <3>4 DEF BudgetInv
  <2> QED
    BY <2>1, <2>3, <2>4
<1>20. CASE Finished \/ UNCHANGED vars
  BY <1>20 DEF Finished, vars, runtimeVars, clientVars, BudgetInv
<1> QED
  BY <1>1, <1>2, <1>3, <1>4, <1>5, <1>6, <1>7, <1>8, <1>9, <1>10, <1>11, <1>12, <1>13, <1>14, <1>15,
     <1>16, <1>17, <1>18, <1>19, <1>20 DEF Next, RuntimeStep, RunCycle, ToolTurn, Finalize

\* Whatever starts the model again, it is paid for.
THEOREM WithinBudget == Spec => []AttemptsWithinBudget
<1>1. Init => BudgetInv
  BY DEF Init, BudgetInv, NewSession, Affordable, HasRoom
<1>2. BudgetInv => AttemptsWithinBudget
  BY DEF BudgetInv, Affordable, AttemptsWithinBudget
<1> QED
  BY <1>1, <1>2, BudgetStep, Invariance, PTL DEF Spec

\* Both halves: every start is paid for, and a tool turn is one that failed.
THEOREM TurnsCounted == Spec => []TurnsAreCounted
<1>1. AttemptsWithinBudget /\ ToolTurnsNeverPlan => TurnsAreCounted
  BY DEF TurnsAreCounted
<1> QED
  BY <1>1, WithinBudget, ToolTurnsFail, PTL

-----------------------------------------------------------------------------
(* What a resume may take up.                                              *)

\* The states that nothing leads on from.
Final == {"Completed", "Cancelled"}

\* Where a session in such a state may still be found: behind the call that saved
\* it, in the catch of the loop, or at the first step of a resume.
FinalStateSites == AtRest \cup {"catch", "retrying", "catch_failed", "recovering", "crashed"}

\* Where a session, or a checkpoint of it, has not got beyond Initializing, the
\* model was not asked.
Unasked(s) == s.runtimeState \in {"Idle", "Initializing"} => s.attempts = 0

\* What a session may be restored to.
Restorable(s) ==
    s.checkpoint # NoCheckpoint =>
        s.checkpoint.runtimeState \notin Final /\ Unasked(s.checkpoint)

\* The control points of a cycle from which a run gets back to the loop.
CycleSites == TryBlock \cup {"catch", "retrying", "requeue_error", "ckpt_error"}

ResumeInv ==
    /\ Restorable(mem) /\ Restorable(store) /\ Unasked(mem) /\ Unasked(store)
    /\ store.runtimeState \in Final => mem.runtimeState = store.runtimeState
    /\ mem.runtimeState \in Final => pc \in FinalStateSites
    /\ pc \in {"ckpt_initializing", "planning"} => mem.attempts = 0
    /\ pc \in {"ckpt_planning", "loop"} /\ cycle = 0 => mem.attempts = 0
    /\ pc \in CycleSites => cycle > 0
    /\ pc = "start_model" => mem.runtimeState = "Executing"

\* What changes neither the state, nor the attempts, nor the checkpoint.
SameStanding(d, s) ==
    /\ d.runtimeState = s.runtimeState /\ d.attempts = s.attempts
    /\ d.checkpoint = s.checkpoint

\* Of the functions on a session only transitions, cancel, the restore, and the
\* start of model-execution do.
LEMMA StandingKept ==
    ASSUME NEW s \in Session
    PROVE  /\ SameStanding(Saved(s), s)
           /\ \A status \in AgentSessionStatus : SameStanding(WithStatus(s, status), s)
           /\ \A t \in TaskIds : /\ t # ModelTask => SameStanding(StartTask(s, t), s)
                                 /\ SameStanding(FinishTask(s, t), s)
                                 /\ SameStanding(FailTask(s, t), s)
                                 /\ SameStanding(ResetTaskForRetry(s, t), s)
           /\ SameStanding(Replan(s), s) /\ SameStanding(CancelledCopy(s), s)
           /\ \A b \in BOOLEAN : SameStanding([s EXCEPT !.modifiedFiles = @ \/ b], s)
<1>1. SameStanding(Saved(s), s) /\ SameStanding(CancelledCopy(s), s)
  BY DEF SameStanding, Session, Saved, CancelledCopy
<1>2. \A status \in AgentSessionStatus : SameStanding(WithStatus(s, status), s)
  BY DEF SameStanding, Session, WithStatus
<1>3. SameStanding(Replan(s), s)
  BY DEF SameStanding, Session, Replan
<1>4. \A b \in BOOLEAN : SameStanding([s EXCEPT !.modifiedFiles = @ \/ b], s)
  BY DEF SameStanding, Session
<1>5. ASSUME NEW t \in TaskIds
      PROVE  /\ t # ModelTask => SameStanding(StartTask(s, t), s)
             /\ SameStanding(FinishTask(s, t), s) /\ SameStanding(FailTask(s, t), s)
             /\ SameStanding(ResetTaskForRetry(s, t), s)
  BY DEF SameStanding, Session, StartTask, Bump, FinishTask, FailTask, ResetTaskForRetry
<1> QED
  BY <1>1, <1>2, <1>3, <1>4, <1>5

\* What standing decides is decided alike.
LEMMA StandsAlike ==
    ASSUME NEW d, NEW s, SameStanding(d, s)
    PROVE  (Unasked(s) => Unasked(d)) /\ (Restorable(s) => Restorable(d))
BY DEF SameStanding, Unasked, Restorable

\* A checkpoint of a session that may be restored, and is not over, may be too.
LEMMA CheckpointRestorable ==
    ASSUME NEW s \in Session, Unasked(s), s.runtimeState \notin Final
    PROVE  LET d == WithCheckpoint(s) IN
           /\ Restorable(d) /\ Unasked(d)
           /\ d.runtimeState = s.runtimeState /\ d.attempts = s.attempts
<1> DEFINE d == WithCheckpoint(s)
<1>1. /\ d.runtimeState = s.runtimeState /\ d.attempts = s.attempts
      /\ d.checkpoint.runtimeState = s.runtimeState /\ d.checkpoint.attempts = s.attempts
  BY DEF WithCheckpoint, Session
<1> QED
  BY <1>1 DEF Restorable, Unasked

\* What is restored is not over, and not asked if it was not.
LEMMA RestoredUnasked ==
    ASSUME NEW s \in Session, Restorable(s), Unasked(s), s.runtimeState \notin Final
    PROVE  LET d == RestoreLatest(s) IN
           Restorable(d) /\ Unasked(d) /\ d.runtimeState \notin Final
<1> DEFINE d == RestoreLatest(s)
<1>1. CASE s.checkpoint = NoCheckpoint
  BY <1>1 DEF RestoreLatest
<1>2. CASE s.checkpoint # NoCheckpoint
  <2>1. /\ d.runtimeState = s.checkpoint.runtimeState /\ d.attempts = s.checkpoint.attempts
        /\ d.checkpoint = s.checkpoint
    BY <1>2 DEF RestoreLatest, Session
  <2> QED
    BY <1>2, <2>1 DEF Restorable, Unasked
<1> QED
  BY <1>1, <1>2

\* From where, and to where, the sites of transitionRuntimeState go.
LEMMA ResumeSites ==
    \A site \in StateSites :
        /\ AfterState(site) \in CycleSites => site \in CycleSites
        /\ AfterState(site) = "ckpt_initializing" => site = "initializing"
        /\ AfterState(site) = "ckpt_planning" => site = "planning"
        /\ AfterState(site) = "start_model" => site = "executing"
        /\ AfterState(site) \notin {"planning", "loop"}
        /\ Requested(site) \in Final => site = "completed"
        /\ Requested(site) = "Initializing" => site = "initializing"
        /\ Requested(site) # "Idle"
<1> SUFFICES ASSUME NEW site \in StateSites
             PROVE  /\ AfterState(site) \in CycleSites => site \in CycleSites
                    /\ AfterState(site) = "ckpt_initializing" => site = "initializing"
                    /\ AfterState(site) = "ckpt_planning" => site = "planning"
                    /\ AfterState(site) = "start_model" => site = "executing"
                    /\ AfterState(site) \notin {"planning", "loop"}
                    /\ Requested(site) \in Final => site = "completed"
                    /\ Requested(site) = "Initializing" => site = "initializing"
                    /\ Requested(site) # "Idle"
  OBVIOUS
<1>1. Requested(site) # "Idle" /\ (Requested(site) = "Initializing" => site = "initializing")
  BY DEF StateSites, Requested
<1>2. Requested(site) \in Final => site = "completed"
  BY DEF StateSites, Requested, Final
<1>3. CASE site \in CycleSites
  <2>1. site \notin {"initializing", "planning", "recovering", "catch_failed", "exhausted", "stream_executing"}
    BY <1>3 DEF CycleSites, TryBlock
  <2>2. AfterState(site) \notin {"ckpt_initializing", "ckpt_planning", "planning", "loop"}
    BY <2>1 DEF StateSites, AfterState
  <2>3. AfterState(site) = "start_model" => site = "executing"
    BY <2>1 DEF StateSites, AfterState
  <2> QED
    BY <1>1, <1>2, <1>3, <2>2, <2>3
<1>4. CASE site \notin CycleSites
  <2>1. site \in {"initializing", "planning", "recovering", "catch_failed", "exhausted", "stream_executing"}
    BY <1>4 DEF CycleSites, TryBlock, StateSites
  <2> QED
    BY <1>1, <1>2, <2>1 DEF AfterState, CycleSites, TryBlock
<1> QED
  BY <1>3, <1>4

\* A step that commits a copy which may be resumed.
LEMMA CommitResumable ==
    ASSUME IndInv, ResumeInv, NEW s \in Session, NEW next, Commit(s, next), cycle' = cycle,
           Restorable(s), Unasked(s),
           mem.runtimeState \in Final => s.runtimeState = mem.runtimeState,
           s.runtimeState \in Final => next \in FinalStateSites,
           next \in {"ckpt_initializing", "planning"} => s.attempts = 0,
           next \in {"ckpt_planning", "loop"} /\ cycle = 0 => s.attempts = 0,
           next \in CycleSites => cycle > 0,
           next = "start_model" => s.runtimeState = "Executing"
    PROVE  ResumeInv'
<1>1. SameStanding(Saved(s), s) /\ Restorable(Saved(s)) /\ Unasked(Saved(s))
  BY StandingKept, StandsAlike
<1>2. /\ mem' = Saved(s) /\ store' \in {store, Saved(s)}
      /\ pc' = next \/ pc' = Handler(pc)
  BY DEF Commit, Throw
<1>3. Handler(pc) \in {"catch", "escaped"} /\ (Handler(pc) = "catch" => cycle > 0)
  BY DEF Handler, ResumeInv, CycleSites
<1>4. {"catch", "escaped"} \subseteq FinalStateSites /\ "escaped" \notin CycleSites
  BY DEF FinalStateSites, AtRest, CycleSites, TryBlock
<1>5. /\ mem'.runtimeState = s.runtimeState /\ mem'.attempts = s.attempts
      /\ Restorable(mem') /\ Unasked(mem') /\ Restorable(store') /\ Unasked(store')
  BY <1>1, <1>2 DEF SameStanding, ResumeInv
<1>6. store'.runtimeState \in Final => mem'.runtimeState = store'.runtimeState
  BY <1>1, <1>2, <1>5 DEF ResumeInv, SameStanding
<1> QED
  BY <1>2, <1>3, <1>4, <1>5, <1>6 DEF ResumeInv

\* A step that leaves the documents and goes on to another site.
LEMMA MoveResumable ==
    ASSUME ResumeInv, UNCHANGED <<mem, store>>,
           pc' \in FinalStateSites \/ pc \notin FinalStateSites,
           pc' \notin {"ckpt_initializing", "planning", "ckpt_planning", "loop", "start_model"},
           pc' \in CycleSites => cycle' > 0
    PROVE  ResumeInv'
BY DEF ResumeInv

\* No step leads on from a state that is over, and none starts a run again that
\* had asked the model.
LEMMA ResumeStep == IndInv /\ ResumeInv /\ [Next]_vars => ResumeInv'
<1> SUFFICES ASSUME IndInv, ResumeInv, [Next]_vars PROVE ResumeInv'
  OBVIOUS
<1>0. mem \in Session /\ Restorable(mem) /\ Unasked(mem)
  BY DEF IndInv, DocsSound, Sound, ResumeInv
<1>a. \A d : SameStanding(d, mem) => Restorable(d) /\ Unasked(d) /\ d.runtimeState = mem.runtimeState
                                      /\ d.attempts = mem.attempts
  BY <1>0, StandsAlike DEF SameStanding
<1>b. pc \notin FinalStateSites => mem.runtimeState \notin Final
  BY DEF ResumeInv
<1>1. CASE HandleRequest
  <2>1. pc \in {"bootstrap", "start_info", "finish_info", "save_plan", "planned"} /\ cycle' = cycle
    BY <1>1 DEF HandleRequest, Bootstrap, StartInfoTask, FinishInfoTask, SavePlan, PlanReady, local
  <2>2. PICK s \in Session, next \in {"start_info", "finish_info", "save_plan", "stream_executing", "planned",
                                     "initializing"} :
           SameStanding(s, mem) /\ Commit(s, next)
    <3>1. CASE Bootstrap
      BY <1>0, <3>1, WithStatusSound, StandingKept
         DEF Bootstrap, AgentSessionStatus, IndInv, DocsSound, Edited, Sound
    <3>2. CASE PlanReady
      BY <1>0, <3>2, WithStatusSound, StandingKept
         DEF PlanReady, AgentSessionStatus, IndInv, DocsSound, Edited, Sound
    <3>3. CASE StartInfoTask
      <4>1. InfoTasks[k] \in TaskIds /\ InfoTasks[k] # ModelTask
        BY <3>3, TaskIdsKnown, InfoTasksAssumption DEF StartInfoTask, IndInv, ControlOK
      <4> QED
        BY <1>0, <3>3, <4>1, StartTaskSound, StandingKept
           DEF StartInfoTask, IndInv, DocsSound, Edited, Sound
    <3>4. CASE FinishInfoTask
      <4> DEFINE to == IF k < Len(InfoTasks) THEN "start_info" ELSE "save_plan"
      <4>1. InfoTasks[k] \in TaskIds
        BY <3>4, TaskIdsKnown, InfoTasksAssumption DEF FinishInfoTask, IndInv, ControlOK
      <4>2. Commit(FinishTask(mem, InfoTasks[k]), to) /\ to \in {"start_info", "save_plan"}
        BY <3>4 DEF FinishInfoTask
      <4> HIDE DEF to
      <4> QED
        BY <1>0, <4>1, <4>2, FinishTaskSound, StandingKept DEF IndInv, DocsSound, Edited, Sound
    <3>5. CASE SavePlan
      <4> DEFINE to == IF stream THEN "stream_executing" ELSE "planned"
      <4>1. Commit(mem, to) /\ to \in {"stream_executing", "planned"}
        BY <3>5 DEF SavePlan
      <4> HIDE DEF to
      <4> QED
        BY <1>0, <4>1 DEF SameStanding
    <3> QED
      BY <1>1, <3>1, <3>2, <3>3, <3>4, <3>5 DEF HandleRequest
  <2>3. /\ next \notin CycleSites /\ pc \notin FinalStateSites
        /\ next \notin {"ckpt_initializing", "planning", "ckpt_planning", "loop", "start_model"}
    BY <2>1, <2>2 DEF CycleSites, TryBlock, FinalStateSites, AtRest
  <2> QED
    BY <1>a, <1>b, <2>1, <2>2, <2>3, CommitResumable
<1>2. CASE EnterState
  <2> DEFINE to == Requested(pc)
             s == WithRuntimeState(mem, to)
  <2>1. pc \in StateSites /\ RuntimeTransition(pc) /\ cycle' = cycle
    BY <1>2 DEF EnterState, local
  <2>2. CASE Throw({"retriable"}) /\ UNCHANGED <<mem, store, faults>>
    <3>1. pc' = Handler(pc)
      BY <2>2 DEF Throw
    <3>2. Handler(pc) \in {"catch", "escaped"} /\ (Handler(pc) = "catch" => cycle > 0)
      BY DEF Handler, ResumeInv, CycleSites
    <3>3. {"catch", "escaped"} \subseteq FinalStateSites /\ "escaped" \notin CycleSites
      BY DEF FinalStateSites, AtRest, CycleSites, TryBlock
    <3> QED
      BY <2>1, <2>2, <3>1, <3>2, <3>3, MoveResumable
  <2>3. CASE Commit(s, AfterState(pc)) /\ (mem.runtimeState = to \/ CanTransitionRuntimeState(mem.runtimeState, to))
    <3>1. s \in Session /\ s.runtimeState = to /\ s.attempts = mem.attempts /\ s.checkpoint = mem.checkpoint
      <4>1. s \in Session /\ s.runtimeState = to
        BY <2>1, SitesKnown, WithRuntimeStateSound DEF IndInv, DocsSound, Edited, Sound
      <4>2. s.attempts = mem.attempts /\ s.checkpoint = mem.checkpoint
        BY <1>0 DEF WithRuntimeState, Session
      <4> QED
        BY <4>1, <4>2
    <3>2. mem.runtimeState \notin Final
      <4>1. SUFFICES ASSUME mem.runtimeState \in Final PROVE FALSE
        OBVIOUS
      <4>2. to = mem.runtimeState
        BY <2>3, <4>1 DEF Final, CanTransitionRuntimeState, Transitions
      <4>3. pc = "completed"
        BY <2>1, <4>1, <4>2, ResumeSites
      <4> QED
        BY <1>b, <4>1, <4>3 DEF FinalStateSites, AtRest
    <3>3. to = "Initializing" => mem.attempts = 0
      <4>1. \A r \in RuntimeLifecycleState : "Initializing" \in Transitions(r) => r = "Idle"
        BY DEF RuntimeLifecycleState, Transitions
      <4>2. mem.runtimeState \in RuntimeLifecycleState
        BY <1>0 DEF Session
      <4> QED
        BY <1>0, <2>3, <4>1, <4>2 DEF CanTransitionRuntimeState, Unasked
    <3>4. Restorable(s) /\ Unasked(s)
      <4>1. Restorable(s)
        BY <1>0, <3>1 DEF Restorable
      <4>2. to # "Idle"
        BY <2>1, ResumeSites
      <4> QED
        BY <3>1, <3>3, <4>1, <4>2 DEF Unasked
    <3>5. to \in Final => AfterState(pc) \in FinalStateSites
      <4>1. to \in Final => pc = "completed"
        BY <2>1, ResumeSites
      <4> QED
        BY <4>1 DEF AfterState, FinalStateSites, AtRest
    <3>6. AfterState(pc) = "ckpt_initializing" => mem.attempts = 0
      BY <2>1, <3>3, ResumeSites DEF Requested
    <3>7. AfterState(pc) = "ckpt_planning" => mem.attempts = 0
      BY <2>1, ResumeSites DEF ResumeInv
    <3>8. AfterState(pc) \in CycleSites => cycle > 0
      BY <2>1, ResumeSites DEF ResumeInv
    <3>9. AfterState(pc) = "start_model" => to = "Executing"
      BY <2>1, ResumeSites DEF Requested
    <3> HIDE DEF s, to
    <3> QED
      BY <2>1, <2>3, <3>1, <3>2, <3>4, <3>5, <3>6, <3>7, <3>8, <3>9, ResumeSites, CommitResumable
  <2> QED
    BY <2>1, <2>2, <2>3 DEF RuntimeTransition
<1>3. CASE TakeCheckpoint
  <2>1. pc \in CheckpointSites /\ Commit(WithCheckpoint(mem), AfterCheckpoint(pc)) /\ cycle' = cycle
    BY <1>3 DEF TakeCheckpoint, local
  <2>2. mem.runtimeState \notin Final
    BY <1>b, <2>1 DEF CheckpointSites, FinalStateSites, AtRest
  <2>3. WithCheckpoint(mem) \in Session
    BY WithCheckpointSound DEF IndInv, DocsSound, Edited, Sound
  <2>4. /\ AfterCheckpoint(pc) \in {"planning", "initializing", "loop"}
        /\ AfterCheckpoint(pc) = "planning" => pc = "ckpt_initializing"
        /\ AfterCheckpoint(pc) = "loop" => pc = "ckpt_planning" \/ pc \in CycleSites
    BY <2>1 DEF CheckpointSites, AfterCheckpoint, CycleSites, TryBlock
  <2>5. {"planning", "initializing", "loop"} \cap CycleSites = {}
    BY DEF CycleSites, TryBlock
  <2>6. /\ AfterCheckpoint(pc) = "planning" => mem.attempts = 0
        /\ AfterCheckpoint(pc) = "loop" /\ cycle = 0 => mem.attempts = 0
    BY <2>4 DEF ResumeInv
  <2> QED
    BY <1>0, <2>1, <2>2, <2>3, <2>4, <2>5, <2>6, CheckpointRestorable, CommitResumable
<1>4. CASE BeginCycle
  <2>1. cycle' = cycle + 1 /\ cycle \in Nat /\ UNCHANGED <<mem, store>>
        /\ pc = "loop" /\ pc' \in {"cancel_at_loop", "executing"}
    BY <1>4, BoundsAssumption DEF BeginCycle, IndInv, ControlOK
  <2> QED
    BY <2>1, MoveResumable DEF FinalStateSites, AtRest
<1>5. CASE ExhaustCycles
  <2>1. UNCHANGED <<mem, store, cycle>> /\ pc = "loop" /\ pc' = "exhausted"
    BY <1>5 DEF ExhaustCycles, local
  <2> QED
    BY <2>1, MoveResumable DEF FinalStateSites, AtRest, CycleSites, TryBlock
<1>6. CASE RefreshFails \/ ModelFails
  <2>1. UNCHANGED <<mem, store, cycle>> /\ pc' = Handler(pc)
    BY <1>6 DEF RefreshFails, ModelFails, Throw, local
  <2>2. Handler(pc) \in {"catch", "escaped"} /\ (Handler(pc) = "catch" => cycle > 0)
    BY DEF Handler, ResumeInv, CycleSites
  <2>3. {"catch", "escaped"} \subseteq FinalStateSites /\ "escaped" \notin CycleSites
    BY DEF FinalStateSites, AtRest, CycleSites, TryBlock
  <2> QED
    BY <2>1, <2>2, <2>3, MoveResumable
<1>7. CASE ModelAnswers \/ ModelCallsTools \/ ToolUnknown \/ ToolNeedsApproval \/ TryAgain \/ Conclude
  <2>1. UNCHANGED <<mem, store, cycle>> /\ pc \in {"model", "tools", "decide"}
    BY <1>7 DEF ModelAnswers, ModelCallsTools, Answered, ToolUnknown, ToolNeedsApproval, TryAgain, Conclude, local
  <2>2. pc' \in {"cancel_in_cycle", "finish_model", "waiting_tool", "tools", "tool_approval",
                 "reflection_retry", "reflection_replan", "completed", "failed"}
    BY <1>7 DEF ModelAnswers, ModelCallsTools, Answered, ToolUnknown, ToolNeedsApproval, TryAgain, Conclude
  <2>3. cycle > 0
    BY <2>1 DEF ResumeInv, CycleSites, TryBlock
  <2> QED
    BY <2>1, <2>2, <2>3, MoveResumable DEF FinalStateSites, AtRest
<1>8. CASE CancelRun
  <2>1. /\ Cancel(mem).runtimeState = "Cancelled" /\ Cancel(mem).checkpoint = mem.checkpoint
        /\ Cancel(mem) \in Session
    <3>1. Cancel(mem) \in Session
      BY CancelSound DEF IndInv, DocsSound, Edited, Sound
    <3> QED
      BY <1>0, <3>1 DEF Cancel, Session
  <2>2. Restorable(Cancel(mem)) /\ Unasked(Cancel(mem))
    BY <1>0, <2>1 DEF Restorable, Unasked
  <2>3. mem.runtimeState \notin Final
    BY <1>b, <1>8 DEF CancelRun, FinalStateSites, AtRest
  <2>4. "cancelled" \in FinalStateSites /\ "cancelled" \notin CycleSites
    BY DEF FinalStateSites, AtRest, CycleSites, TryBlock
  <2> QED
    BY <1>8, <2>1, <2>2, <2>3, <2>4, CommitResumable DEF CancelRun, local
<1>9. CASE StartModel
  <2>1. pc = "start_model" /\ mem.runtimeState = "Executing" /\ cycle > 0 /\ cycle' = cycle
    BY <1>9 DEF StartModel, ResumeInv, CycleSites, TryBlock, local
  <2>2. CASE pc' = "model" /\ UNCHANGED <<mem, store, error, faults>>
    BY <2>1, <2>2, MoveResumable DEF FinalStateSites, AtRest
  <2>3. CASE Commit(StartTask(mem, ModelTask), "model")
    <3> DEFINE s == StartTask(mem, ModelTask)
    <3>1. s \in Session
      BY StartTaskSound, TaskIdsKnown DEF IndInv, DocsSound, Edited, Sound
    <3>2. s.runtimeState = "Executing" /\ s.checkpoint = mem.checkpoint
      BY <1>0, <2>1 DEF StartTask, Session
    <3>3. Restorable(s) /\ Unasked(s) /\ "Executing" \notin Final
      BY <1>0, <3>2 DEF Restorable, Unasked, Final
    <3> HIDE DEF s
    <3> QED
      BY <2>1, <2>3, <3>1, <3>2, <3>3, CommitResumable DEF s
  <2> QED
    BY <1>9, <2>2, <2>3 DEF StartModel
<1>10. CASE FinishToolTurn
  <2>1. mem' = Replan(mem) /\ SameStanding(mem', mem) /\ UNCHANGED <<store, cycle>>
        /\ pc = "tools" /\ pc' = "tool_reflecting"
    BY <1>0, <1>10, StandingKept DEF FinishToolTurn, local
  <2>2. cycle > 0 /\ mem.runtimeState \notin Final
    BY <1>b, <2>1 DEF ResumeInv, CycleSites, TryBlock, FinalStateSites, AtRest
  <2> QED
    BY <1>a, <2>1, <2>2 DEF ResumeInv
<1>11. CASE ToolRuns \/ FinishModel \/ BeginValidation \/ Validate \/ StartFinalTask \/ FinishFinalTask
              \/ StoreVerdict \/ RequeueModel \/ HandleError
  <2>1. cycle > 0 /\ cycle' = cycle
    <3>1. cycle' = cycle
      BY <1>11 DEF ToolRuns, FinishModel, BeginValidation, Validate, StartFinalTask, FinishFinalTask,
         StoreVerdict, RequeueModel, HandleError, local
    <3>2. pc \in {"tools", "finish_model", "validating", "validate", "start_final", "finish_final",
                  "final_status", "requeue_reflection", "requeue_error", "catch"}
      BY <1>11 DEF ToolRuns, FinishModel, BeginValidation, Validate, StartFinalTask, FinishFinalTask,
         StoreVerdict, RequeueModel, HandleError
    <3> QED
      BY <3>1, <3>2 DEF ResumeInv, CycleSites, TryBlock
  <2>2. \/ /\ pc' = "start_final" /\ UNCHANGED <<mem, store>> /\ pc = "validate"
        \/ \E s \in Session, next \in {"tools", "reflecting", "validate", "start_final", "finish_final",
              "final_status", "gate_approval", "gate_tool", "decide", "ckpt_error", "ckpt_reflection",
              "retrying", "catch_failed"} :
              /\ SameStanding(s, mem) /\ Commit(s, next)
              /\ pc = "catch" => next \in {"retrying", "catch_failed"}
    <3>1. CASE ToolRuns
      <4>1. PICK b \in BOOLEAN : Commit([mem EXCEPT !.modifiedFiles = @ \/ b], "tools")
        BY <3>1 DEF ToolRuns
      <4>2. [mem EXCEPT !.modifiedFiles = @ \/ b] \in Session
        BY ModifiedSound DEF IndInv, DocsSound, Edited, Sound
      <4> QED
        BY <1>0, <3>1, <4>1, <4>2, StandingKept DEF ToolRuns
    <3>2. CASE FinishModel
      BY <1>0, <3>2, FinishTaskSound, StandingKept, TaskIdsKnown
         DEF FinishModel, IndInv, DocsSound, Edited, Sound
    <3>3. CASE BeginValidation
      BY <1>0, <3>3, WithStatusSound, StandingKept
         DEF BeginValidation, AgentSessionStatus, IndInv, DocsSound, Edited, Sound
    <3>4. CASE Validate
      BY <1>0, <3>4 DEF Validate, SameStanding
    <3>5. CASE StartFinalTask
      <4>1. FinalTasks[k] \in TaskIds /\ FinalTasks[k] # ModelTask
        BY <3>5, TaskIdsKnown DEF StartFinalTask, IndInv, ControlOK, FinalTasks, ModelTask
      <4> QED
        BY <1>0, <3>5, <4>1, StartTaskSound, StandingKept
           DEF StartFinalTask, IndInv, DocsSound, Edited, Sound
    <3>6. CASE FinishFinalTask
      <4> DEFINE to == IF k < Len(FinalTasks) THEN "start_final" ELSE "final_status"
      <4>1. FinalTasks[k] \in TaskIds
        BY <3>6, TaskIdsKnown DEF FinishFinalTask, IndInv, ControlOK
      <4>2. Commit(FinishTask(mem, FinalTasks[k]), to) /\ to \in {"start_final", "final_status"}
        BY <3>6 DEF FinishFinalTask
      <4> HIDE DEF to
      <4> QED
        BY <1>0, <3>6, <4>1, <4>2, FinishTaskSound, StandingKept
           DEF FinishFinalTask, IndInv, DocsSound, Edited, Sound
    <3>7. CASE StoreVerdict
      <4> DEFINE to == CASE turn.validation = "failed_approval" -> "gate_approval"
                         [] turn.validation = "failed_tests"    -> "gate_tool"
                         [] OTHER                               -> "decide"
                 verdict == IF ReflectionSucceeds THEN "COMPLETED" ELSE "FAILED"
      <4>1. to \in {"gate_approval", "gate_tool", "decide"} /\ verdict \in AgentSessionStatus
        BY DEF AgentSessionStatus
      <4>2. Commit(WithStatus(mem, verdict), to) /\ pc = "final_status"
        BY <3>7 DEF StoreVerdict
      <4> HIDE DEF to, verdict
      <4> QED
        BY <1>0, <4>1, <4>2, WithStatusSound, StandingKept DEF IndInv, DocsSound, Edited, Sound
    <3>8. CASE RequeueModel
      <4> DEFINE to == IF pc = "requeue_error" THEN "ckpt_error" ELSE "ckpt_reflection"
                 s == ResetTaskForRetry(Replan(mem), ModelTask)
      <4>1. to \in {"ckpt_error", "ckpt_reflection"} /\ Commit(s, to) /\ pc # "catch"
        BY <3>8 DEF RequeueModel
      <4>2. Sound(Replan(mem)) /\ SameStanding(Replan(mem), mem)
        BY <1>0, ReplanSound, StandingKept DEF IndInv, DocsSound, Edited
      <4>3. s \in Session /\ SameStanding(s, Replan(mem))
        BY <4>2, ResetTaskSound, StandingKept, TaskIdsKnown DEF Edited, Sound
      <4> HIDE DEF to, s
      <4> QED
        BY <4>1, <4>2, <4>3 DEF SameStanding
    <3>9. CASE HandleError
      <4> DEFINE to == IF RetryAllowed THEN "retrying" ELSE "catch_failed"
      <4>1. to \in {"retrying", "catch_failed"} /\ Commit(FailTask(mem, ModelTask), to)
        BY <3>9 DEF HandleError
      <4> HIDE DEF to
      <4> QED
        BY <1>0, <4>1, FailTaskSound, StandingKept, TaskIdsKnown DEF IndInv, DocsSound, Edited, Sound
    <3> QED
      BY <1>11, <3>1, <3>2, <3>3, <3>4, <3>5, <3>6, <3>7, <3>8, <3>9
  <2>3. CASE pc' = "start_final" /\ UNCHANGED <<mem, store>> /\ pc = "validate"
    BY <2>1, <2>3, MoveResumable DEF FinalStateSites, AtRest
  <2>4. CASE \E s \in Session, next \in {"tools", "reflecting", "validate", "start_final", "finish_final",
                "final_status", "gate_approval", "gate_tool", "decide", "ckpt_error", "ckpt_reflection",
                "retrying", "catch_failed"} :
                /\ SameStanding(s, mem) /\ Commit(s, next)
                /\ pc = "catch" => next \in {"retrying", "catch_failed"}
    <3>1. PICK s \in Session, next \in {"tools", "reflecting", "validate", "start_final", "finish_final",
                "final_status", "gate_approval", "gate_tool", "decide", "ckpt_error", "ckpt_reflection",
                "retrying", "catch_failed"} :
                /\ SameStanding(s, mem) /\ Commit(s, next)
                /\ pc = "catch" => next \in {"retrying", "catch_failed"}
      BY <2>4
    <3>2. mem.runtimeState \in Final => next \in FinalStateSites
      <4>1. pc # "catch" => pc \notin FinalStateSites
        BY <1>11 DEF ToolRuns, FinishModel, BeginValidation, Validate, StartFinalTask, FinishFinalTask,
           StoreVerdict, RequeueModel, HandleError, FinalStateSites, AtRest
      <4> QED
        BY <1>b, <3>1, <4>1 DEF FinalStateSites
    <3> QED
      BY <1>a, <2>1, <3>1, <3>2, CommitResumable
  <2> QED
    BY <2>2, <2>3, <2>4
<1>12. CASE Restore
  <2>1. mem' = RestoreLatest(mem) /\ store' = store /\ cycle' = cycle
        /\ pc = "restore" /\ pc' = "ckpt_recovered"
    BY <1>12 DEF Restore, local
  <2>2. mem.runtimeState \notin Final
    BY <1>b, <2>1 DEF FinalStateSites, AtRest
  <2>3. Restorable(mem') /\ Unasked(mem') /\ mem'.runtimeState \notin Final
    BY <1>0, <2>1, <2>2, RestoredUnasked
  <2>4. "ckpt_recovered" \notin CycleSites
    BY DEF CycleSites, TryBlock
  <2> QED
    BY <2>1, <2>2, <2>3, <2>4 DEF ResumeInv
<1>13. CASE Crash
  <2>1. UNCHANGED <<mem, store, cycle>> /\ pc' = "crashed"
    BY <1>13 DEF Crash, local
  <2> QED
    BY <2>1, MoveResumable DEF FinalStateSites, AtRest, CycleSites, TryBlock
<1>14. CASE Resume
  <2>1. mem' = store /\ store' = store /\ pc' = "recovering"
    BY <1>14 DEF Resume
  <2>2. "recovering" \in FinalStateSites /\ "recovering" \notin CycleSites
    BY DEF FinalStateSites, CycleSites, TryBlock
  <2> QED
    BY <2>1, <2>2 DEF ResumeInv
<1>15. CASE ClientStep
  <2>1. UNCHANGED <<mem, pc, cycle>> /\ store' \in {store, CancelledCopy(store)}
    BY <1>15, ClientStepOK DEF ClientStep, ReadForCancel, RefuseCancel, WriteCancel, runtimeVars
  <2>2. SameStanding(CancelledCopy(store), store)
    BY StandingKept DEF IndInv, DocsSound, Sound
  <2>3. Restorable(store') /\ Unasked(store') /\ store'.runtimeState = store.runtimeState
    BY <2>1, <2>2, StandsAlike DEF ResumeInv, SameStanding
  <2> QED
    BY <2>1, <2>3 DEF ResumeInv
<1>16. CASE Finished \/ UNCHANGED vars
  BY <1>16 DEF Finished, vars, runtimeVars, ResumeInv
<1> QED
  BY <1>1, <1>2, <1>3, <1>4, <1>5, <1>6, <1>7, <1>8, <1>9, <1>10, <1>11, <1>12, <1>13, <1>14, <1>15, <1>16
     DEF Next, RuntimeStep, RunCycle, ToolTurn, Finalize

\* ResumeInv holds of every reachable state.
THEOREM ResumeInvariance == Spec => []ResumeInv
<1>1. Init => ResumeInv
  <2> SUFFICES ASSUME Init PROVE ResumeInv
    OBVIOUS
  <2>1. mem = NewSession /\ store = NewSession /\ pc = "bootstrap"
    BY DEF Init
  <2>2. /\ NewSession.checkpoint = NoCheckpoint /\ NewSession.attempts = 0
        /\ NewSession.runtimeState = "Idle"
    BY DEF NewSession
  <2> QED
    BY <2>1, <2>2 DEF ResumeInv, Restorable, Unasked, Final, CycleSites, TryBlock
<1> QED
  BY <1>1, ResumeStep, Invariance, PTL DEF Spec

\* However often it is resumed, and whatever fails: a session stored as Completed
\* or Cancelled stays that, and none that had asked the model is run again.
THEOREM ResumesLittle == Spec => ResumesTakeUpLittle
<1>1. ASSUME IndInv, ResumeInv, ResumeInv', [Next]_vars,
             store.runtimeState \in {"Completed", "Cancelled"}
      PROVE  store'.runtimeState = store.runtimeState
  <2>1. mem.runtimeState = store.runtimeState /\ mem.runtimeState \in Final /\ pc \in FinalStateSites
    BY <1>1 DEF ResumeInv, Final
  <2>2. CASE RuntimeStep
    <3>1. pc \in {"catch", "retrying", "catch_failed", "recovering"} /\ (HandleError \/ EnterState)
      <4>1. pc \in FinalStateSites /\ pc \notin {"crashed"} \cup AtRest
        BY <2>1, <2>2 DEF RuntimeStep, HandleRequest, RunCycle, ToolTurn, Finalize, AtRest, StateSites,
           CheckpointSites, Bootstrap, StartInfoTask, FinishInfoTask, SavePlan, PlanReady, EnterState,
           TakeCheckpoint, BeginCycle, RefreshFails, ExhaustCycles, CancelRun, StartModel, ModelFails,
           ModelAnswers, ModelCallsTools, ToolUnknown, ToolRuns, ToolNeedsApproval, FinishToolTurn,
           FinishModel, BeginValidation, Validate, StartFinalTask, FinishFinalTask, StoreVerdict,
           TryAgain, Conclude, RequeueModel, HandleError, Restore
      <4>2. pc \in {"catch", "retrying", "catch_failed", "recovering"}
        BY <4>1 DEF FinalStateSites
      <4>3. HandleError \/ EnterState
        BY <2>2, <4>2 DEF RuntimeStep, HandleRequest, RunCycle, ToolTurn, Finalize,
           CheckpointSites, Bootstrap, StartInfoTask, FinishInfoTask, SavePlan, PlanReady,
           TakeCheckpoint, BeginCycle, RefreshFails, ExhaustCycles, CancelRun, StartModel, ModelFails,
           ModelAnswers, ModelCallsTools, ToolUnknown, ToolRuns, ToolNeedsApproval, FinishToolTurn,
           FinishModel, BeginValidation, Validate, StartFinalTask, FinishFinalTask, StoreVerdict,
           TryAgain, Conclude, RequeueModel, Restore
      <4> QED
        BY <4>2, <4>3
    <3>2. CASE HandleError
      <4>1. store' \in {store, Saved(FailTask(mem, ModelTask))}
        BY <3>2 DEF HandleError, Commit
      <4>2. Saved(FailTask(mem, ModelTask)).runtimeState = mem.runtimeState
        <5>1. Sound(FailTask(mem, ModelTask)) /\ SameStanding(FailTask(mem, ModelTask), mem)
          BY <1>1, FailTaskSound, StandingKept, TaskIdsKnown DEF IndInv, DocsSound, Edited, Sound
        <5> QED
          BY <5>1, SavedSound DEF SameStanding
      <4> QED
        BY <2>1, <4>1, <4>2
    <3>3. CASE EnterState
      <4>1. ~(mem.runtimeState = Requested(pc) \/ CanTransitionRuntimeState(mem.runtimeState, Requested(pc)))
        <5>1. pc \in {"retrying", "catch_failed", "recovering"}
          BY <3>1, <3>3 DEF EnterState, StateSites
        <5>2. Requested(pc) \notin Final
          BY <5>1 DEF Requested, Final
        <5>3. \A to : ~CanTransitionRuntimeState(mem.runtimeState, to)
          BY <2>1 DEF Final, CanTransitionRuntimeState, Transitions
        <5> QED
          BY <2>1, <5>2, <5>3
      <4>2. RuntimeTransition(pc)
        BY <3>3 DEF EnterState
      <4> QED
        BY <4>1, <4>2 DEF RuntimeTransition
    <3> QED
      BY <3>1, <3>2, <3>3
  <2>3. CASE Crash \/ Resume
    BY <1>1, <2>3, CrashOrResumeOK
  <2>4. CASE ClientStep
    <3>1. store' \in {store, CancelledCopy(store)}
      BY <1>1, <2>4, ClientStepOK DEF ClientStep
    <3>2. SameStanding(CancelledCopy(store), store)
      BY <1>1, StandingKept DEF IndInv, DocsSound, Sound
    <3> QED
      BY <3>1, <3>2 DEF SameStanding
  <2>5. CASE Finished \/ UNCHANGED vars
    BY <2>5 DEF Finished, vars
  <2> QED
    BY <1>1, <2>2, <2>3, <2>4, <2>5 DEF Next
<1>2. ASSUME IndInv, ResumeInv, [Next]_vars, resumes > 0, cycle = 0, cycle' > 0
      PROVE  mem.attempts = 0
  <2>1. cycle' # cycle
    BY <1>2
  <2>2. BeginCycle
    BY <1>2, <2>1 DEF Next, RuntimeStep, HandleRequest, RunCycle, ToolTurn, Finalize, Crash, Resume,
       ClientStep, ReadForCancel, RefuseCancel, WriteCancel, Finished, vars, runtimeVars, local,
       Bootstrap, StartInfoTask, FinishInfoTask, SavePlan, PlanReady, EnterState,
       TakeCheckpoint, RefreshFails, ExhaustCycles, CancelRun, StartModel, ModelFails,
       ModelAnswers, ModelCallsTools, Answered, ToolUnknown, ToolRuns, ToolNeedsApproval, FinishToolTurn,
       FinishModel, BeginValidation, Validate, StartFinalTask, FinishFinalTask, StoreVerdict,
       TryAgain, Conclude, RequeueModel, HandleError, Restore
  <2> QED
    BY <1>2, <2>2 DEF BeginCycle, ResumeInv
<1>3. IndInv /\ ResumeInv /\ [Next]_vars =>
         [store.runtimeState \in {"Completed", "Cancelled"} =>
             store'.runtimeState = store.runtimeState]_vars
  BY <1>1, ResumeStep
<1>4. IndInv /\ ResumeInv /\ [Next]_vars =>
         [resumes > 0 /\ cycle = 0 /\ cycle' > 0 => mem.attempts = 0]_vars
  BY <1>2
<1>5. Spec => FinishedStaysFinished
  BY <1>3, Invariance, ResumeInvariance, PTL DEF Spec, FinishedStaysFinished
<1>6. Spec => ResumesOnlyUnstarted
  BY <1>4, Invariance, ResumeInvariance, PTL DEF Spec, ResumesOnlyUnstarted
<1> QED
  BY <1>5, <1>6 DEF ResumesTakeUpLittle

-----------------------------------------------------------------------------
(* The run that nothing disturbs.                                          *)

\* No write has failed so far, the process has not died, nothing was resumed.
Undisturbed == faults = 0 /\ crashes = 0 /\ resumes = 0

Done(s, t) == s.tasks[t] = "COMPLETED" /\ t \notin s.pendingTasks

\* The control points of handle before its first transition; those on the way of
\* a stream; those where model-execution runs; those of finalizeSession.
EarlySites  == {"bootstrap", "start_info", "finish_info", "save_plan", "planned",
                "stream_executing", "initializing"}
StreamSites == {"bootstrap", "start_info", "finish_info", "save_plan", "stream_executing",
                "escaped"}
ModelSites  == {"model", "cancel_in_cycle", "waiting_tool", "tools", "tool_approval",
                "tool_reflecting", "finish_model"}
FinalSites  == {"validating", "validate", "start_final", "finish_final", "final_status"}

\* The state that a session has at each point.
StateInv ==
    /\ store.runtimeState = mem.runtimeState
    /\ pc \notin {"recovering", "restore", "ckpt_recovered", "crashed", "streaming"}
    /\ pc \in EarlySites => mem.runtimeState = "Idle"
    /\ pc \in FinalSites => mem.runtimeState = "Reflecting"
    /\ pc \notin AtRest => mem.runtimeState \notin {"Completed", "Failed", "Cancelled"}
    /\ stream => pc \in StreamSites

\* The tasks done at each point.
WorkInv ==
    /\ mem.tasks[ModelTask] \in {"RUNNING", "COMPLETED"} => mem.attempts > 0
    /\ \A i \in 1 .. Len(InfoTasks) :
          \/ pc = "bootstrap"
          \/ pc \in {"start_info", "finish_info"} /\ i >= k
          \/ Done(mem, InfoTasks[i])
    /\ pc = "finish_info" => InfoTasks[k] \notin mem.pendingTasks
    /\ pc \in ModelSites => mem.tasks[ModelTask] = "RUNNING"
    /\ pc \in FinalSites \cup {"reflecting"} => Done(mem, ModelTask)
    /\ pc = "finish_final" => FinalTasks[k] \notin mem.pendingTasks
    /\ \A i \in 1 .. Len(FinalTasks) :
          pc = "final_status" \/ (pc \in {"start_final", "finish_final"} /\ i < k) =>
              Done(mem, FinalTasks[i])

\* A session that is COMPLETED is so for good reason, and is stored as it is.
EndInv ==
    /\ pc \in AtRest \ {"escaped"} =>
          store.status \in {StatusForRuntimeState(store.runtimeState), "CANCELLED"}
    /\ pc = "completed" => mem.status = "COMPLETED"
    /\ mem.status = "COMPLETED" \/ store.status = "COMPLETED" =>
          /\ store = mem
          /\ pc \in {"decide", "completed", "answered"} /\ ~stream
          /\ pc # "answered" => mem.runtimeState = "Reflecting"
          /\ pc = "decide" => ReflectionSucceeds
          /\ \A t \in TaskIds : Done(mem, t)
          /\ ~mem.modifiedFiles => mem.attempts = 1

QuietInv == Undisturbed => StateInv /\ WorkInv /\ EndInv

-----------------------------------------------------------------------------
\* What changes nothing of the work that is done.
SameWork(d, s) ==
    d.tasks = s.tasks /\ d.pendingTasks = s.pendingTasks /\ d.attempts = s.attempts

\* What changes neither how far a session has come nor whether files were modified.
SamePlace(d, s) ==
    d.status = s.status /\ d.runtimeState = s.runtimeState /\ d.modifiedFiles = s.modifiedFiles

\* What changes of the work one task at most.
OneTask(d, s, t) ==
    \A u \in TaskIds \ {t} :
        d.tasks[u] = s.tasks[u] /\ (u \in d.pendingTasks <=> u \in s.pendingTasks)

LEMMA WorkAndPlace ==
    ASSUME NEW s \in Session
    PROVE  /\ SameWork(Saved(s), s) /\ SamePlace(Saved(s), s)
           /\ \A status \in AgentSessionStatus :
                 LET d == WithStatus(s, status) IN
                 /\ SameWork(d, s) /\ d.status = status
                 /\ d.runtimeState = s.runtimeState /\ d.modifiedFiles = s.modifiedFiles
           /\ \A r \in RuntimeLifecycleState :
                 LET d == WithRuntimeState(s, r) IN
                 /\ SameWork(d, s) /\ d.status = StatusForRuntimeState(r)
                 /\ d.runtimeState = r /\ d.modifiedFiles = s.modifiedFiles
           /\ SameWork(WithCheckpoint(s), s) /\ SamePlace(WithCheckpoint(s), s)
           /\ SameWork(Replan(s), s) /\ SamePlace(Replan(s), s)
           /\ \A b \in BOOLEAN :
                 LET d == [s EXCEPT !.modifiedFiles = @ \/ b] IN
                 SameWork(d, s) /\ d.status = s.status /\ d.runtimeState = s.runtimeState
           /\ LET d == Cancel(s) IN
                 SameWork(d, s) /\ d.status = "CANCELLED" /\ d.runtimeState = "Cancelled"
<1> USE DEF SameWork, SamePlace, Session
<1>1. SameWork(Saved(s), s) /\ SamePlace(Saved(s), s)
  BY DEF Saved
<1>2. ASSUME NEW status \in AgentSessionStatus
      PROVE  LET d == WithStatus(s, status) IN
             /\ SameWork(d, s) /\ d.status = status
             /\ d.runtimeState = s.runtimeState /\ d.modifiedFiles = s.modifiedFiles
  BY DEF WithStatus
<1>3. ASSUME NEW r \in RuntimeLifecycleState
      PROVE  LET d == WithRuntimeState(s, r) IN
             /\ SameWork(d, s) /\ d.status = StatusForRuntimeState(r)
             /\ d.runtimeState = r /\ d.modifiedFiles = s.modifiedFiles
  BY DEF WithRuntimeState
<1>4. /\ SameWork(WithCheckpoint(s), s) /\ SamePlace(WithCheckpoint(s), s)
      /\ SameWork(Replan(s), s) /\ SamePlace(Replan(s), s)
  BY DEF WithCheckpoint, Replan
<1>5. ASSUME NEW b \in BOOLEAN
      PROVE  LET d == [s EXCEPT !.modifiedFiles = @ \/ b] IN
             SameWork(d, s) /\ d.status = s.status /\ d.runtimeState = s.runtimeState
  OBVIOUS
<1>6. LET d == Cancel(s) IN
      SameWork(d, s) /\ d.status = "CANCELLED" /\ d.runtimeState = "Cancelled"
  BY DEF Cancel
<1> QED
  BY <1>1, <1>2, <1>3, <1>4, <1>5, <1>6

LEMMA TaskMoves ==
    ASSUME NEW s \in Session, NEW t \in TaskIds
    PROVE  /\ LET d == StartTask(s, t) IN
              /\ OneTask(d, s, t) /\ SamePlace(d, s)
              /\ d.tasks[t] = "RUNNING" /\ t \notin d.pendingTasks
              /\ d.attempts = Bump(s, t)
           /\ LET d == FinishTask(s, t) IN
              /\ OneTask(d, s, t) /\ SamePlace(d, s) /\ d.attempts = s.attempts
              /\ d.tasks[t] = "COMPLETED" /\ d.pendingTasks = s.pendingTasks
           /\ LET d == FailTask(s, t) IN
              /\ OneTask(d, s, t) /\ SamePlace(d, s) /\ d.attempts = s.attempts
              /\ d.tasks[t] = "FAILED"
           /\ LET d == ResetTaskForRetry(s, t) IN
              /\ OneTask(d, s, t) /\ SamePlace(d, s) /\ d.attempts = s.attempts
              /\ d.tasks[t] = "PENDING"
<1> USE DEF OneTask, SamePlace, Session
<1>1. LET d == StartTask(s, t) IN
      /\ OneTask(d, s, t) /\ SamePlace(d, s)
      /\ d.tasks[t] = "RUNNING" /\ t \notin d.pendingTasks /\ d.attempts = Bump(s, t)
  BY DEF StartTask
<1>2. LET d == FinishTask(s, t) IN
      /\ OneTask(d, s, t) /\ SamePlace(d, s) /\ d.attempts = s.attempts
      /\ d.tasks[t] = "COMPLETED" /\ d.pendingTasks = s.pendingTasks
  BY DEF FinishTask
<1>3. LET d == FailTask(s, t) IN
      OneTask(d, s, t) /\ SamePlace(d, s) /\ d.attempts = s.attempts /\ d.tasks[t] = "FAILED"
  BY DEF FailTask
<1>4. LET d == ResetTaskForRetry(s, t) IN
      OneTask(d, s, t) /\ SamePlace(d, s) /\ d.attempts = s.attempts /\ d.tasks[t] = "PENDING"
  BY DEF ResetTaskForRetry
<1> QED
  BY <1>1, <1>2, <1>3, <1>4

\* No two tasks of the plan are the same.
LEMMA TasksDiffer ==
    /\ \A i \in 1 .. Len(InfoTasks) : InfoTasks[i] # ModelTask
    /\ \A i, j \in 1 .. Len(InfoTasks) : i # j => InfoTasks[i] # InfoTasks[j]
    /\ \A i \in 1 .. Len(FinalTasks) : FinalTasks[i] # ModelTask
    /\ \A i, j \in 1 .. Len(FinalTasks) : i # j => FinalTasks[i] # FinalTasks[j]
    /\ \A i \in 1 .. Len(InfoTasks), j \in 1 .. Len(FinalTasks) : InfoTasks[i] # FinalTasks[j]
<1>1. DOMAIN InfoTasks = 1 .. Len(InfoTasks) /\ DOMAIN FinalTasks = 1 .. Len(FinalTasks)
  BY InfoTasksAssumption DEF FinalTasks
<1>2. \A i \in 1 .. Len(FinalTasks) : FinalTasks[i] # ModelTask
  BY DEF FinalTasks, ModelTask
<1>3. \A i, j \in 1 .. Len(FinalTasks) : i # j => FinalTasks[i] # FinalTasks[j]
  BY DEF FinalTasks
<1> QED
  BY <1>1, <1>2, <1>3, InfoTasksAssumption

\* A save that does not fail is stored.
LEMMA QuietCommit ==
    ASSUME IndInv, Undisturbed, Undisturbed', NEW s, NEW next, Commit(s, next)
    PROVE  mem' = Saved(s) /\ store' = Saved(s) /\ pc' = next
BY DEF Commit, Undisturbed

\* A task that runs is not pending.
LEMMA RunningNotPending ==
    ASSUME NEW s, Sound(s), NEW t \in TaskIds, s.tasks[t] = "RUNNING"
    PROVE  t \notin s.pendingTasks
BY DEF Sound, WellKept, Bookkept

\* A step that leaves the work alone.
LEMMA WorkStays ==
    ASSUME WorkInv, SameWork(mem', mem),
           {pc, pc'} \cap {"bootstrap", "start_info", "finish_info"} = {},
           pc' \in ModelSites => pc \in ModelSites,
           pc' \in FinalSites \cup {"reflecting"} => pc \in FinalSites \cup {"reflecting"},
           pc' \notin {"finish_final", "final_status"},
           pc' = "start_final" => k' = 1
    PROVE  WorkInv'
<1>1. \A t : Done(mem, t) => Done(mem', t)
  BY DEF SameWork, Done
<1>2. \A i \in 1 .. Len(InfoTasks) : Done(mem', InfoTasks[i])
  BY <1>1 DEF WorkInv
<1>3. \A i \in 1 .. Len(FinalTasks) : ~(i < 1)
  OBVIOUS
<1> QED
  BY <1>1, <1>2, <1>3 DEF WorkInv, SameWork

\* A step that does not change the state, nor the end.
LEMMA GoesOn ==
    ASSUME StateInv, mem'.runtimeState = mem.runtimeState, store'.runtimeState = mem.runtimeState,
           mem'.status # "COMPLETED", store'.status # "COMPLETED",
           stream' = stream, stream => pc' \in StreamSites,
           pc \notin AtRest, pc' \notin AtRest,
           pc' \notin {"completed", "recovering", "restore", "ckpt_recovered", "crashed", "streaming"},
           pc' \in EarlySites => pc \in EarlySites, pc' \in FinalSites => pc \in FinalSites
    PROVE  StateInv' /\ EndInv' /\ store'.runtimeState = store.runtimeState
BY DEF StateInv, EndInv

\* Only in the end is a session COMPLETED.
LEMMA NotYetCompleted ==
    ASSUME EndInv, pc \notin {"decide", "completed", "answered"}
    PROVE  mem.status # "COMPLETED" /\ store.status # "COMPLETED"
BY DEF EndInv

\* Before and after a step that nothing disturbs.
QuietBefore == IndInv /\ Undisturbed /\ Undisturbed' /\ StateInv /\ WorkInv /\ EndInv

LegalMove ==
    \/ store'.runtimeState = store.runtimeState
    \/ CanTransitionRuntimeState(store.runtimeState, store'.runtimeState)

QuietAfter == StateInv' /\ WorkInv' /\ EndInv' /\ LegalMove

\* handle gathers its information, task by task, in the state Idle.
LEMMA HandleRequestQuiet == ASSUME QuietBefore, HandleRequest PROVE QuietAfter
<1> USE DEF QuietBefore
<1>0. mem \in Session /\ Sound(mem) /\ Len(InfoTasks) \in Nat /\ Len(InfoTasks) > 0
  BY InfoTasksAssumption DEF IndInv, DocsSound, Sound
<1>1. pc \in {"bootstrap", "start_info", "finish_info", "save_plan", "planned"} /\ stream' = stream
  BY DEF HandleRequest, Bootstrap, StartInfoTask, FinishInfoTask, SavePlan, PlanReady, local
<1>2. /\ mem.runtimeState = "Idle" /\ mem.status # "COMPLETED" /\ store.status # "COMPLETED"
      /\ pc \in EarlySites /\ pc \notin AtRest
      /\ stream => pc # "planned"
  BY <1>1, NotYetCompleted DEF StateInv, EarlySites, StreamSites, AtRest
<1>3. ASSUME NEW s \in Session, NEW next, Commit(s, next), s.status # "COMPLETED",
             s.runtimeState = mem.runtimeState,
             next \in EarlySites, stream => next \in StreamSites
      PROVE  /\ mem' = Saved(s) /\ pc' = next
             /\ StateInv' /\ EndInv' /\ LegalMove
  <2>1. mem' = Saved(s) /\ store' = Saved(s) /\ pc' = next
    BY <1>3, QuietCommit
  <2>2. mem'.status # "COMPLETED" /\ mem'.runtimeState = mem.runtimeState
    BY <1>3, <2>1, WorkAndPlace DEF SamePlace
  <2>3. /\ next \notin AtRest /\ next \notin FinalSites
        /\ next \notin {"completed", "recovering", "restore", "ckpt_recovered", "crashed", "streaming"}
    BY <1>3 DEF EarlySites, AtRest, FinalSites
  <2> QED
    BY <1>1, <1>2, <1>3, <2>1, <2>2, <2>3, GoesOn DEF LegalMove
<1>4. \A s \in Session : SameWork(Saved(s), s)
  BY WorkAndPlace
<1>5. CASE Bootstrap
  <2> DEFINE s == WithStatus(mem, "ANALYZING")
  <2>1. /\ s \in Session /\ s.status = "ANALYZING" /\ s.runtimeState = mem.runtimeState
        /\ SameWork(s, mem)
    BY <1>0, WithStatusSound, WorkAndPlace DEF AgentSessionStatus, Edited, Sound
  <2>2. Commit(s, "start_info") /\ k' = 1
    BY <1>5 DEF Bootstrap
  <2>3. "start_info" \in EarlySites /\ "start_info" \in StreamSites
    BY DEF EarlySites, StreamSites
  <2> HIDE DEF s
  <2>4. mem' = Saved(s) /\ pc' = "start_info" /\ StateInv' /\ EndInv' /\ LegalMove
    BY <1>3, <2>1, <2>2, <2>3
  <2>5. SameWork(mem', mem)
    BY <1>4, <2>1, <2>4 DEF SameWork
  <2>6. WorkInv'
    BY <2>2, <2>4, <2>5 DEF WorkInv, SameWork, ModelSites, FinalSites
  <2> QED
    BY <2>4, <2>6 DEF QuietAfter
<1>6. CASE StartInfoTask
  <2> DEFINE t == InfoTasks[k]
             s == StartTask(mem, t)
  <2>1. k \in 1 .. Len(InfoTasks) /\ t \in TaskIds /\ t # ModelTask
    BY <1>6, TaskIdsKnown, InfoTasksAssumption DEF StartInfoTask, IndInv, ControlOK
  <2>2. s \in Session /\ OneTask(s, mem, t) /\ SamePlace(s, mem) /\ t \notin s.pendingTasks
        /\ s.attempts = mem.attempts
    BY <1>0, <2>1, StartTaskSound, TaskMoves DEF Edited, Sound, Bump
  <2>3. Commit(s, "finish_info") /\ k' = k /\ pc = "start_info"
    BY <1>6 DEF StartInfoTask
  <2>4. "finish_info" \in EarlySites /\ "finish_info" \in StreamSites
    BY DEF EarlySites, StreamSites
  <2> HIDE DEF s
  <2>5. mem' = Saved(s) /\ pc' = "finish_info" /\ StateInv' /\ EndInv' /\ LegalMove
    BY <1>2, <1>3, <2>2, <2>3, <2>4 DEF SamePlace
  <2>6. mem'.tasks = s.tasks /\ mem'.pendingTasks = s.pendingTasks /\ mem'.attempts = mem.attempts
    BY <1>4, <2>2, <2>5 DEF SameWork
  <2>7. ASSUME NEW i \in 1 .. Len(InfoTasks), i < k PROVE Done(mem', InfoTasks[i])
    <3>1. Done(mem, InfoTasks[i])
      BY <2>1, <2>3, <2>7 DEF WorkInv
    <3>2. InfoTasks[i] # t /\ InfoTasks[i] \in TaskIds
      BY <2>1, <2>7, TasksDiffer, TaskIdsKnown, InfoTasksAssumption
    <3> QED
      BY <2>2, <2>6, <3>1, <3>2 DEF Done, OneTask
  <2>8. mem'.tasks[ModelTask] = mem.tasks[ModelTask]
    BY <2>1, <2>2, <2>6, TaskIdsKnown DEF OneTask
  <2>9. \A i \in 1 .. Len(InfoTasks) : i >= k' \/ Done(mem', InfoTasks[i])
    BY <2>1, <2>3, <2>7
  <2>10. WorkInv'
    BY <2>2, <2>3, <2>5, <2>6, <2>8, <2>9 DEF WorkInv, ModelSites, FinalSites
  <2> QED
    BY <2>5, <2>10 DEF QuietAfter
<1>7. CASE FinishInfoTask
  <2> DEFINE t == InfoTasks[k]
             s == FinishTask(mem, t)
             next == IF k < Len(InfoTasks) THEN "start_info" ELSE "save_plan"
  <2>1. k \in 1 .. Len(InfoTasks) /\ t \in TaskIds /\ t # ModelTask
    BY <1>7, TaskIdsKnown, InfoTasksAssumption DEF FinishInfoTask, IndInv, ControlOK
  <2>2. s \in Session /\ OneTask(s, mem, t) /\ SamePlace(s, mem) /\ s.tasks[t] = "COMPLETED"
        /\ s.pendingTasks = mem.pendingTasks /\ s.attempts = mem.attempts
    BY <1>0, <2>1, FinishTaskSound, TaskMoves DEF Edited, Sound
  <2>3. Commit(s, next) /\ pc = "finish_info" /\ next \in {"start_info", "save_plan"}
    BY <1>7 DEF FinishInfoTask
  <2>4. k' = IF k < Len(InfoTasks) THEN k + 1 ELSE 1
    BY <1>7 DEF FinishInfoTask
  <2>5. next = "start_info" => k' = k + 1
    BY <2>4
  <2>6. next = "save_plan" => k = Len(InfoTasks)
    BY <1>0, <2>1
  <2>7. {"start_info", "save_plan"} \subseteq EarlySites \cap StreamSites
    BY DEF EarlySites, StreamSites
  <2> HIDE DEF s, next
  <2>8. mem' = Saved(s) /\ pc' = next /\ StateInv' /\ EndInv' /\ LegalMove
    BY <1>2, <1>3, <2>2, <2>3, <2>7 DEF SamePlace
  <2>9. mem'.tasks = s.tasks /\ mem'.pendingTasks = mem.pendingTasks /\ mem'.attempts = mem.attempts
    BY <1>4, <2>2, <2>8 DEF SameWork
  <2>10. ASSUME NEW i \in 1 .. Len(InfoTasks), i <= k PROVE Done(mem', InfoTasks[i])
    <3>1. CASE i = k
      BY <2>2, <2>3, <2>9, <3>1 DEF Done, WorkInv
    <3>2. CASE i # k
      <4>1. Done(mem, InfoTasks[i])
        BY <2>1, <2>3, <2>10, <3>2 DEF WorkInv
      <4>2. InfoTasks[i] # t /\ InfoTasks[i] \in TaskIds
        BY <2>1, <3>2, TasksDiffer, TaskIdsKnown, InfoTasksAssumption
      <4> QED
        BY <2>2, <2>9, <4>1, <4>2 DEF Done, OneTask
    <3> QED
      BY <3>1, <3>2
  <2>11. mem'.tasks[ModelTask] = mem.tasks[ModelTask]
    BY <2>1, <2>2, <2>9, TaskIdsKnown DEF OneTask
  <2>12. CASE next = "start_info"
    <3>1. \A i \in 1 .. Len(InfoTasks) : i >= k' \/ Done(mem', InfoTasks[i])
      BY <2>1, <2>5, <2>10, <2>12
    <3> QED
      BY <2>8, <2>9, <2>11, <2>12, <3>1 DEF WorkInv, ModelSites, FinalSites, QuietAfter
  <2>13. CASE next = "save_plan"
    <3>1. \A i \in 1 .. Len(InfoTasks) : Done(mem', InfoTasks[i])
      BY <1>0, <2>6, <2>10, <2>13
    <3> QED
      BY <2>8, <2>9, <2>11, <2>13, <3>1 DEF WorkInv, ModelSites, FinalSites, QuietAfter
  <2> QED
    BY <2>3, <2>12, <2>13
<1>8. CASE SavePlan
  <2> DEFINE next == IF stream THEN "stream_executing" ELSE "planned"
  <2>1. /\ Commit(mem, next) /\ pc = "save_plan" /\ next \in {"stream_executing", "planned"}
        /\ stream => next = "stream_executing"
    BY <1>8 DEF SavePlan
  <2>2. {"stream_executing", "planned"} \subseteq EarlySites /\ "stream_executing" \in StreamSites
    BY DEF EarlySites, StreamSites
  <2> HIDE DEF next
  <2>3. mem' = Saved(mem) /\ pc' = next /\ StateInv' /\ EndInv' /\ LegalMove
    BY <1>0, <1>2, <1>3, <2>1, <2>2
  <2>4. WorkInv'
    BY <1>0, <1>4, <2>1, <2>3, WorkStays DEF ModelSites, FinalSites
  <2> QED
    BY <2>3, <2>4 DEF QuietAfter
<1>9. CASE PlanReady
  <2> DEFINE s == WithStatus(mem, "PLANNED")
  <2>1. /\ s \in Session /\ s.status = "PLANNED" /\ s.runtimeState = mem.runtimeState
        /\ SameWork(s, mem)
    BY <1>0, WithStatusSound, WorkAndPlace DEF AgentSessionStatus, Edited, Sound
  <2>2. Commit(s, "initializing") /\ pc = "planned"
    BY <1>9 DEF PlanReady
  <2>3. "initializing" \in EarlySites
    BY DEF EarlySites
  <2> HIDE DEF s
  <2>4. mem' = Saved(s) /\ pc' = "initializing" /\ StateInv' /\ EndInv' /\ LegalMove
    BY <1>2, <1>3, <2>1, <2>2, <2>3
  <2>5. SameWork(mem', mem)
    BY <1>4, <2>1, <2>4 DEF SameWork
  <2>6. WorkInv'
    BY <2>2, <2>4, <2>5, WorkStays DEF ModelSites, FinalSites
  <2> QED
    BY <2>4, <2>6 DEF QuietAfter
<1> QED
  BY <1>5, <1>6, <1>7, <1>8, <1>9 DEF HandleRequest

\* From where the sites of transitionRuntimeState go on, and asking for what.
LEMMA QuietSites ==
    \A site \in StateSites :
        /\ AfterState(site) \notin EarlySites \cup {"completed"}
        /\ AfterState(site) \in ModelSites => site = "waiting_tool"
        /\ AfterState(site) \in FinalSites => site = "reflecting" /\ Requested(site) = "Reflecting"
        /\ AfterState(site) \notin {"reflecting", "start_final", "finish_final", "final_status",
                                   "recovering", "ckpt_recovered", "crashed"}
        /\ AfterState(site) = "restore" => site = "recovering"
        /\ AfterState(site) = "streaming" => site = "stream_executing"
        /\ Requested(site) \in {"Completed", "Failed", "Cancelled"} => AfterState(site) \in AtRest
        /\ Requested(site) = "Completed" => site = "completed"
        /\ site \in StreamSites => site = "stream_executing"
        /\ site \in FinalSites => FALSE
<1> SUFFICES ASSUME NEW site \in StateSites
             PROVE  /\ AfterState(site) \notin EarlySites \cup {"completed"}
                    /\ AfterState(site) \in ModelSites => site = "waiting_tool"
                    /\ AfterState(site) \in FinalSites => site = "reflecting" /\ Requested(site) = "Reflecting"
                    /\ AfterState(site) \notin {"reflecting", "start_final", "finish_final", "final_status",
                                               "recovering", "ckpt_recovered", "crashed"}
                    /\ AfterState(site) = "restore" => site = "recovering"
                    /\ AfterState(site) = "streaming" => site = "stream_executing"
                    /\ Requested(site) \in {"Completed", "Failed", "Cancelled"} => AfterState(site) \in AtRest
                    /\ Requested(site) = "Completed" => site = "completed"
                    /\ site \in StreamSites => site = "stream_executing"
                    /\ site \in FinalSites => FALSE
  OBVIOUS
<1>1. /\ site \in StreamSites => site = "stream_executing"
      /\ site \in FinalSites => FALSE
  BY DEF StateSites, StreamSites, FinalSites
<1>2. CASE site \in {"initializing", "planning", "executing", "stream_executing", "waiting_tool"}
  BY <1>1, <1>2 DEF AfterState, Requested, EarlySites, ModelSites, FinalSites, AtRest
<1>3. CASE site \in {"tool_approval", "tool_reflecting", "tool_planning", "reflecting", "gate_approval"}
  BY <1>1, <1>3 DEF AfterState, Requested, EarlySites, ModelSites, FinalSites, AtRest
<1>4. CASE site \in {"gate_tool", "reflection_retry", "reflection_replan", "completed", "failed"}
  BY <1>1, <1>4 DEF AfterState, Requested, EarlySites, ModelSites, FinalSites, AtRest
<1>5. CASE site \in {"retrying", "catch_failed", "exhausted", "recovering"}
  BY <1>1, <1>5 DEF AfterState, Requested, EarlySites, ModelSites, FinalSites, AtRest
<1> QED
  BY <1>2, <1>3, <1>4, <1>5 DEF StateSites

\* Asked for, a state is granted and stored with its status, or the table refuses.
LEMMA EnterStateQuiet == ASSUME QuietBefore, EnterState PROVE QuietAfter
<1> USE DEF QuietBefore
<1> DEFINE to == Requested(pc)
           s == WithRuntimeState(mem, to)
<1>0. mem \in Session /\ Sound(mem) /\ mem.runtimeState \in RuntimeLifecycleState
  BY DEF IndInv, DocsSound, Sound, Session
<1>1. pc \in StateSites /\ RuntimeTransition(pc) /\ stream' = stream /\ turn' = turn
  BY DEF EnterState, local
<1>2. pc \notin AtRest /\ pc \notin {"bootstrap", "start_info", "finish_info"}
  BY <1>1 DEF StateSites, AtRest
<1>3. pc = "completed" => mem.runtimeState = "Reflecting"
  BY DEF EndInv
<1>4. pc # "completed" => mem.status # "COMPLETED" /\ store.status # "COMPLETED"
  BY <1>1, NotYetCompleted DEF StateSites
<1>5. to \in RuntimeLifecycleState
  BY <1>1, SitesKnown
<1>6. CASE mem.runtimeState = to \/ CanTransitionRuntimeState(mem.runtimeState, to)
  <2>1. Commit(s, AfterState(pc))
    BY <1>1, <1>6 DEF RuntimeTransition
  <2>2. /\ s \in Session /\ SameWork(s, mem) /\ s.status = StatusForRuntimeState(to)
        /\ s.runtimeState = to /\ s.modifiedFiles = mem.modifiedFiles
    BY <1>0, <1>5, WithRuntimeStateSound, WorkAndPlace DEF Edited, Sound
  <2> HIDE DEF s
  <2>3. mem' = Saved(s) /\ store' = mem' /\ pc' = AfterState(pc)
    BY <2>1, QuietCommit
  <2>4. /\ SameWork(mem', mem) /\ mem'.status = StatusForRuntimeState(to)
        /\ mem'.runtimeState = to /\ mem'.modifiedFiles = mem.modifiedFiles
    BY <2>2, <2>3, WorkAndPlace DEF SameWork, SamePlace
  <2>5. pc # "stream_executing"
    <3>1. ASSUME pc = "stream_executing" PROVE FALSE
      <4>1. mem.runtimeState = "Idle" /\ to = "Executing"
        BY <3>1 DEF StateInv, EarlySites, Requested
      <4> QED
        BY <1>6, <4>1 DEF CanTransitionRuntimeState, Transitions
    <3> QED
      BY <3>1
  <2>6. ~stream /\ pc # "recovering"
    BY <1>1, <2>5, QuietSites DEF StateInv
  <2> HIDE DEF to
  <2>7. StateInv'
    <3>1. pc' \in EarlySites => mem'.runtimeState = "Idle"
      BY <1>1, <2>3, QuietSites
    <3>2. pc' \in FinalSites => mem'.runtimeState = "Reflecting"
      BY <1>1, <2>3, <2>4, QuietSites DEF to
    <3>3. pc' \notin AtRest => mem'.runtimeState \notin {"Completed", "Failed", "Cancelled"}
      BY <1>1, <2>3, <2>4, QuietSites DEF to
    <3>4. pc' \notin {"recovering", "restore", "ckpt_recovered", "crashed", "streaming"}
      BY <1>1, <2>3, <2>5, <2>6, QuietSites
    <3> QED
      BY <1>1, <2>3, <2>6, <3>1, <3>2, <3>3, <3>4 DEF StateInv
  <2>8. WorkInv'
    <3>1. pc' \notin {"bootstrap", "start_info", "finish_info"}
      BY <1>1, <2>3, QuietSites DEF EarlySites
    <3>2. pc' \in ModelSites => pc \in ModelSites
      BY <1>1, <2>3, QuietSites DEF ModelSites
    <3>3. pc' \in FinalSites \cup {"reflecting"} => pc = "reflecting"
      BY <1>1, <2>3, QuietSites
    <3>4. pc' \notin {"start_final", "finish_final", "final_status"}
      BY <1>1, <2>3, QuietSites
    <3> QED
      BY <1>2, <2>4, <3>1, <3>2, <3>3, <3>4, WorkStays
  <2>9. EndInv'
    <3>1. pc' # "completed" /\ store' = mem'
      BY <1>1, <2>3, QuietSites
    <3>2. mem'.status = StatusForRuntimeState(mem'.runtimeState)
      BY <2>4
    <3>3. CASE mem'.status # "COMPLETED"
      BY <3>1, <3>2, <3>3 DEF EndInv
    <3>4. CASE mem'.status = "COMPLETED"
      <4>1. to = "Completed"
        BY <1>5, <2>4, <3>4 DEF StatusForRuntimeState, RuntimeLifecycleState
      <4>2. pc = "completed" /\ pc' = "answered"
        BY <1>1, <2>3, <4>1, QuietSites DEF to, AfterState
      <4>3. /\ \A t \in TaskIds : Done(mem, t)
            /\ ~mem.modifiedFiles => mem.attempts = 1
        BY <4>2 DEF EndInv
      <4>4. /\ \A t \in TaskIds : Done(mem', t)
            /\ ~mem'.modifiedFiles => mem'.attempts = 1
        BY <2>4, <4>3 DEF Done, SameWork
      <4> QED
        BY <1>1, <2>6, <3>1, <3>2, <4>2, <4>4 DEF EndInv
    <3> QED
      BY <3>3, <3>4
  <2>10. LegalMove
    BY <1>6, <2>3, <2>4 DEF LegalMove, StateInv
  <2> QED
    BY <2>7, <2>8, <2>9, <2>10 DEF QuietAfter
<1>7. CASE ~(mem.runtimeState = to \/ CanTransitionRuntimeState(mem.runtimeState, to))
  <2>1. pc' = Handler(pc) /\ UNCHANGED <<mem, store>>
    BY <1>1, <1>7 DEF RuntimeTransition, Throw
  <2>2. pc # "completed"
    <3>1. ASSUME pc = "completed" PROVE FALSE
      <4>1. mem.runtimeState = "Reflecting" /\ to = "Completed"
        BY <1>3, <3>1 DEF Requested
      <4> QED
        BY <1>7, <4>1 DEF CanTransitionRuntimeState, Transitions
    <3> QED
      BY <3>1
  <2> HIDE DEF to
  <2>3. pc' \in {"catch", "escaped"} /\ (pc' = "catch" => pc # "stream_executing")
    BY <2>1 DEF Handler, TryBlock
  <2>4. stream => pc' = "escaped"
    BY <1>1, <2>3, QuietSites DEF StateInv
  <2>5. StateInv'
    BY <1>1, <1>2, <2>1, <2>3, <2>4 DEF StateInv, EarlySites, FinalSites, StreamSites
  <2>6. EndInv'
    BY <1>4, <2>1, <2>2, <2>3 DEF EndInv, AtRest
  <2>7. WorkInv'
    BY <1>2, <2>1, <2>3, WorkStays DEF SameWork, ModelSites, FinalSites
  <2> QED
    BY <2>1, <2>5, <2>6, <2>7 DEF QuietAfter, LegalMove
<1> QED
  BY <1>6, <1>7

\* The other steps of a cycle that leave the session as it is, or only take a
\* checkpoint of it, cancel it, or start the model.
LEMMA RunCycleQuiet == ASSUME QuietBefore, RunCycle PROVE QuietAfter
<1> USE DEF QuietBefore
<1>0. mem \in Session /\ Sound(mem) /\ mem.runtimeState \in RuntimeLifecycleState
  BY DEF IndInv, DocsSound, Sound, Session
<1>m. \A s \in Session : SameWork(Saved(s), s) /\ SamePlace(Saved(s), s)
  BY WorkAndPlace
<1>1. CASE EnterState
  BY <1>1, EnterStateQuiet
<1>2. CASE TakeCheckpoint
  <2> DEFINE s == WithCheckpoint(mem)
  <2>1. pc \in CheckpointSites /\ Commit(s, AfterCheckpoint(pc)) /\ stream' = stream
    BY <1>2 DEF TakeCheckpoint, local
  <2>2. s \in Session /\ SameWork(s, mem) /\ SamePlace(s, mem)
    BY <1>0, WithCheckpointSound, WorkAndPlace DEF Edited, Sound
  <2>3. AfterCheckpoint(pc) \in {"planning", "loop"} /\ pc # "ckpt_recovered"
    BY <2>1 DEF StateInv, AfterCheckpoint
  <2> HIDE DEF s
  <2>4. mem' = Saved(s) /\ store' = Saved(s) /\ pc' \in {"planning", "loop"}
    BY <2>1, <2>3, QuietCommit
  <2>5. SameWork(mem', mem) /\ SamePlace(mem', mem)
    BY <1>m, <2>2, <2>4 DEF SameWork, SamePlace
  <2>6. pc \notin {"decide", "completed", "answered", "bootstrap", "start_info", "finish_info"}
        /\ pc \notin AtRest /\ ~stream
    BY <2>1 DEF CheckpointSites, AtRest, StateInv, StreamSites
  <2>7. mem'.status # "COMPLETED" /\ mem'.runtimeState = mem.runtimeState /\ store' = mem'
    BY <2>4, <2>5, <2>6, NotYetCompleted DEF SamePlace
  <2>8. pc' \notin AtRest \cup EarlySites \cup FinalSites
    BY <2>4 DEF AtRest, EarlySites, FinalSites
  <2>9. StateInv' /\ EndInv' /\ LegalMove
    BY <2>1, <2>4, <2>6, <2>7, <2>8, GoesOn DEF LegalMove
  <2>10. WorkInv'
    BY <2>4, <2>5, <2>6, WorkStays DEF ModelSites, FinalSites
  <2> QED
    BY <2>9, <2>10 DEF QuietAfter
<1>3. CASE BeginCycle \/ ExhaustCycles \/ ModelFails \/ ModelAnswers \/ ModelCallsTools
  <2>1. UNCHANGED <<mem, store, stream>>
    BY <1>3 DEF BeginCycle, ExhaustCycles, ModelFails, ModelAnswers, ModelCallsTools, Answered, local
  <2>2. pc \in {"loop", "model"}
    BY <1>3 DEF BeginCycle, ExhaustCycles, ModelFails, ModelAnswers, ModelCallsTools
  <2>3. \/ pc = "loop" /\ pc' \in {"cancel_at_loop", "executing", "exhausted"}
        \/ pc = "model" /\ pc' \in {"catch", "cancel_in_cycle", "finish_model", "waiting_tool"}
    BY <1>3 DEF BeginCycle, ExhaustCycles, ModelFails, ModelAnswers, ModelCallsTools, Answered,
       Throw, Handler, TryBlock
  <2>4. mem.status # "COMPLETED" /\ store.status # "COMPLETED" /\ ~stream
    BY <2>2, NotYetCompleted DEF StateInv, StreamSites
  <2>5. {pc, pc'} \cap (AtRest \cup EarlySites \cup FinalSites) = {}
    BY <2>3 DEF AtRest, EarlySites, FinalSites
  <2>6. StateInv' /\ EndInv' /\ LegalMove
    BY <2>1, <2>3, <2>4, <2>5, GoesOn DEF StateInv, LegalMove
  <2>7. WorkInv'
    BY <2>1, <2>3, WorkStays DEF SameWork, ModelSites, FinalSites
  <2> QED
    BY <2>6, <2>7 DEF QuietAfter
<1>4. ~RefreshFails
  BY DEF RefreshFails, Undisturbed
<1>5. CASE CancelRun
  <2> DEFINE s == Cancel(mem)
  <2>1. pc \in {"cancel_at_loop", "cancel_in_cycle"} /\ Commit(s, "cancelled") /\ stream' = stream
    BY <1>5 DEF CancelRun, local
  <2>2. s \in Session /\ SameWork(s, mem) /\ s.status = "CANCELLED" /\ s.runtimeState = "Cancelled"
    BY <1>0, CancelSound, WorkAndPlace DEF Edited, Sound
  <2> HIDE DEF s
  <2>3. mem' = Saved(s) /\ store' = mem' /\ pc' = "cancelled"
    BY <2>1, QuietCommit
  <2>4. SameWork(mem', mem) /\ mem'.status = "CANCELLED" /\ mem'.runtimeState = "Cancelled"
    BY <1>m, <2>2, <2>3 DEF SameWork, SamePlace
  <2>5. ~stream /\ mem.runtimeState \notin {"Completed", "Failed", "Cancelled"}
    BY <2>1 DEF StateInv, StreamSites, AtRest
  <2>6. StateInv'
    BY <2>1, <2>3, <2>4, <2>5 DEF StateInv, EarlySites, FinalSites, AtRest
  <2>7. EndInv'
    BY <2>3, <2>4 DEF EndInv
  <2>8. WorkInv'
    BY <2>1, <2>3, <2>4, WorkStays DEF ModelSites, FinalSites
  <2>9. LegalMove
    <3>1. \A r \in RuntimeLifecycleState \ {"Completed", "Failed", "Cancelled"} : "Cancelled" \in Transitions(r)
      BY DEF RuntimeLifecycleState, Transitions
    <3> QED
      BY <1>0, <2>3, <2>4, <2>5, <3>1 DEF LegalMove, CanTransitionRuntimeState, StateInv
  <2> QED
    BY <2>6, <2>7, <2>8, <2>9 DEF QuietAfter
<1>6. CASE StartModel
  <2> DEFINE s == StartTask(mem, ModelTask)
  <2>1. pc = "start_model" /\ stream' = stream /\ ~stream
    BY <1>6 DEF StartModel, local, StateInv, StreamSites
  <2>2. mem.status # "COMPLETED" /\ store.status # "COMPLETED"
    BY <2>1, NotYetCompleted
  <2>3. CASE mem.tasks[ModelTask] = "RUNNING"
    <3>1. pc' = "model" /\ UNCHANGED <<mem, store>>
      BY <1>6, <2>3 DEF StartModel
    <3>2. StateInv' /\ EndInv' /\ LegalMove
      BY <2>1, <2>2, <3>1, GoesOn DEF StateInv, LegalMove, AtRest, EarlySites, FinalSites
    <3>3. WorkInv'
      BY <2>1, <2>3, <3>1 DEF WorkInv, Done, ModelSites, FinalSites
    <3> QED
      BY <3>2, <3>3 DEF QuietAfter
  <2>4. CASE mem.tasks[ModelTask] # "RUNNING"
    <3>1. Commit(s, "model")
      BY <1>6, <2>4 DEF StartModel
    <3>2. s \in Session /\ OneTask(s, mem, ModelTask) /\ SamePlace(s, mem)
          /\ s.tasks[ModelTask] = "RUNNING" /\ s.attempts > 0
      <4>1. s.attempts = mem.attempts + 1 /\ mem.attempts \in Nat
        BY <1>0, TaskMoves, TaskIdsKnown DEF Bump, Session
      <4> QED
        BY <1>0, <4>1, StartTaskSound, TaskMoves, TaskIdsKnown DEF Edited, Sound
    <3> HIDE DEF s
    <3>3. mem' = Saved(s) /\ store' = mem' /\ pc' = "model"
      BY <3>1, QuietCommit
    <3>4. /\ OneTask(mem', mem, ModelTask) /\ SamePlace(mem', mem)
          /\ mem'.tasks[ModelTask] = "RUNNING" /\ mem'.attempts > 0
      BY <1>m, <3>2, <3>3 DEF SameWork, SamePlace, OneTask
    <3>5. StateInv' /\ EndInv' /\ LegalMove
      BY <2>1, <2>2, <3>3, <3>4, GoesOn DEF SamePlace, LegalMove, AtRest, EarlySites, FinalSites
    <3>6. ASSUME NEW i \in 1 .. Len(InfoTasks) PROVE Done(mem', InfoTasks[i])
      <4>1. Done(mem, InfoTasks[i])
        BY <2>1 DEF WorkInv
      <4>2. InfoTasks[i] \in TaskIds \ {ModelTask}
        BY TasksDiffer, TaskIdsKnown, InfoTasksAssumption
      <4> QED
        BY <3>4, <4>1, <4>2 DEF Done, OneTask
    <3>7. WorkInv'
      BY <3>3, <3>4, <3>6 DEF WorkInv, ModelSites, FinalSites
    <3> QED
      BY <3>5, <3>7 DEF QuietAfter
  <2> QED
    BY <2>3, <2>4
<1> QED
  BY <1>1, <1>2, <1>3, <1>4, <1>5, <1>6 DEF RunCycle

\* The steps of a tool turn.
LEMMA ToolTurnQuiet == ASSUME QuietBefore, ToolTurn PROVE QuietAfter
<1> USE DEF QuietBefore
<1>0. mem \in Session /\ Sound(mem)
  BY DEF IndInv, DocsSound, Sound
<1>1. pc = "tools" /\ stream' = stream /\ ~stream /\ mem.status # "COMPLETED" /\ store.status # "COMPLETED"
  <2>1. pc = "tools" /\ stream' = stream
    BY DEF ToolTurn, ToolUnknown, ToolRuns, ToolNeedsApproval, FinishToolTurn, local
  <2> QED
    BY <2>1, NotYetCompleted DEF StateInv, StreamSites
<1>2. \/ UNCHANGED <<mem, store>> /\ pc' \in {"tools", "tool_approval"}
      \/ /\ SameWork(mem', mem) /\ mem'.status = mem.status /\ mem'.runtimeState = mem.runtimeState
         /\ store' \in {store, mem'} /\ pc' \in {"tools", "tool_reflecting"}
  <2>1. CASE ToolUnknown \/ ToolNeedsApproval
    BY <1>1, <2>1 DEF ToolUnknown, ToolNeedsApproval
  <2>2. CASE FinishToolTurn
    BY <1>0, <2>2, WorkAndPlace DEF FinishToolTurn, SamePlace
  <2>3. CASE ToolRuns
    <3>1. PICK b \in BOOLEAN : Commit([mem EXCEPT !.modifiedFiles = @ \/ b], "tools")
      BY <2>3 DEF ToolRuns
    <3> DEFINE s == [mem EXCEPT !.modifiedFiles = @ \/ b]
    <3>2. s \in Session /\ SameWork(s, mem) /\ s.status = mem.status /\ s.runtimeState = mem.runtimeState
      BY <1>0, ModifiedSound, WorkAndPlace DEF Edited, Sound
    <3> HIDE DEF s
    <3>3. mem' = Saved(s) /\ store' = mem' /\ pc' = "tools"
      BY <3>1, QuietCommit DEF s
    <3> QED
      BY <3>2, <3>3, WorkAndPlace DEF SameWork, SamePlace
  <2> QED
    BY <2>1, <2>2, <2>3 DEF ToolTurn
<1>3. SameWork(mem', mem) /\ mem'.status = mem.status /\ mem'.runtimeState = mem.runtimeState
  BY <1>2 DEF SameWork
<1>4. store'.status # "COMPLETED" /\ store'.runtimeState = mem.runtimeState
  BY <1>1, <1>2, <1>3 DEF StateInv
<1>5. pc' \in {"tools", "tool_approval", "tool_reflecting"}
  BY <1>2
<1>6. StateInv' /\ EndInv' /\ LegalMove
  BY <1>1, <1>3, <1>4, <1>5, GoesOn DEF LegalMove, AtRest, EarlySites, FinalSites
<1>7. WorkInv'
  BY <1>1, <1>3, <1>5, WorkStays DEF ModelSites, FinalSites
<1> QED
  BY <1>6, <1>7 DEF QuietAfter

\* finalizeSession runs its tasks one by one, stores its verdict, and the loop goes
\* by it.
LEMMA FinalizeQuiet == ASSUME QuietBefore, Finalize PROVE QuietAfter
<1> USE DEF QuietBefore
<1>0. mem \in Session /\ Sound(mem)
  BY DEF IndInv, DocsSound, Sound
<1>m. \A s \in Session : SameWork(Saved(s), s) /\ SamePlace(Saved(s), s)
  BY WorkAndPlace
<1>s. /\ pc \in FinalSites \cup {"finish_model", "decide", "requeue_reflection", "requeue_error"}
      /\ stream' = stream /\ ~stream
  <2>1. pc \in FinalSites \cup {"finish_model", "decide", "requeue_reflection", "requeue_error"}
    BY DEF Finalize, FinishModel, BeginValidation, Validate, StartFinalTask, FinishFinalTask, StoreVerdict,
       TryAgain, Conclude, RequeueModel, FinalSites
  <2>2. stream' = stream
    BY DEF Finalize, FinishModel, BeginValidation, Validate, StartFinalTask, FinishFinalTask, StoreVerdict,
       TryAgain, Conclude, RequeueModel, local
  <2> QED
    BY <2>1, <2>2 DEF StateInv, StreamSites, FinalSites
<1>n. pc # "decide" => mem.status # "COMPLETED" /\ store.status # "COMPLETED"
  BY <1>s, NotYetCompleted DEF FinalSites
<1>i. \A i \in 1 .. Len(InfoTasks) : Done(mem, InfoTasks[i]) /\ InfoTasks[i] \in TaskIds
  BY <1>s, TaskIdsKnown, InfoTasksAssumption DEF WorkInv, FinalSites
\* A task that a step moves on, and what it leaves alone.
<1>t. ASSUME NEW s \in Session, NEW next, Commit(s, next), SamePlace(s, mem), pc # "decide",
             next \in FinalSites \cup {"reflecting", "ckpt_reflection", "ckpt_error"},
             next \in FinalSites => pc \in FinalSites
      PROVE  /\ mem' = Saved(s) /\ pc' = next
             /\ StateInv' /\ EndInv' /\ LegalMove
  <2>1. mem' = Saved(s) /\ store' = Saved(s) /\ pc' = next
    BY <1>t, QuietCommit
  <2>2. SamePlace(mem', mem)
    BY <1>m, <1>t, <2>1 DEF SamePlace
  <2>3. /\ mem'.status # "COMPLETED" /\ store'.status # "COMPLETED"
        /\ mem'.runtimeState = mem.runtimeState /\ store'.runtimeState = mem.runtimeState
    BY <1>n, <1>t, <2>1, <2>2 DEF SamePlace
  <2>4. {pc, pc'} \cap (AtRest \cup EarlySites) = {}
    BY <1>s, <1>t, <2>1 DEF FinalSites, AtRest, EarlySites
  <2>5. pc' \notin {"completed", "recovering", "restore", "ckpt_recovered", "crashed", "streaming"}
    BY <1>t, <2>1 DEF FinalSites
  <2> QED
    BY <1>s, <1>t, <2>1, <2>3, <2>4, <2>5, GoesOn DEF LegalMove
<1>k. ASSUME NEW s \in Session, mem' = Saved(s), NEW t \in TaskIds, OneTask(s, mem, t),
             \A i \in 1 .. Len(InfoTasks) : InfoTasks[i] # t
      PROVE  /\ mem'.tasks = s.tasks /\ mem'.pendingTasks = s.pendingTasks /\ mem'.attempts = s.attempts
             /\ OneTask(mem', mem, t)
             /\ \A u \in TaskIds \ {t} : Done(mem, u) => Done(mem', u)
             /\ \A i \in 1 .. Len(InfoTasks) : Done(mem', InfoTasks[i])
  <2>1. mem'.tasks = s.tasks /\ mem'.pendingTasks = s.pendingTasks /\ mem'.attempts = s.attempts
    BY <1>m, <1>k DEF SameWork
  <2>2. OneTask(mem', mem, t)
    BY <1>k, <2>1 DEF OneTask
  <2>3. \A u \in TaskIds \ {t} : Done(mem, u) => Done(mem', u)
    BY <2>2 DEF OneTask, Done
  <2> QED
    BY <1>i, <1>k, <2>1, <2>2, <2>3
<1>1. CASE FinishModel
  <2> DEFINE s == FinishTask(mem, ModelTask)
  <2>1. pc = "finish_model" /\ Commit(s, "reflecting")
    BY <1>1 DEF FinishModel
  <2>2. s \in Session /\ OneTask(s, mem, ModelTask) /\ SamePlace(s, mem) /\ s.attempts = mem.attempts
        /\ s.tasks[ModelTask] = "COMPLETED" /\ s.pendingTasks = mem.pendingTasks
    BY <1>0, FinishTaskSound, TaskMoves, TaskIdsKnown DEF Edited, Sound
  <2>3. mem.tasks[ModelTask] = "RUNNING" /\ mem.attempts > 0 /\ ModelTask \notin mem.pendingTasks
    BY <1>0, <2>1, RunningNotPending, TaskIdsKnown DEF WorkInv, ModelSites
  <2> HIDE DEF s
  <2>4. mem' = Saved(s) /\ pc' = "reflecting" /\ StateInv' /\ EndInv' /\ LegalMove
    BY <1>t, <2>1, <2>2 DEF FinalSites
  <2>5. /\ mem'.tasks[ModelTask] = "COMPLETED" /\ mem'.pendingTasks = mem.pendingTasks
        /\ mem'.attempts = mem.attempts
        /\ \A i \in 1 .. Len(InfoTasks) : Done(mem', InfoTasks[i])
    BY <1>k, <2>2, <2>4, TasksDiffer, TaskIdsKnown
  <2>6. WorkInv'
    BY <2>3, <2>4, <2>5 DEF WorkInv, Done, ModelSites, FinalSites
  <2> QED
    BY <2>4, <2>6 DEF QuietAfter
<1>2. CASE BeginValidation
  <2> DEFINE s == WithStatus(mem, "VALIDATING")
  <2>1. pc = "validating" /\ Commit(s, "validate")
    BY <1>2 DEF BeginValidation
  <2>2. s \in Session /\ SameWork(s, mem) /\ s.status = "VALIDATING" /\ s.runtimeState = mem.runtimeState
    BY <1>0, WithStatusSound, WorkAndPlace DEF Edited, Sound, AgentSessionStatus
  <2> HIDE DEF s
  <2>3. mem' = Saved(s) /\ store' = mem' /\ pc' = "validate"
    BY <2>1, QuietCommit
  <2>4. SameWork(mem', mem) /\ mem'.status = "VALIDATING" /\ mem'.runtimeState = mem.runtimeState
    BY <1>m, <2>2, <2>3 DEF SameWork, SamePlace
  <2>5. StateInv' /\ EndInv' /\ LegalMove
    BY <1>s, <2>1, <2>3, <2>4, GoesOn DEF LegalMove, AtRest, EarlySites, FinalSites
  <2>6. WorkInv'
    BY <2>1, <2>3, <2>4, WorkStays DEF ModelSites, FinalSites
  <2> QED
    BY <2>5, <2>6 DEF QuietAfter
<1>3. CASE Validate
  <2>1. pc = "validate" /\ k' = 1 /\ pc' = "start_final"
        /\ SameWork(mem', mem) /\ SamePlace(mem', mem) /\ store' \in {store, mem'}
    <3>1. pc = "validate" /\ k' = 1
      BY <1>3 DEF Validate
    <3>2. CASE Commit(mem, "start_final")
      BY <1>0, <1>m, <3>1, <3>2, QuietCommit
    <3>3. CASE pc' = "start_final" /\ UNCHANGED <<store, mem, error, faults>>
      BY <3>1, <3>3 DEF SameWork, SamePlace
    <3> QED
      BY <1>3, <3>2, <3>3 DEF Validate
  <2>2. /\ mem'.status # "COMPLETED" /\ store'.status # "COMPLETED"
        /\ mem'.runtimeState = mem.runtimeState /\ store'.runtimeState = mem.runtimeState
    BY <1>n, <2>1 DEF SamePlace, StateInv
  <2>3. StateInv' /\ EndInv' /\ LegalMove
    BY <1>s, <2>1, <2>2, GoesOn DEF LegalMove, AtRest, EarlySites, FinalSites
  <2>4. WorkInv'
    BY <2>1, WorkStays DEF ModelSites, FinalSites
  <2> QED
    BY <2>3, <2>4 DEF QuietAfter
<1>4. CASE StartFinalTask
  <2> DEFINE t == FinalTasks[k]
             s == StartTask(mem, t)
  <2>1. pc = "start_final" /\ Commit(s, "finish_final") /\ k' = k
    BY <1>4 DEF StartFinalTask
  <2>2. k \in 1 .. Len(FinalTasks) /\ t \in TaskIds /\ t # ModelTask
        /\ \A i \in 1 .. Len(InfoTasks) : InfoTasks[i] # t
    BY <2>1, TaskIdsKnown, TasksDiffer DEF IndInv, ControlOK
  <2>3. s \in Session /\ OneTask(s, mem, t) /\ SamePlace(s, mem) /\ t \notin s.pendingTasks
        /\ s.attempts = mem.attempts
    BY <1>0, <2>2, StartTaskSound, TaskMoves DEF Edited, Sound, Bump
  <2> HIDE DEF s
  <2>4. mem' = Saved(s) /\ pc' = "finish_final" /\ StateInv' /\ EndInv' /\ LegalMove
    BY <1>t, <2>1, <2>3 DEF FinalSites
  <2>5. /\ t \notin mem'.pendingTasks /\ mem'.attempts = mem.attempts
        /\ OneTask(mem', mem, t) /\ \A u \in TaskIds \ {t} : Done(mem, u) => Done(mem', u)
        /\ \A i \in 1 .. Len(InfoTasks) : Done(mem', InfoTasks[i])
    BY <1>k, <2>2, <2>3, <2>4
  <2>6. Done(mem', ModelTask) /\ mem'.tasks[ModelTask] = mem.tasks[ModelTask]
    BY <2>1, <2>2, <2>5, TaskIdsKnown DEF WorkInv, FinalSites, OneTask
  <2>7. ASSUME NEW i \in 1 .. Len(FinalTasks), i < k PROVE Done(mem', FinalTasks[i])
    <3>1. Done(mem, FinalTasks[i])
      BY <2>1, <2>7 DEF WorkInv
    <3>2. FinalTasks[i] \in TaskIds /\ i # k
      BY <2>2, <2>7, TaskIdsKnown
    <3>3. FinalTasks[i] # t
      BY <2>2, <3>2, TasksDiffer
    <3> QED
      BY <2>5, <3>1, <3>2, <3>3
  <2>8. WorkInv'
    BY <2>1, <2>4, <2>5, <2>6, <2>7 DEF WorkInv, ModelSites
  <2> QED
    BY <2>4, <2>8 DEF QuietAfter
<1>5. CASE FinishFinalTask
  <2> DEFINE t == FinalTasks[k]
             s == FinishTask(mem, t)
             next == IF k < Len(FinalTasks) THEN "start_final" ELSE "final_status"
  <2>1. pc = "finish_final" /\ Commit(s, next) /\ next \in {"start_final", "final_status"}
        /\ k' = IF k < Len(FinalTasks) THEN k + 1 ELSE 1
    BY <1>5 DEF FinishFinalTask
  <2>2. k \in 1 .. Len(FinalTasks) /\ t \in TaskIds /\ t # ModelTask
        /\ \A i \in 1 .. Len(InfoTasks) : InfoTasks[i] # t
    BY <2>1, TaskIdsKnown, TasksDiffer DEF IndInv, ControlOK
  <2>3. s \in Session /\ OneTask(s, mem, t) /\ SamePlace(s, mem) /\ s.tasks[t] = "COMPLETED"
        /\ s.pendingTasks = mem.pendingTasks /\ s.attempts = mem.attempts
    BY <1>0, <2>2, FinishTaskSound, TaskMoves DEF Edited, Sound
  <2>4. next = "start_final" => k' = k + 1
    BY <2>1
  <2>5. next = "final_status" => k = Len(FinalTasks)
    BY <2>2 DEF FinalTasks
  <2> HIDE DEF s, next
  <2>6. mem' = Saved(s) /\ pc' = next /\ StateInv' /\ EndInv' /\ LegalMove
    BY <1>t, <2>1, <2>3 DEF FinalSites
  <2>7. /\ mem'.tasks[t] = "COMPLETED" /\ mem'.pendingTasks = mem.pendingTasks /\ mem'.attempts = mem.attempts
        /\ OneTask(mem', mem, t) /\ \A u \in TaskIds \ {t} : Done(mem, u) => Done(mem', u)
        /\ \A i \in 1 .. Len(InfoTasks) : Done(mem', InfoTasks[i])
    BY <1>k, <2>2, <2>3, <2>6
  <2>8. Done(mem', ModelTask) /\ mem'.tasks[ModelTask] = mem.tasks[ModelTask]
    BY <2>1, <2>2, <2>7, TaskIdsKnown DEF WorkInv, FinalSites, OneTask
  <2>9. Done(mem', t)
    BY <2>1, <2>7 DEF WorkInv, Done
  <2>10. ASSUME NEW i \in 1 .. Len(FinalTasks), i <= k PROVE Done(mem', FinalTasks[i])
    <3>1. CASE i = k
      BY <2>9, <3>1
    <3>2. CASE i # k
      <4>1. Done(mem, FinalTasks[i])
        BY <2>1, <2>2, <2>10, <3>2 DEF WorkInv
      <4>2. FinalTasks[i] \in TaskIds /\ FinalTasks[i] # t
        BY <2>2, <3>2, TasksDiffer, TaskIdsKnown
      <4> QED
        BY <2>7, <4>1, <4>2
    <3> QED
      BY <3>1, <3>2
  <2>11. pc' \in {"start_final", "final_status"}
    BY <2>1, <2>6
  <2>12. \A i \in 1 .. Len(FinalTasks) :
            pc' = "final_status" \/ (pc' = "start_final" /\ i < k') => Done(mem', FinalTasks[i])
    <3>1. CASE next = "start_final"
      <4>1. \A i \in 1 .. Len(FinalTasks) : i < k' => i <= k
        BY <2>2, <2>4, <3>1
      <4> QED
        BY <2>6, <2>10, <3>1, <4>1
    <3>2. CASE next = "final_status"
      <4>1. \A i \in 1 .. Len(FinalTasks) : i <= k
        BY <2>2, <2>5, <3>2
      <4> QED
        BY <2>10, <4>1
    <3> QED
      BY <2>1, <3>1, <3>2
  <2>13. WorkInv'
    BY <2>7, <2>8, <2>11, <2>12 DEF WorkInv, ModelSites
  <2> QED
    BY <2>6, <2>13 DEF QuietAfter
<1>6. CASE StoreVerdict
  <2> DEFINE verdict == IF ReflectionSucceeds THEN "COMPLETED" ELSE "FAILED"
             s == WithStatus(mem, verdict)
             next == CASE turn.validation = "failed_approval" -> "gate_approval"
                       [] turn.validation = "failed_tests"    -> "gate_tool"
                       [] OTHER                               -> "decide"
  <2>1. pc = "final_status" /\ Commit(s, next) /\ turn' = turn
    BY <1>6 DEF StoreVerdict, local
  <2>2. next \in {"gate_approval", "gate_tool", "decide"} /\ verdict \in AgentSessionStatus
    BY DEF AgentSessionStatus
  <2>3. verdict = "COMPLETED" <=> ReflectionSucceeds
    OBVIOUS
  <2>4. ReflectionSucceeds => next = "decide"
    BY DEF ReflectionSucceeds, ValidationFailed
  <2> HIDE DEF verdict, next
  <2>5. s \in Session /\ SameWork(s, mem) /\ s.status = verdict /\ s.runtimeState = mem.runtimeState
        /\ s.modifiedFiles = mem.modifiedFiles
    BY <1>0, <2>2, WithStatusSound, WorkAndPlace DEF Edited, Sound
  <2> HIDE DEF s
  <2>6. mem' = Saved(s) /\ store' = mem' /\ pc' = next
    BY <2>1, QuietCommit
  <2>7. SameWork(mem', mem) /\ mem'.status = verdict /\ mem'.runtimeState = mem.runtimeState
        /\ mem'.modifiedFiles = mem.modifiedFiles
    BY <1>m, <2>5, <2>6 DEF SameWork, SamePlace
  <2>8. mem.runtimeState = "Reflecting"
    BY <2>1 DEF StateInv, FinalSites
  <2>9. StateInv' /\ LegalMove
    BY <1>s, <2>2, <2>6, <2>7, <2>8 DEF StateInv, LegalMove, EarlySites, FinalSites, AtRest
  <2>10. WorkInv'
    BY <2>1, <2>2, <2>6, <2>7, WorkStays DEF ModelSites, FinalSites
  <2>11. EndInv'
    <3>1. CASE ~ReflectionSucceeds
      BY <2>2, <2>3, <2>6, <2>7, <3>1 DEF EndInv, AtRest
    <3>2. CASE ReflectionSucceeds
      <4>1. ReflectionSucceeds'
        BY <2>1, <2>7, <3>2 DEF ReflectionSucceeds, ValidationFailed, NoToolProgress, SameWork
      <4>2. ASSUME NEW t \in TaskIds PROVE Done(mem', t)
        <5>1. Done(mem, t)
          BY <2>1, InfoTasksAssumption DEF WorkInv, TaskIds, FinalSites, FinalTasks
        <5> QED
          BY <2>7, <5>1 DEF SameWork, Done
      <4>3. ~mem'.modifiedFiles => mem'.attempts = 1
        <5>1. mem.attempts \in Nat /\ mem.attempts > 0
          BY <1>0, <2>1 DEF WorkInv, FinalSites, Done, Session
        <5>2. mem.modifiedFiles \/ ~(mem.attempts > 1)
          BY <3>2 DEF ReflectionSucceeds, NoToolProgress
        <5> QED
          BY <2>7, <5>1, <5>2 DEF SameWork
      <4>4. pc' = "decide"
        BY <2>4, <2>6, <3>2
      <4> QED
        BY <1>s, <2>6, <2>7, <2>8, <4>1, <4>2, <4>3, <4>4 DEF EndInv, AtRest
    <3> QED
      BY <3>1, <3>2
  <2> QED
    BY <2>9, <2>10, <2>11 DEF QuietAfter
<1>7. CASE TryAgain \/ Conclude
  <2>1. UNCHANGED <<mem, store>> /\ pc = "decide"
    BY <1>7 DEF TryAgain, Conclude
  <2>2. pc' \in {"reflection_retry", "reflection_replan", "completed", "failed"}
    BY <1>7 DEF TryAgain, Conclude
  <2>3. pc' = "completed" <=> mem.status = "COMPLETED"
    <3>1. CASE TryAgain
      <4>1. ~ReflectionSucceeds
        BY <3>1 DEF TryAgain, ShouldRetry, ShouldReplan
      <4>2. pc' # "completed"
        BY <3>1 DEF TryAgain
      <4> QED
        BY <2>1, <4>1, <4>2 DEF EndInv
    <3>2. CASE Conclude
      BY <3>2 DEF Conclude
    <3> QED
      BY <1>7, <3>1, <3>2
  <2>4. StateInv' /\ LegalMove
    BY <1>s, <2>1, <2>2 DEF StateInv, LegalMove, EarlySites, FinalSites, AtRest
  <2>5. EndInv'
    BY <1>s, <2>1, <2>2, <2>3 DEF EndInv, AtRest, Done
  <2>6. WorkInv'
    BY <2>1, <2>2, WorkStays DEF SameWork, ModelSites, FinalSites
  <2> QED
    BY <2>4, <2>5, <2>6 DEF QuietAfter
<1>8. CASE RequeueModel
  <2> DEFINE next == IF pc = "requeue_error" THEN "ckpt_error" ELSE "ckpt_reflection"
             r == Replan(mem)
             s == ResetTaskForRetry(r, ModelTask)
  <2>1. next \in {"ckpt_error", "ckpt_reflection"} /\ Commit(s, next)
        /\ pc \in {"requeue_reflection", "requeue_error"}
    BY <1>8 DEF RequeueModel
  <2>2. Sound(r) /\ r \in Session /\ SameWork(r, mem) /\ SamePlace(r, mem)
    BY <1>0, ReplanSound, WorkAndPlace DEF Edited, Sound
  <2> HIDE DEF r
  <2>3. s \in Session /\ OneTask(s, r, ModelTask) /\ SamePlace(s, r) /\ s.tasks[ModelTask] = "PENDING"
    BY <2>2, ResetTaskSound, TaskMoves, TaskIdsKnown DEF Edited, Sound
  <2>4. OneTask(s, mem, ModelTask) /\ SamePlace(s, mem)
    BY <2>2, <2>3 DEF OneTask, SameWork, SamePlace
  <2> HIDE DEF s, next
  <2>5. mem' = Saved(s) /\ pc' = next /\ StateInv' /\ EndInv' /\ LegalMove
    BY <1>t, <2>1, <2>3, <2>4 DEF FinalSites
  <2>6. mem'.tasks[ModelTask] = "PENDING" /\ \A i \in 1 .. Len(InfoTasks) : Done(mem', InfoTasks[i])
    BY <1>k, <2>3, <2>4, <2>5, TasksDiffer, TaskIdsKnown
  <2>7. WorkInv'
    BY <2>1, <2>5, <2>6 DEF WorkInv, ModelSites, FinalSites
  <2> QED
    BY <2>5, <2>7 DEF QuietAfter
<1> QED
  BY <1>1, <1>2, <1>3, <1>4, <1>5, <1>6, <1>7, <1>8 DEF Finalize

\* The catch of the loop fails model-execution.
LEMMA HandleErrorQuiet == ASSUME QuietBefore, HandleError PROVE QuietAfter
<1> USE DEF QuietBefore
<1> DEFINE s == FailTask(mem, ModelTask)
           next == IF RetryAllowed THEN "retrying" ELSE "catch_failed"
<1>1. pc = "catch" /\ Commit(s, next) /\ next \in {"retrying", "catch_failed"} /\ stream' = stream
  BY DEF HandleError, local
<1>2. mem \in Session /\ Sound(mem)
  BY DEF IndInv, DocsSound, Sound
<1>3. s \in Session /\ OneTask(s, mem, ModelTask) /\ SamePlace(s, mem) /\ s.tasks[ModelTask] = "FAILED"
  BY <1>2, FailTaskSound, TaskMoves, TaskIdsKnown DEF Edited, Sound
<1> HIDE DEF s, next
<1>4. mem' = Saved(s) /\ store' = mem' /\ pc' = next
  BY <1>1, QuietCommit
<1>5. OneTask(mem', mem, ModelTask) /\ SamePlace(mem', mem) /\ mem'.tasks[ModelTask] = "FAILED"
  BY <1>3, <1>4, WorkAndPlace DEF SameWork, SamePlace, OneTask
<1>6. mem'.status # "COMPLETED" /\ mem'.runtimeState = mem.runtimeState /\ ~stream
  BY <1>1, <1>5, NotYetCompleted DEF SamePlace, StateInv, StreamSites
<1>7. StateInv' /\ EndInv' /\ LegalMove
  BY <1>1, <1>4, <1>6, GoesOn DEF LegalMove, AtRest, EarlySites, FinalSites
<1>8. ASSUME NEW i \in 1 .. Len(InfoTasks) PROVE Done(mem', InfoTasks[i])
  <2>1. Done(mem, InfoTasks[i])
    BY <1>1 DEF WorkInv
  <2>2. InfoTasks[i] \in TaskIds \ {ModelTask}
    BY TasksDiffer, TaskIdsKnown, InfoTasksAssumption
  <2> QED
    BY <1>5, <2>1, <2>2 DEF Done, OneTask
<1>9. WorkInv'
  BY <1>1, <1>4, <1>5, <1>8 DEF WorkInv, ModelSites, FinalSites
<1> QED
  BY <1>7, <1>9 DEF QuietAfter

\* A client marks what may be cancelled, which what is COMPLETED may not.
LEMMA ClientQuiet == ASSUME QuietBefore, ClientStep PROVE QuietAfter
<1> USE DEF QuietBefore
<1>1. UNCHANGED <<mem, pc, k, turn, stream>>
  BY DEF ClientStep, ReadForCancel, RefuseCancel, WriteCancel, runtimeVars
<1>2. \/ store' = store
      \/ store' = CancelledCopy(store) /\ store.status # "COMPLETED"
  <2>1. PICK c \in Clients : ReadForCancel(c) \/ RefuseCancel(c) \/ WriteCancel(c)
    BY DEF ClientStep
  <2>2. CASE ReadForCancel(c) \/ RefuseCancel(c)
    BY <2>2 DEF ReadForCancel, RefuseCancel
  <2>3. CASE WriteCancel(c)
    BY <2>3 DEF WriteCancel, IndInv, VersionInv, Cancellable
  <2> QED
    BY <2>1, <2>2, <2>3
<1>3. store \in Session
  BY DEF IndInv, DocsSound, Sound
<1>4. /\ store'.runtimeState = store.runtimeState
      /\ store' # store => store'.status = "CANCELLED" /\ store.status # "COMPLETED"
  BY <1>2, <1>3 DEF CancelledCopy, Session
<1>5. StateInv' /\ LegalMove
  BY <1>1, <1>4 DEF StateInv, LegalMove
<1>6. WorkInv'
  BY <1>1 DEF WorkInv, Done
<1>7. EndInv'
  <2>1. CASE store' = store
    BY <1>1, <2>1 DEF EndInv, Done, ReflectionSucceeds, ValidationFailed, NoToolProgress
  <2>2. CASE store' # store
    <3>1. mem.status # "COMPLETED"
      BY <1>4, <2>2 DEF EndInv
    <3> QED
      BY <1>1, <1>4, <2>2, <3>1 DEF EndInv
  <2> QED
    BY <2>1, <2>2
<1> QED
  BY <1>5, <1>6, <1>7 DEF QuietAfter

\* Every step of a run that nothing disturbs.
LEMMA QuietStep ==
    ASSUME IndInv, QuietInv, [Next]_vars, Undisturbed'
    PROVE  Undisturbed /\ QuietAfter
<1>1. faults \in Nat /\ crashes \in Nat /\ resumes \in Nat
  BY BoundsAssumption DEF IndInv, ControlOK
<1>2. ~Crash /\ ~Resume
  BY <1>1 DEF Crash, Resume, Undisturbed
<1>3. CASE RuntimeStep
  <2>1. IndInv'
    BY StepOK
  <2>2. UNCHANGED <<crashes, resumes>> /\ (faults' = faults \/ faults' = faults + 1)
    <3>1. \A s, next : Commit(s, next) => faults' = faults \/ faults' = faults + 1
      BY DEF Commit
    <3>2. CASE EnterState
      BY <3>1, <3>2 DEF EnterState, RuntimeTransition, other
    <3>3. CASE HandleRequest \/ HandleError \/ Restore
      BY <3>1, <3>3 DEF HandleRequest, Bootstrap, StartInfoTask, FinishInfoTask, SavePlan, PlanReady,
         HandleError, Restore, other
    <3>4. CASE ToolTurn
      BY <3>1, <3>4 DEF ToolTurn, ToolUnknown, ToolRuns, ToolNeedsApproval, FinishToolTurn, other
    <3>5. CASE Finalize
      BY <3>1, <3>5 DEF Finalize, FinishModel, BeginValidation, Validate, StartFinalTask,
         FinishFinalTask, StoreVerdict, TryAgain, Conclude, RequeueModel, other
    <3>6. CASE RunCycle /\ ~EnterState
      BY <3>1, <3>6 DEF RunCycle, TakeCheckpoint, BeginCycle, RefreshFails, ExhaustCycles,
         CancelRun, StartModel, ModelFails, ModelAnswers, ModelCallsTools, Answered, other
    <3> QED
      BY <1>3, <3>2, <3>3, <3>4, <3>5, <3>6 DEF RuntimeStep
  <2>3. Undisturbed
    BY <1>1, <2>2 DEF Undisturbed
  <2>4. QuietBefore
    BY <2>3 DEF QuietInv, QuietBefore
  <2>5. ~Restore
    BY <2>4 DEF Restore, QuietBefore, StateInv
  <2> QED
    BY <1>3, <2>3, <2>4, <2>5, HandleRequestQuiet, RunCycleQuiet, ToolTurnQuiet, FinalizeQuiet,
       HandleErrorQuiet DEF RuntimeStep
<1>4. CASE ClientStep
  <2>1. UNCHANGED <<faults, crashes, resumes>>
    BY <1>4 DEF ClientStep, ReadForCancel, RefuseCancel, WriteCancel, bounds
  <2>2. Undisturbed
    BY <2>1 DEF Undisturbed
  <2>3. QuietBefore
    BY <2>2 DEF QuietInv, QuietBefore
  <2> QED
    BY <1>4, <2>2, <2>3, ClientQuiet
<1>5. CASE Finished \/ UNCHANGED vars
  <2>1. UNCHANGED <<store, mem, pc, k, turn, stream, faults, crashes, resumes>>
    BY <1>5 DEF Finished, vars, runtimeVars, bounds
  <2>2. Undisturbed /\ StateInv /\ WorkInv /\ EndInv
    BY <2>1 DEF Undisturbed, QuietInv
  <2>3. StateInv' /\ LegalMove
    BY <2>1, <2>2 DEF StateInv, LegalMove
  <2>4. WorkInv'
    BY <2>1, <2>2 DEF WorkInv, Done
  <2>5. EndInv'
    BY <2>1, <2>2 DEF EndInv, Done, ReflectionSucceeds, ValidationFailed, NoToolProgress
  <2> QED
    BY <2>2, <2>3, <2>4, <2>5 DEF QuietAfter
<1> QED
  BY <1>2, <1>3, <1>4, <1>5 DEF Next

\* As long as nothing disturbs a run, QuietInv's three parts hold.
THEOREM QuietInvariance == Spec => []QuietInv
<1>1. Init => QuietInv
  <2> SUFFICES ASSUME Init PROVE QuietInv
    OBVIOUS
  <2>1. /\ mem = NewSession /\ store = NewSession /\ pc = "bootstrap"
    BY DEF Init
  <2>2. /\ NewSession.runtimeState = "Idle" /\ NewSession.status = "CREATED"
        /\ NewSession.tasks[ModelTask] = "PENDING"
    BY TaskIdsKnown DEF NewSession
  <2>3. StateInv
    BY <2>1, <2>2 DEF StateInv, EarlySites, FinalSites, StreamSites
  <2>4. WorkInv
    BY <2>1, <2>2 DEF WorkInv, ModelSites, FinalSites
  <2>5. EndInv
    BY <2>1, <2>2 DEF EndInv, AtRest
  <2> QED
    BY <2>3, <2>4, <2>5 DEF QuietInv
<1>2. IndInv /\ QuietInv /\ [Next]_vars => QuietInv'
  BY QuietStep DEF QuietAfter, QuietInv
<1> QED
  BY <1>1, <1>2, Invariance, PTL DEF Spec

\* Up to the first failed write, crash or resume: what is stored of a session that
\* the runtime let go tells how it ended, and COMPLETED is earned.
THEOREM EndsAreTrue == Spec => [](Undisturbed => StoredEndIsTrue)
<1>1. QuietInv => (Undisturbed => StoredEndIsTrue)
  BY DEF QuietInv, EndInv, StoredEndIsTrue, StatusAgreesAtRest, OnlyFirstAttemptsComplete
<1> QED
  BY <1>1, QuietInvariance, PTL

\* A session COMPLETED in the store is left alone by the loop and by every client
\* that read it before.
LEMMA CompletedStays ==
    ASSUME IndInv, QuietInv, [Next]_vars, Undisturbed', store.status = "COMPLETED"
    PROVE  /\ store'.status = "COMPLETED"
           /\ store.pendingTasks = {}
           /\ \A t \in TaskIds : store.tasks[t] = "COMPLETED"
<1>1. Undisturbed /\ QuietAfter
  BY QuietStep
<1>2. StateInv /\ WorkInv /\ EndInv
  BY <1>1 DEF QuietInv
<1>3. /\ store = mem /\ pc \in {"decide", "completed", "answered"}
      /\ pc # "answered" => mem.runtimeState = "Reflecting"
      /\ \A t \in TaskIds : Done(mem, t)
  BY <1>2 DEF EndInv
<1>4. store.pendingTasks \subseteq TaskIds /\ mem \in Session
  BY DEF IndInv, DocsSound, Sound, Session
<1>5. store.pendingTasks = {} /\ \A t \in TaskIds : store.tasks[t] = "COMPLETED"
  BY <1>3, <1>4 DEF Done
<1>6. store'.status = "COMPLETED"
  <2>1. CASE RuntimeStep
    <3>1. TryAgain \/ Conclude \/ (EnterState /\ pc = "completed")
      BY <1>3, <2>1 DEF RuntimeStep, HandleRequest, RunCycle, ToolTurn, Finalize,
         CheckpointSites, StateSites, Bootstrap, StartInfoTask, FinishInfoTask, SavePlan, PlanReady,
         EnterState, TakeCheckpoint, BeginCycle, RefreshFails, ExhaustCycles, CancelRun, StartModel,
         ModelFails, ModelAnswers, ModelCallsTools, ToolUnknown, ToolRuns, ToolNeedsApproval,
         FinishToolTurn, FinishModel, BeginValidation, Validate, StartFinalTask, FinishFinalTask,
         StoreVerdict, RequeueModel, HandleError, Restore
    <3>2. CASE TryAgain \/ Conclude
      BY <3>2 DEF TryAgain, Conclude
    <3>3. CASE EnterState /\ pc = "completed"
      <4> DEFINE s == WithRuntimeState(mem, "Completed")
      <4>1. Requested(pc) = "Completed" /\ CanTransitionRuntimeState(mem.runtimeState, "Completed")
        BY <1>3, <3>3 DEF Requested, CanTransitionRuntimeState, Transitions
      <4>2. Commit(s, AfterState(pc))
        BY <3>3, <4>1 DEF EnterState, RuntimeTransition
      <4>3. s \in Session /\ s.status = "COMPLETED"
        <5>1. "Completed" \in RuntimeLifecycleState /\ StatusForRuntimeState("Completed") = "COMPLETED"
          BY DEF RuntimeLifecycleState, StatusForRuntimeState
        <5>2. s \in Session
          BY <5>1, WithRuntimeStateSound DEF IndInv, DocsSound, Edited, Sound
        <5> QED
          BY <1>4, <5>1, <5>2, WorkAndPlace
      <4> HIDE DEF s
      <4>4. store' = Saved(s)
        BY <1>1, <4>2, QuietCommit
      <4> QED
        BY <4>3, <4>4, WorkAndPlace DEF SamePlace
    <3> QED
      BY <3>1, <3>2, <3>3
  <2>2. CASE Crash \/ Resume
    BY <2>2, CrashOrResumeOK
  <2>3. CASE ClientStep
    <3>1. PICK c \in Clients : ReadForCancel(c) \/ RefuseCancel(c) \/ WriteCancel(c)
      BY <2>3 DEF ClientStep
    <3>2. CASE ReadForCancel(c) \/ RefuseCancel(c)
      BY <3>2 DEF ReadForCancel, RefuseCancel
    <3>3. CASE WriteCancel(c)
      BY <3>3 DEF WriteCancel, IndInv, VersionInv, Cancellable
    <3> QED
      BY <3>1, <3>2, <3>3
  <2>4. CASE Finished \/ UNCHANGED vars
    BY <2>4 DEF Finished, vars
  <2> QED
    BY <2>1, <2>2, <2>3, <2>4 DEF Next
<1> QED
  BY <1>5, <1>6

\* Where no write fails, nothing crashes and nothing is resumed: each move of the
\* stored state is one of the table, and what is stored as COMPLETED is done.
THEOREM MovesAreSound ==
    ASSUME MaxFaults = 0, MaxCrashes = 0, MaxResumes = 0
    PROVE  Spec => StoredMovesAreSound
<1>1. IndInv' => Undisturbed'
  BY DEF IndInv, ControlOK, Undisturbed
<1>2. ASSUME IndInv, QuietInv, [Next]_vars
      PROVE  /\ store'.runtimeState # store.runtimeState =>
                    CanTransitionRuntimeState(store.runtimeState, store'.runtimeState)
             /\ store.status = "COMPLETED" =>
                    /\ store'.status = "COMPLETED"
                    /\ store.pendingTasks = {}
                    /\ \A t \in TaskIds : store.tasks[t] = "COMPLETED"
  <2>1. Undisturbed'
    BY <1>1, <1>2, StepOK
  <2>2. LegalMove
    BY <1>2, <2>1, QuietStep DEF QuietAfter
  <2> QED
    BY <1>2, <2>1, <2>2, CompletedStays DEF LegalMove
<1>3. IndInv /\ QuietInv /\ [Next]_vars =>
         [store'.runtimeState # store.runtimeState =>
             CanTransitionRuntimeState(store.runtimeState, store'.runtimeState)]_vars
  BY <1>2
<1>4. IndInv /\ QuietInv /\ [Next]_vars =>
         [store.status = "COMPLETED" =>
             /\ store'.status = "COMPLETED"
             /\ store.pendingTasks = {}
             /\ \A t \in TaskIds : store.tasks[t] = "COMPLETED"]_vars
  BY <1>2
<1>5. Spec => StoredMovesAreLegal
  BY <1>3, Invariance, QuietInvariance, PTL DEF Spec, StoredMovesAreLegal
<1>6. Spec => CompletedIsDoneForGood
  BY <1>4, Invariance, QuietInvariance, PTL DEF Spec, CompletedIsDoneForGood
<1> QED
  BY <1>5, <1>6 DEF StoredMovesAreSound
=============================================================================
