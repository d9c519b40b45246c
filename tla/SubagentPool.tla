----------------------------- MODULE SubagentPool ----------------------------
(***************************************************************************)
(* Plans of subagent tasks, run by scheduleSubagentTasks (lib/agent/       *)
(* subagent-scheduler.ts) on the slots of subagent-executor.ts, which all  *)
(* runs of a process share; the status each execution leaves in Redis      *)
(* (subagent-memory.ts).                                                   *)
(*                                                                         *)
(* A run starts a batch of ready tasks and awaits all of it before it      *)
(* looks again.  An execution takes a slot, tries its models one after     *)
(* another, and gives the slot back.  Between two awaits nothing else      *)
(* runs: a whole batch asks for its slots in one step.                     *)
(*                                                                         *)
(* Abstracted: prompts, outputs, latencies and performance records.  The   *)
(* status in Redis is per task, not per run: two runs that were given the  *)
(* same tasks write the same ones.                                         *)
(***************************************************************************)
EXTENDS Naturals, Sequences, FiniteSets

CONSTANTS
    Runs,            \* calls of scheduleSubagentTasks
    Tasks,           \* task ids
    Deps,            \* what each task depends on, in its plan or not
    Plans,           \* the task lists a run may be given, in order
    MaxActive,       \* MAX_ACTIVE_EXECUTIONS (3 by default)
    MaxParallel,     \* MAX_PARALLEL (4 by default)
    Models           \* how many models an execution tries: its own, then the fallbacks

ASSUME PoolAssumption ==
    /\ Deps \in [Tasks -> SUBSET Tasks]
    /\ \A p \in Plans :
          p \in Seq(Tasks) /\ \A i, j \in DOMAIN p : p[i] = p[j] => i = j
    /\ {MaxActive, MaxParallel, Models} \subseteq Nat \ {0}
    /\ IsFiniteSet(Runs) /\ IsFiniteSet(Tasks)

VARIABLES
    plan,            \* the tasks of each run
    remaining,       \* those it has neither started nor skipped
    completed, failed, skipped,
    step,            \* where each execution is
    tried,           \* models each execution has tried in vain
    active,          \* _activeExecutions
    queue,           \* _executionQueue
    status           \* the status of each task in Redis

schedulerVars == <<plan, remaining, completed, failed, skipped>>
slotVars      == <<active, queue>>
vars          == <<schedulerVars, step, tried, slotVars, status>>

Executions == Runs \X Tasks
Status     == {"PENDING", "RUNNING", "COMPLETED", "FAILED"}

\* "idle" before and after, "queued" in acquireSlot, "granted" out of it,
\* "calling" a model, then with an outcome to save, then with the slot to free.
Step == {"idle", "queued", "granted", "calling", "answered", "exhausted",
         "completed", "failed"}

SetOf(p)     == {p[i] : i \in DOMAIN p}
Position(r, t) == CHOOSE i \in DOMAIN plan[r] : plan[r][i] = t

InProgress(r) == {t \in Tasks : step[r][t] # "idle"}
Holders       == {e \in Executions : step[e[1]][e[2]] \notin {"idle", "queued"}}

-----------------------------------------------------------------------------
(* scheduleSubagentTasks.                                                  *)

DependencyFailed(r, t) == Deps[t] \cap failed[r] # {}

\* Mutant: one dependency is enough.
SomeDependencyMet(r, t) == Deps[t] = {} \/ Deps[t] \cap completed[r] # {}

DependenciesMet(r, t) == Deps[t] \subseteq completed[r]

Doomed(r) == {t \in remaining[r] : DependencyFailed(r, t)}
Ready(r)  == {t \in remaining[r] \ Doomed(r) : DependenciesMet(r, t)}

\* The tasks of S as a list, in the order of the plan.
InOrder(r, S) ==
    {q \in [1 .. Cardinality(S) -> S] :
        \A i, j \in DOMAIN q : i < j => Position(r, q[i]) < Position(r, q[j])}

Least(m, n) == IF m <= n THEN m ELSE n

\* The batches the run may start: the first MaxParallel of its ready tasks.
Batches(r) == {SubSeq(q, 1, Least(Len(q), MaxParallel)) : q \in InOrder(r, Ready(r))}

\* Mutant: acquireSlot lets one more in than there are slots.
FreeAndOne == IF active <= MaxActive THEN MaxActive - active + 1 ELSE 0

\* acquireSlot: what is free of the MaxActive slots.
Free == IF active < MaxActive THEN MaxActive - active ELSE 0

\* The batch asks for its slots in order: the first get one, the others queue.
AcquireSlots(r, batch) ==
    LET n == Least(Len(batch), Free)
        granted == {batch[i] : i \in 1 .. n}
    IN
    /\ step' = [step EXCEPT ![r] = [t \in Tasks |->
                   IF t \in granted THEN "granted"
                   ELSE IF t \in SetOf(batch) THEN "queued" ELSE @[t]]]
    /\ tried' = [tried EXCEPT ![r] = [t \in Tasks |->
                    IF t \in SetOf(batch) THEN 0 ELSE @[t]]]
    /\ active' = active + n
    /\ queue' = queue \o [i \in 1 .. Len(batch) - n |-> <<r, batch[n + i]>>]

\* Mutant: what is started is not taken off remaining.
StartsKeepingRemaining(r) ==
    /\ InProgress(r) = {} /\ Ready(r) # {}
    /\ \E batch \in Batches(r) : AcquireSlots(r, batch)
    /\ remaining' = [remaining EXCEPT ![r] = @ \ Doomed(r)]
    /\ skipped' = [skipped EXCEPT ![r] = @ \cup Doomed(r)]
    /\ UNCHANGED <<plan, completed, failed, status>>

\* One turn of the loop: the tasks that wait for a failed one are skipped, the
\* first of those that wait for nothing any more are started.
StartBatch(r) ==
    /\ InProgress(r) = {} /\ Ready(r) # {}
    /\ \E batch \in Batches(r) :
       /\ AcquireSlots(r, batch)
       /\ remaining' = [remaining EXCEPT ![r] = @ \ (Doomed(r) \cup SetOf(batch))]
       /\ skipped' = [skipped EXCEPT ![r] = @ \cup Doomed(r)]
    /\ UNCHANGED <<plan, completed, failed, status>>

\* The turn that finds nothing to start: all that is left is skipped.
SkipRest(r) ==
    /\ InProgress(r) = {} /\ remaining[r] # {} /\ Ready(r) = {}
    /\ skipped' = [skipped EXCEPT ![r] = @ \cup remaining[r]]
    /\ remaining' = [remaining EXCEPT ![r] = {}]
    /\ UNCHANGED <<plan, completed, failed, step, tried, slotVars, status>>

-----------------------------------------------------------------------------
(* executeSubagent.                                                        *)

At(r, t, s)   == step[r][t] = s
Goes(r, t, s) == step' = [step EXCEPT ![r][t] = s]

\* updateSubagentStatus: a failed read or write of Redis is not noticed.
StatusWritten(t, s) == status' \in {status, [status EXCEPT ![t] = s]}

Begin(r, t) ==
    /\ At(r, t, "granted") /\ Goes(r, t, "calling")
    /\ StatusWritten(t, "RUNNING")
    /\ UNCHANGED <<schedulerVars, tried, slotVars>>

\* No key, an error of the provider, or an empty answer.
CallFails(r, t) ==
    /\ At(r, t, "calling")
    /\ tried' = [tried EXCEPT ![r][t] = @ + 1]
    /\ IF tried[r][t] + 1 < Models THEN step' = step ELSE Goes(r, t, "exhausted")
    /\ UNCHANGED <<schedulerVars, slotVars, status>>

CallAnswers(r, t) ==
    /\ At(r, t, "calling") /\ Goes(r, t, "answered")
    /\ UNCHANGED <<schedulerVars, tried, slotVars, status>>

\* Mutant: every execution that ends is saved as COMPLETED.
SavesCompleted(r, t) ==
    /\ \/ At(r, t, "answered") /\ Goes(r, t, "completed")
       \/ At(r, t, "exhausted") /\ Goes(r, t, "failed")
    /\ StatusWritten(t, "COMPLETED")
    /\ UNCHANGED <<schedulerVars, tried, slotVars>>

SaveOutcome(r, t) ==
    /\ \/ At(r, t, "answered") /\ Goes(r, t, "completed") /\ StatusWritten(t, "COMPLETED")
       \/ At(r, t, "exhausted") /\ Goes(r, t, "failed") /\ StatusWritten(t, "FAILED")
    /\ UNCHANGED <<schedulerVars, tried, slotVars>>

\* Mutant: only an execution that answered gives its slot back.
ReleasesIfCompleted(r, t) ==
    /\ At(r, t, "completed") /\ queue = <<>>
    /\ completed' = [completed EXCEPT ![r] = @ \cup {t}]
    /\ Goes(r, t, "idle") /\ active' = active - 1
    /\ UNCHANGED <<plan, remaining, failed, skipped, tried, queue, status>>

\* releaseSlot and the scheduler's callback, one after the other.  The head of
\* the queue counts itself in, but the one that hands over did not count itself
\* out: active grows by one for good.
Release(r, t) ==
    /\ step[r][t] \in {"completed", "failed"}
    /\ completed' = [completed EXCEPT ![r] = IF At(r, t, "completed") THEN @ \cup {t} ELSE @]
    /\ failed' = [failed EXCEPT ![r] = IF At(r, t, "failed") THEN @ \cup {t} ELSE @]
    /\ \/ /\ queue # <<>>
          /\ step' = [step EXCEPT ![r][t] = "idle", ![Head(queue)[1]][Head(queue)[2]] = "granted"]
          /\ queue' = Tail(queue) /\ active' = active + 1
       \/ /\ queue = <<>>
          /\ Goes(r, t, "idle")
          /\ active' = (IF active > 0 THEN active - 1 ELSE 0) /\ UNCHANGED queue
    /\ UNCHANGED <<plan, remaining, skipped, tried, status>>

-----------------------------------------------------------------------------
Init ==
    /\ plan \in [Runs -> Plans]
    /\ remaining = [r \in Runs |-> SetOf(plan[r])]
    /\ completed = [r \in Runs |-> {}] /\ failed = [r \in Runs |-> {}]
    /\ skipped = [r \in Runs |-> {}]
    /\ step = [r \in Runs |-> [t \in Tasks |-> "idle"]]
    /\ tried = [r \in Runs |-> [t \in Tasks |-> 0]]
    /\ active = 0 /\ queue = <<>>
    /\ status = [t \in Tasks |-> "PENDING"]

Schedule(r) == StartBatch(r) \/ SkipRest(r)

Execute(r, t) ==
    Begin(r, t) \/ CallFails(r, t) \/ CallAnswers(r, t) \/ SaveOutcome(r, t) \/ Release(r, t)

Next == \E r \in Runs : Schedule(r) \/ \E t \in Tasks : Execute(r, t)

Spec == Init /\ [][Next]_vars

\* A run that can take its turn does, and so does every execution that holds a
\* slot: the calls of the providers and of Redis settle.
FairSpec ==
    /\ Spec
    /\ \A r \in Runs : WF_vars(Schedule(r))
    /\ \A r \in Runs, t \in Tasks : WF_vars(Execute(r, t))

-----------------------------------------------------------------------------
(* Properties.                                                             *)

\* Every variable has its type.
TypeOK ==
    /\ plan \in [Runs -> Plans]
    /\ {remaining, completed, failed, skipped} \subseteq [Runs -> SUBSET Tasks]
    /\ step \in [Runs -> [Tasks -> Step]]
    /\ tried \in [Runs -> [Tasks -> 0 .. Models]]
    /\ active \in Nat /\ queue \in Seq(Executions)
    /\ status \in [Tasks -> Status]

\* However the runs share the slots, no more than MaxActive executions hold one.
AtMostMaxActive == Cardinality(Holders) <= MaxActive

\* The tasks of a run are at all times parted into those that wait, those under
\* way and the three kinds of result: none is lost, none counted or run twice.
ResultsPartitionPlan ==
    \A r \in Runs :
        LET parts == <<remaining[r], InProgress(r), completed[r], failed[r], skipped[r]>> IN
        /\ UNION SetOf(parts) = SetOf(plan[r])
        /\ \A i, j \in DOMAIN parts : i # j => parts[i] \cap parts[j] = {}

SkipsAreJustified ==
    \A r \in Runs : \A t \in skipped[r] : \E d \in Deps[t] :
        d \in failed[r] \cup skipped[r] \/ d \notin SetOf(plan[r])

CompletedIsEarned ==
    \A t \in Tasks : status[t] = "COMPLETED" =>
        \E r \in Runs : /\ t \in completed[r] \/ At(r, t, "completed")
                        /\ Deps[t] \subseteq completed[r]

\* A task is skipped for a reason: something it depends on failed, was skipped
\* itself, or is not in the plan at all; and one that Redis has as COMPLETED was
\* completed by an execution, in a run that had completed all the task depends on.
OutcomesAreJustified == SkipsAreJustified /\ CompletedIsEarned

\* The abstract specification: what was given a slot and did not settle runs;
\* a task outside the plan counts as skipped.
TaskPhase(r, t) ==
    CASE t \in completed[r] -> "succeeded"
      [] t \in failed[r] -> "failed"
      [] t \in remaining[r] \/ At(r, t, "queued") -> "waiting"
      [] step[r][t] \notin {"idle", "queued"} -> "running"
      [] OTHER -> "skipped"

Abstract == INSTANCE TaskExecution WITH
    phase <- [r \in Runs |-> [t \in Tasks |-> TaskPhase(r, t)]]

ImplementsTaskExecution == Abstract!Spec

Settled(r)  == completed[r] \cup failed[r] \cup skipped[r] = SetOf(plan[r])
SlotsLeaked == Holders = {} /\ active >= MaxActive

\* "Returns a map of taskId -> execution result once all tasks settle" (subagent-
\* scheduler.ts 37): every run comes to a result for all of its tasks.  Refuted:
\* an execution that queued takes a slot that is not counted free by the one that
\* had it (releaseSlot), until no slot is left and the next batch waits for good.
EveryRunSettles == <>(\A r \in Runs : Settled(r))

\* Nothing but that leak keeps a run from its end: cyclic plans, dependencies
\* outside the plan, failed models and runs that share the slots do not.
SettlesUnlessSlotsLeak == <>(\A r \in Runs : Settled(r) \/ SlotsLeaked)
=============================================================================
