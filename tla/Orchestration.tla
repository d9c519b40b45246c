---------------------------- MODULE Orchestration ----------------------------
(***************************************************************************)
(* The gateway orchestrator: requests that say the same (one fingerprint)  *)
(* prepare a plan of subagent tasks or reuse one, run or resume it, merge  *)
(* what came out and close it (lib/agent/orchestrator-enforcer.ts,         *)
(* orchestrator-lock.ts, orchestrator-state.ts, subagent-merge.ts, over    *)
(* the task store of subagent-memory.ts).  All state lies in Redis, is     *)
(* read and written by separate commands, and is written back whole.       *)
(*                                                                         *)
(* The scheduler is that of SubagentPool, seen by one request: a task      *)
(* starts when all it depends on completed in this run; what never can is  *)
(* skipped.  Abstracted: of an output only whether there is one, of the    *)
(* merged output from which tasks it comes; updateSubagentStatus is one    *)
(* step, which may be lost without notice, as any command may whose        *)
(* failure the code swallows; prompts, performance counters and the 24     *)
(* hours records live.                                                     *)
(***************************************************************************)
EXTENDS Naturals, FiniteSets

CONSTANTS
    Requests,        \* requests with the same fingerprint, one client trying again
    Tasks, Deps,     \* the subtasks of a plan, and what each depends on
    MaxPlans,        \* bound: plans made
    MaxCrashes       \* bound: processes that die

ASSUME OrchestrationAssumption ==
    /\ IsFiniteSet(Tasks) /\ Tasks # {} /\ Deps \in [Tasks -> SUBSET Tasks]
    /\ MaxPlans \in Nat /\ MaxCrashes \in Nat

ASSUME OutputAssumption == "no output" \notin Tasks

VARIABLES
    fingerprint,     \* orch:fp:<fp>: the plan under way for it, or NoPlan
    record,          \* orch:state:<parentId>
    status,          \* subagent:task:<id>, of the tasks of each plan
    plans,           \* how many plans have an id
    at,              \* what each request does next
    plan,            \* ctx.parentId
    known,           \* ctx.subagentTasks
    read,            \* the record it read and has not written back
    todo,            \* remaining, of the scheduler
    running,         \* inProgress, of the scheduler
    done,            \* completed, of the scheduler
    marked,          \* tasks finalizeOrchestration has marked
    earned,          \* history: tasks some run of the plan completed
    torn,            \* history: plans taken up in part, or left by a crash
    unmarked,        \* history: tasks whose last mark was lost
    unclosed         \* history: plans whose closing failed

store   == <<fingerprint, record, status>>
request == <<at, plan, known, read, todo, running, done, marked>>
history == <<earned, torn, unmarked, unclosed>>
vars    == <<store, plans, request, history>>

Plans  == 1 .. MaxPlans
NoPlan == 0

State == {"PENDING", "RUNNING", "MERGED", "COMPLETED", "FAILED"}

\* finalOutput as the tasks it was merged from; NoOutput when none was persisted.
NoOutput == {"no output"}
Record   == [state : State, output : (SUBSET Tasks) \cup {NoOutput}]
NoRecord == [state |-> "absent", output |-> NoOutput]

TaskStatus == {"absent", "PENDING", "RUNNING", "COMPLETED", "FAILED"}

IsTerminal(r) == r.state \in {"COMPLETED", "FAILED", "MERGED"}

Saved(p) == {t \in Tasks : status[p][t] # "absent"}

Steps == {"look", "check", "load", "create", "register", "save", "execute", "running", "mark",
          "merge", "merge write", "complete", "complete write", "gone", "finished"}

Goes(q, s) == at' = [at EXCEPT ![q] = s]

\* updateSubagentStatus: it changes a task that is there, and nothing notices if
\* the read or the write fails.
Written(p, t, s) == status[p][t] # "absent" /\ status' = [status EXCEPT ![p][t] = s]
Lost             == status' = status
StatusWritten(p, t, s) == Written(p, t, s) \/ Lost

-----------------------------------------------------------------------------
(* prepareOrchestration.                                                   *)

\* checkOrchestrationDedup, in three reads.
Look(q) ==
    /\ at[q] = "look"
    /\ IF fingerprint = NoPlan
         THEN Goes(q, "create") /\ UNCHANGED plan
         ELSE Goes(q, "check") /\ plan' = [plan EXCEPT ![q] = fingerprint]
    /\ UNCHANGED <<store, plans, known, read, todo, running, done, marked, history>>

CheckActive(q) ==
    /\ at[q] = "check"
    /\ Goes(q, IF record[plan[q]] = NoRecord \/ IsTerminal(record[plan[q]]) THEN "create" ELSE "load")
    /\ UNCHANGED <<store, plans, plan, known, read, todo, running, done, marked, history>>

\* The plan is reused with the tasks it has by now, or those of them that could be
\* read: getSubagentTasksByParent leaves out the others.
Load(q) ==
    /\ at[q] = "load"
    /\ \E seen \in SUBSET Saved(plan[q]) :
       IF seen = {}
         THEN Goes(q, "create") /\ UNCHANGED <<known, torn>>
         ELSE /\ Goes(q, "execute") /\ known' = [known EXCEPT ![q] = seen]
              /\ torn' = IF seen = Tasks THEN torn ELSE torn \cup {plan[q]}
    /\ UNCHANGED <<store, plans, plan, read, todo, running, done, marked, earned, unmarked, unclosed>>

\* createOrchestrationRecord, and the transition to RUNNING: nobody else knows
\* the plan yet.
Create(q) ==
    /\ at[q] = "create" /\ plans < MaxPlans
    /\ plans' = plans + 1 /\ plan' = [plan EXCEPT ![q] = plans + 1]
    /\ record' = [record EXCEPT ![plans + 1] = [state |-> "RUNNING", output |-> NoOutput]]
    /\ Goes(q, "register")
    /\ UNCHANGED <<fingerprint, status, known, read, todo, running, done, marked, history>>

\* registerOrchestrationFingerprint: it replaces what is there.
Register(q) ==
    /\ at[q] = "register" /\ fingerprint' = plan[q] /\ Goes(q, "save")
    /\ UNCHANGED <<record, status, plans, plan, known, read, todo, running, done, marked, history>>

\* createSubagentStubs saves the tasks all at once: in any order, and a task that
\* could not be saved is not missed.
SaveStub(q) ==
    /\ at[q] = "save"
    /\ \E t \in Tasks \ known[q] :
       /\ Lost \/ status' = [status EXCEPT ![plan[q]][t] = "PENDING"]
       /\ known' = [known EXCEPT ![q] = @ \cup {t}]
       /\ Goes(q, IF known[q] \cup {t} = Tasks THEN "execute" ELSE "save")
    /\ UNCHANGED <<fingerprint, record, plans, plan, read, todo, running, done, marked, history>>

-----------------------------------------------------------------------------
(* runOrchestratedExecution, resumeOrchestratedExecution.                  *)

Run(q) ==
    /\ at[q] = "execute" /\ Goes(q, "running") /\ todo' = [todo EXCEPT ![q] = known[q]]
    /\ UNCHANGED <<store, plans, plan, known, read, running, done, marked, history>>

\* What is left of a plan: by the statuses in Redis, which do not tell what runs
\* from what was left running.
Remaining(p) == {t \in Tasks : status[p][t] \in {"PENDING", "FAILED"}}

\* Of the tasks that could be read, what remains is scheduled alone, or all of
\* them if nothing remains.
Resume(q) ==
    /\ at[q] = "execute" /\ Goes(q, "running")
    /\ \E seen \in SUBSET Saved(plan[q]) \ {{}} :
          todo' = [todo EXCEPT ![q] = IF Remaining(plan[q]) \cap seen = {} THEN seen
                                      ELSE Remaining(plan[q]) \cap seen]
    /\ UNCHANGED <<store, plans, plan, known, read, running, done, marked, history>>

Ready(q) == {t \in todo[q] : Deps[t] \subseteq done[q]}

StartTask(q) ==
    /\ at[q] = "running"
    /\ \E t \in Ready(q) \ running[q] :
          running' = [running EXCEPT ![q] = @ \cup {t}] /\ StatusWritten(plan[q], t, "RUNNING")
    /\ UNCHANGED <<fingerprint, record, plans, at, plan, known, read, todo, done, marked, history>>

Ends(q, t, won) ==
    /\ todo' = [todo EXCEPT ![q] = @ \ {t}] /\ running' = [running EXCEPT ![q] = @ \ {t}]
    /\ done' = [done EXCEPT ![q] = IF won THEN @ \cup {t} ELSE @]
    /\ earned' = IF won THEN [earned EXCEPT ![plan[q]] = @ \cup {t}] ELSE earned

\* Mutant: a task that failed is saved as one that completed.
EndTaskCompleted(q) ==
    /\ at[q] = "running"
    /\ \E t \in running[q], won \in BOOLEAN :
          Ends(q, t, won) /\ StatusWritten(plan[q], t, "COMPLETED")
    /\ UNCHANGED <<fingerprint, record, plans, at, plan, known, read, marked, torn, unmarked, unclosed>>

\* A task ends well or not; its execution is over either way.
EndTask(q) ==
    /\ at[q] = "running"
    /\ \E t \in running[q], won \in BOOLEAN :
          Ends(q, t, won) /\ StatusWritten(plan[q], t, IF won THEN "COMPLETED" ELSE "FAILED")
    /\ UNCHANGED <<fingerprint, record, plans, at, plan, known, read, marked, torn, unmarked, unclosed>>

\* What is left waits for something that never completed in this run: skipped.
\* The outputs of this run are merged.
Merge(q) ==
    /\ at[q] = "running" /\ Ready(q) = {} /\ Goes(q, "mark")
    /\ UNCHANGED <<store, plans, plan, known, read, todo, running, done, marked, history>>

-----------------------------------------------------------------------------
(* finalizeOrchestration, finalizeMerge.                                   *)

\* Every task of the context is marked COMPLETED, one after another; a mark that is
\* lost is not missed.
Mark(q) ==
    /\ at[q] = "mark"
    /\ \/ \E t \in known[q] \ marked[q] :
          /\ marked' = [marked EXCEPT ![q] = @ \cup {t}] /\ UNCHANGED at
          /\ \/ /\ Written(plan[q], t, "COMPLETED")
                /\ unmarked' = [unmarked EXCEPT ![plan[q]] = @ \ {t}]
             \/ Lost /\ unmarked' = [unmarked EXCEPT ![plan[q]] = @ \cup {t}]
       \/ known[q] \subseteq marked[q] /\ Goes(q, "merge") /\ UNCHANGED <<status, marked, unmarked>>
    /\ UNCHANGED <<fingerprint, record, plans, plan, known, read, todo, running, done, earned, torn, unclosed>>

\* transitionOrchestrationState reads the record, ...
ReadRecord(q) ==
    /\ at[q] \in {"merge", "complete"}
    /\ read' = [read EXCEPT ![q] = record[plan[q]]]
    /\ Goes(q, IF at[q] = "merge" THEN "merge write" ELSE "complete write")
    /\ UNCHANGED <<store, plans, plan, known, todo, running, done, marked, history>>

\* Mutant: a closed record is written over, whatever was read.
MergeAlways(q) ==
    /\ at[q] = "merge write" /\ Goes(q, "complete")
    /\ record' = [record EXCEPT ![plan[q]] = [state |-> "MERGED", output |-> done[q]]]
    /\ read' = [read EXCEPT ![q] = NoRecord]
    /\ UNCHANGED <<fingerprint, status, plans, plan, known, todo, running, done, marked, history>>

\* ... and writes it back, MERGED with the output unless what it read was closed, ...
WriteMerged(q) ==
    /\ at[q] = "merge write" /\ Goes(q, "complete")
    /\ record' = IF IsTerminal(read[q]) THEN record
                 ELSE [record EXCEPT ![plan[q]] = [state |-> "MERGED", output |-> done[q]]]
    /\ read' = [read EXCEPT ![q] = NoRecord]
    /\ UNCHANGED <<fingerprint, status, plans, plan, known, todo, running, done, marked, history>>

\* ... then COMPLETED.
WriteCompleted(q) ==
    /\ at[q] = "complete write" /\ Goes(q, "finished")
    /\ record' = [record EXCEPT ![plan[q]] = [read[q] EXCEPT !.state = "COMPLETED"]]
    /\ read' = [read EXCEPT ![q] = NoRecord]
    /\ UNCHANGED <<fingerprint, status, plans, plan, known, todo, running, done, marked, history>>

\* finalizeMerge throws before or after any of its commands, and nobody minds.
CloseFails(q) ==
    /\ at[q] \in {"merge", "merge write", "complete", "complete write"} /\ Goes(q, "finished")
    /\ read' = [read EXCEPT ![q] = NoRecord]
    /\ unclosed' = unclosed \cup {plan[q]}
    /\ UNCHANGED <<store, plans, plan, known, todo, running, done, marked, earned, torn, unmarked>>

-----------------------------------------------------------------------------
\* The process dies, or a command of prepareOrchestration throws, and the client
\* sends its request again.
Crashes == Cardinality({q \in Requests : at[q] = "gone"})

Fresh(f, q, v) == [f EXCEPT ![q] = v]

Crash(q) ==
    /\ at[q] \notin {"look", "gone", "finished"} /\ Crashes < MaxCrashes
    /\ Goes(q, "gone")
    /\ torn' = IF plan[q] = NoPlan THEN torn ELSE torn \cup {plan[q]}
    /\ read' = Fresh(read, q, NoRecord) /\ todo' = Fresh(todo, q, {}) /\ done' = Fresh(done, q, {})
    /\ marked' = Fresh(marked, q, {}) /\ known' = Fresh(known, q, {})
    /\ running' = Fresh(running, q, {})
    /\ UNCHANGED <<store, plans, plan, earned, unmarked, unclosed>>

Init ==
    /\ fingerprint = NoPlan /\ plans = 0
    /\ record = [p \in Plans |-> NoRecord]
    /\ status = [p \in Plans |-> [t \in Tasks |-> "absent"]]
    /\ at = [q \in Requests |-> "look"] /\ plan = [q \in Requests |-> NoPlan]
    /\ known = [q \in Requests |-> {}] /\ read = [q \in Requests |-> NoRecord]
    /\ todo = [q \in Requests |-> {}] /\ done = [q \in Requests |-> {}]
    /\ running = [q \in Requests |-> {}] /\ marked = [q \in Requests |-> {}]
    /\ earned = [p \in Plans |-> {}] /\ torn = {}
    /\ unmarked = [p \in Plans |-> {}] /\ unclosed = {}

Prepare(q)  == Look(q) \/ CheckActive(q) \/ Load(q) \/ Create(q) \/ Register(q) \/ SaveStub(q)
Carry(q)    == Run(q) \/ Resume(q) \/ StartTask(q) \/ EndTask(q) \/ Merge(q)
Finalize(q) == Mark(q) \/ ReadRecord(q) \/ WriteMerged(q) \/ WriteCompleted(q) \/ CloseFails(q)

Step(q) == Prepare(q) \/ Carry(q) \/ Finalize(q)

Next == \E q \in Requests : Step(q) \/ Crash(q)

Spec == Init /\ [][Next]_vars

-----------------------------------------------------------------------------
(* Properties.                                                             *)

TypeOK ==
    /\ fingerprint \in Plans \cup {NoPlan} /\ plans \in 0 .. MaxPlans
    /\ record \in [Plans -> Record \cup {NoRecord}]
    /\ status \in [Plans -> [Tasks -> TaskStatus]]
    /\ at \in [Requests -> Steps] /\ plan \in [Requests -> Plans \cup {NoPlan}]
    /\ read \in [Requests -> Record \cup {NoRecord}]
    /\ {known, todo, running, done, marked} \subseteq [Requests -> SUBSET Tasks]
    /\ {earned, unmarked} \subseteq [Plans -> SUBSET Tasks]
    /\ torn \subseteq Plans /\ unclosed \subseteq Plans

\* "closes orchestration permanently" (orchestrator-enforcer.ts): a closed plan is
\* opened again by nothing but a request that had read it while it was open and
\* closes it with its own output.
ReopenedOnlyByRace ==
    [][\A p \in Plans : record[p].state = "COMPLETED" /\ record'[p].state # "COMPLETED" =>
          \E q \in Requests : plan[q] = p /\ ~IsTerminal(read[q]) /\ record'[p].output = done[q]]_vars

UnearnedOnlyAtClose ==
    \A p \in Plans, t \in Tasks : status[p][t] = "COMPLETED" /\ t \notin earned[p] =>
        \/ p \in torn \cup unclosed \/ IsTerminal(record[p])
        \/ \E q \in Requests : plan[q] = p /\ at[q] \in {"mark", "merge", "merge write"}

ClosedPlanIsSettled ==
    \A p \in Plans :
        /\ record[p].state = "COMPLETED" /\ p \notin torn
        /\ \A q \in Requests : plan[q] = p => at[q] = "finished"
        => \A t \in Tasks \ unmarked[p] : status[p][t] = "COMPLETED"

ClosedPlanHasOutput ==
    \A p \in Plans : record[p].state = "COMPLETED" => record[p].output # NoOutput

\* What Redis says of the tasks of a plan is true until a request closes the plan:
\* a task that it has as COMPLETED without any run having completed it was marked
\* then, by a request that closed the plan, is about to, died over it, or failed to
\* (finalizeMerge(...).catch).  When nobody works on a closed plan any more, each
\* task is COMPLETED but those whose last mark was lost (updateSubagentStatus(...)
\* .catch), however many requests shared the plan; unless one of them took it up in
\* part, or died over it.  And a plan is not closed without an output, whatever was
\* lost (orchestrator-enforcer.ts 228-317).
TasksAreTrueTillClosed == UnearnedOnlyAtClose /\ ClosedPlanIsSettled /\ ClosedPlanHasOutput
=============================================================================
