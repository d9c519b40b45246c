------------------------- MODULE Orchestration_proofs -------------------------
(***************************************************************************)
(* Proofs about Orchestration, for any requests, any tasks with any        *)
(* dependencies, and any number of plans and crashes.                      *)
(*                                                                         *)
(* ClosedPlanIsSettled speaks of the end of a plan; what leads there is    *)
(* StillMarks: a task that is not COMPLETED, and whose mark was not lost,  *)
(* has a request that works on the plan and will mark it.                  *)
(* UnearnedOnlyAtClose needs that a plan once closed stays closed for      *)
(* whoever read it closed (ReadsAreOld); ClosedPlanHasOutput that what is  *)
(* completed was merged before (OutputInv).                                *)
(***************************************************************************)
EXTENDS Orchestration, TLAPS

Working == {"register", "save", "execute", "running", "mark"}

OrchestrationTypes ==
    /\ fingerprint \in Plans \cup {NoPlan} /\ plans \in 0 .. MaxPlans
    /\ record \in [Plans -> Record \cup {NoRecord}]
    /\ status \in [Plans -> [Tasks -> TaskStatus]]
    /\ at \in [Requests -> Steps] /\ plan \in [Requests -> Plans \cup {NoPlan}]
    /\ read \in [Requests -> Record \cup {NoRecord}]
    /\ known \in [Requests -> SUBSET Tasks] /\ todo \in [Requests -> SUBSET Tasks]
    /\ done \in [Requests -> SUBSET Tasks] /\ marked \in [Requests -> SUBSET Tasks]
    /\ running \in [Requests -> SUBSET Tasks]
    /\ earned \in [Plans -> SUBSET Tasks] /\ unmarked \in [Plans -> SUBSET Tasks]
    /\ torn \subseteq Plans /\ unclosed \subseteq Plans

\* Nobody knows a plan that is not made.
PlansMade ==
    /\ fingerprint <= plans /\ \A q \in Requests : plan[q] <= plans
    /\ \A p \in Plans : p > plans => record[p] = NoRecord
    /\ \A q \in Requests : at[q] \notin {"look", "create", "gone"} => plan[q] # NoPlan

\* A request marks tasks when its run is over, and it knows all of a plan that
\* it made, or found whole.
MarksLater ==
    \A q \in Requests :
        /\ at[q] \notin {"mark", "merge", "merge write", "complete", "complete write", "finished"} =>
              marked[q] = {}
        /\ at[q] \in {"execute", "running", "mark"} /\ plan[q] \notin torn => known[q] = Tasks

\* What a request read closed is closed.
ReadsAreOld ==
    \A q \in Requests :
        /\ at[q] \notin {"merge write", "complete write"} => read[q] = NoRecord
        /\ plan[q] # NoPlan /\ IsTerminal(read[q]) => IsTerminal(record[plan[q]])

StillMarks ==
    \A p \in Plans \ torn, t \in Tasks :
        p <= plans /\ status[p][t] # "COMPLETED" /\ t \notin unmarked[p] =>
            \E q \in Requests : plan[q] = p /\ at[q] \in Working /\ t \notin marked[q]

OInv == OrchestrationTypes /\ PlansMade /\ MarksLater /\ ReadsAreOld /\ StillMarks
        /\ UnearnedOnlyAtClose

\* What is closed was merged: it has an output, and so has what is read of it.
OutputInv ==
    /\ \A p \in Plans : IsTerminal(record[p]) => record[p].output # NoOutput
    /\ \A q \in Requests : at[q] = "complete" => IsTerminal(record[plan[q]])
    /\ \A q \in Requests : at[q] = "complete write" => IsTerminal(read[q]) /\ read[q].output # NoOutput

-----------------------------------------------------------------------------
LEMMA PlanNumbers == (\A p \in Plans : p \in Nat /\ p > 0) /\ NoPlan = 0 /\ NoPlan \notin Plans
  BY OrchestrationAssumption DEF Plans, NoPlan

\* A status that is written or lost leaves statuses.
LEMMA StatusTyped ==
    ASSUME status \in [Plans -> [Tasks -> TaskStatus]], NEW p \in Plans, NEW t \in Tasks, NEW s \in TaskStatus,
           status' = [status EXCEPT ![p][t] = s] \/ status' = status
    PROVE  /\ status' \in [Plans -> [Tasks -> TaskStatus]]
           /\ \A o \in Plans, u \in Tasks : o # p \/ u # t => status'[o][u] = status[o][u]
           /\ status'[p][t] = s \/ status'[p][t] = status[p][t]
<1>1. CASE status' = [status EXCEPT ![p][t] = s]
  BY <1>1
<1>2. CASE status' = status
  BY <1>2
<1> QED
  BY <1>1, <1>2

LEMMA OrchestrationStart == Init => OInv
<1> SUFFICES ASSUME Init PROVE OInv
  OBVIOUS
<1>1. OrchestrationTypes
  BY OrchestrationAssumption DEF Init, OrchestrationTypes, TaskStatus, Steps
<1> QED
  BY <1>1, PlanNumbers DEF Init, OInv, PlansMade, MarksLater, ReadsAreOld, StillMarks, UnearnedOnlyAtClose,
                           IsTerminal, NoRecord

\* A step of a request on its way to its plan, which changes no plan.
LEMMA PlansUntouched ==
    ASSUME OInv, NEW q \in Requests, UNCHANGED <<record, status, plans, earned>>,
           OrchestrationTypes', PlansMade', MarksLater', ReadsAreOld',
           torn \subseteq torn', unmarked' = unmarked, unclosed \subseteq unclosed',
           \A r \in Requests \ {q} : /\ plan'[r] = plan[r] /\ at'[r] = at[r] /\ marked'[r] = marked[r],
           \/ at[q] \notin Working \cup {"merge", "merge write"}
           \/ plan[q] \in torn'
           \/ at[q] \notin Working /\ plan[q] \in unclosed'
           \/ /\ plan'[q] = plan[q] /\ marked'[q] = marked[q]
              /\ at[q] \in Working => at'[q] \in Working \/ marked[q] = Tasks
              /\ at[q] \in {"mark", "merge", "merge write"} => at'[q] \in {"mark", "merge", "merge write"}
    PROVE  OInv'
<1> USE DEF OInv
<1>1. StillMarks'
  <2> SUFFICES ASSUME NEW p \in Plans \ torn', NEW t \in Tasks, p <= plans, status[p][t] # "COMPLETED",
                      t \notin unmarked[p]
               PROVE  \E r \in Requests : plan'[r] = p /\ at'[r] \in Working /\ t \notin marked'[r]
    BY DEF StillMarks
  <2>0. p \in Plans \ torn
    OBVIOUS
  <2>1. PICK r \in Requests : plan[r] = p /\ at[r] \in Working /\ t \notin marked[r]
    BY <2>0, Zenon DEF StillMarks
  <2>2. CASE r # q
    BY <2>1, <2>2
  <2>3. CASE r = q
    BY <2>1, <2>3
  <2> QED
    BY <2>2, <2>3
<1>2. UnearnedOnlyAtClose'
  <2> SUFFICES ASSUME NEW p \in Plans, NEW t \in Tasks, status[p][t] = "COMPLETED", t \notin earned[p],
                      p \notin torn' \cup unclosed', ~IsTerminal(record[p])
               PROVE  \E r \in Requests : plan'[r] = p /\ at'[r] \in {"mark", "merge", "merge write"}
    BY DEF UnearnedOnlyAtClose, IsTerminal
  <2>1. PICK r \in Requests : plan[r] = p /\ at[r] \in {"mark", "merge", "merge write"}
    BY DEF UnearnedOnlyAtClose
  <2>2. CASE r # q
    BY <2>1, <2>2
  <2>3. CASE r = q
    BY <2>1, <2>3 DEF Working
  <2> QED
    BY <2>2, <2>3
<1> QED
  BY <1>1, <1>2

-----------------------------------------------------------------------------
(* prepareOrchestration.                                                   *)

LEMMA LookStep ==
    ASSUME OInv, NEW q \in Requests, Look(q)
    PROVE  OInv'
<1> USE PlanNumbers DEF OInv
<1>0. /\ at[q] = "look"
      /\ \/ at' = [at EXCEPT ![q] = "create"] /\ plan' = plan
         \/ /\ fingerprint # NoPlan /\ at' = [at EXCEPT ![q] = "check"]
            /\ plan' = [plan EXCEPT ![q] = fingerprint]
      /\ UNCHANGED <<store, plans, known, read, todo, running, done, marked, history>>
  BY DEF Look, Goes
<1>1. OrchestrationTypes'
  BY <1>0 DEF OrchestrationTypes, Steps, NoRecord, store, history
<1>2. PlansMade'
  BY <1>0 DEF OrchestrationTypes, PlansMade, store, history
<1>3. MarksLater'
  BY <1>0 DEF OrchestrationTypes, MarksLater, store, history
<1>4. ReadsAreOld'
  <2>1. read[q] = NoRecord /\ ~IsTerminal(NoRecord)
    BY <1>0 DEF ReadsAreOld, IsTerminal, NoRecord
  <2> QED
    BY <1>0, <2>1 DEF OrchestrationTypes, ReadsAreOld, store, history
<1> QED
  BY <1>0, <1>1, <1>2, <1>3, <1>4, PlansUntouched DEF OrchestrationTypes, MarksLater, PlansMade, Working, store, history

LEMMA CheckActiveStep ==
    ASSUME OInv, NEW q \in Requests, CheckActive(q)
    PROVE  OInv'
<1> USE PlanNumbers DEF OInv
<1>0. /\ at[q] = "check" /\ (at' = [at EXCEPT ![q] = "create"] \/ at' = [at EXCEPT ![q] = "load"])
      /\ UNCHANGED <<store, plans, plan, known, read, todo, running, done, marked, history>>
  BY DEF CheckActive, Goes
<1>1. OrchestrationTypes'
  BY <1>0 DEF OrchestrationTypes, Steps, NoRecord, store, history
<1>2. PlansMade'
  BY <1>0 DEF OrchestrationTypes, PlansMade, store, history
<1>3. MarksLater'
  BY <1>0 DEF OrchestrationTypes, MarksLater, store, history
<1>4. ReadsAreOld'
  BY <1>0 DEF OrchestrationTypes, PlansMade, ReadsAreOld, store, history, IsTerminal, NoRecord
<1> QED
  BY <1>0, <1>1, <1>2, <1>3, <1>4, PlansUntouched DEF OrchestrationTypes, MarksLater, PlansMade, Working, store, history

LEMMA LoadStep ==
    ASSUME OInv, NEW q \in Requests, Load(q)
    PROVE  OInv'
<1> USE PlanNumbers DEF OInv
<1>0. /\ at[q] = "load"
      /\ \/ at' = [at EXCEPT ![q] = "create"] /\ UNCHANGED <<known, torn>>
         \/ /\ at' = [at EXCEPT ![q] = "execute"]
            /\ \E seen \in SUBSET Tasks :
               /\ known' = [known EXCEPT ![q] = seen]
               /\ (torn' = torn /\ seen = Tasks) \/ torn' = torn \cup {plan[q]}
      /\ UNCHANGED <<store, plans, plan, read, todo, running, done, marked, earned, unmarked, unclosed>>
  BY DEF Load, Goes, Saved
<1>a. plan[q] \in Plans
  BY <1>0 DEF OrchestrationTypes, PlansMade
<1>1. OrchestrationTypes'
  <2>1. known' \in [Requests -> SUBSET Tasks] /\ torn' \subseteq Plans
    BY <1>0, <1>a DEF OrchestrationTypes
  <2> QED
    BY <1>0, <2>1 DEF OrchestrationTypes, Steps, store
<1>2. PlansMade'
  BY <1>0, <1>a DEF OrchestrationTypes, PlansMade, store, history
<1>3. MarksLater'
  BY <1>0, <1>a DEF OrchestrationTypes, MarksLater, store, history
<1>4. ReadsAreOld'
  BY <1>0, <1>a DEF OrchestrationTypes, PlansMade, ReadsAreOld, store, history, IsTerminal, NoRecord
<1> QED
  BY <1>0, <1>1, <1>2, <1>3, <1>4, PlansUntouched DEF OrchestrationTypes, MarksLater, PlansMade, Working, store, history

LEMMA CreateStep ==
    ASSUME OInv, NEW q \in Requests, Create(q)
    PROVE  OInv'
<1> USE PlanNumbers DEF OInv
<1>0. /\ at[q] = "create" /\ plans < MaxPlans /\ plans' = plans + 1
      /\ plan' = [plan EXCEPT ![q] = plans + 1] /\ at' = [at EXCEPT ![q] = "register"]
      /\ record' = [record EXCEPT ![plans + 1] = [state |-> "RUNNING", output |-> NoOutput]]
      /\ UNCHANGED <<fingerprint, status, known, read, todo, running, done, marked, history>>
  BY DEF Create, Goes
<1>a. plans + 1 \in Plans
  BY <1>0, OrchestrationAssumption DEF OrchestrationTypes, Plans
<1>1. OrchestrationTypes'
  <2>1. [state |-> "RUNNING", output |-> NoOutput] \in Record
    BY DEF Record, State
  <2>2. plans' \in 0 .. MaxPlans
    BY <1>0, OrchestrationAssumption DEF OrchestrationTypes
  <2> QED
    BY <1>0, <1>a, <2>1, <2>2 DEF OrchestrationTypes, Steps, history
<1>2. PlansMade'
  <2>0. plans \in Nat /\ \A r \in Requests : plan[r] \in Plans \cup {NoPlan}
    BY OrchestrationAssumption DEF OrchestrationTypes
  <2>1. plans \in Nat /\ \A r \in Requests : plan[r] \in Nat /\ plan[r] <= plans
    BY <2>0 DEF PlansMade
  <2>2. \A r \in Requests : plan'[r] <= plans' /\ (r # q => plan'[r] = plan[r] /\ at'[r] = at[r])
    BY <1>0, <2>1 DEF OrchestrationTypes
  <2>3. \A p \in Plans : p > plans' => record'[p] = NoRecord
    BY <1>0, <1>a, <2>1 DEF OrchestrationTypes, PlansMade
  <2>4. fingerprint' <= plans' /\ plan'[q] # NoPlan
    BY <1>0, <1>a, <2>1 DEF OrchestrationTypes, PlansMade
  <2> QED
    BY <2>2, <2>3, <2>4 DEF PlansMade
<1>3. MarksLater'
  BY <1>0 DEF OrchestrationTypes, MarksLater, history
<1>4. ReadsAreOld'
  <2> SUFFICES ASSUME NEW r \in Requests, r # q, plan[r] # NoPlan, IsTerminal(read[r])
               PROVE  IsTerminal(record'[plan[r]])
    <3>1. read[q] = NoRecord /\ ~IsTerminal(NoRecord)
      BY <1>0 DEF ReadsAreOld, IsTerminal, NoRecord
    <3> QED
      BY <1>0, <3>1 DEF ReadsAreOld, OrchestrationTypes
  <2>1. plan[r] \in Plans /\ plan[r] # plans + 1
    BY DEF OrchestrationTypes, PlansMade
  <2> QED
    BY <1>0, <2>1 DEF ReadsAreOld, OrchestrationTypes
<1>5. StillMarks'
  <2> SUFFICES ASSUME NEW p \in Plans \ torn, NEW t \in Tasks, p <= plans + 1, status[p][t] # "COMPLETED",
                      t \notin unmarked[p]
               PROVE  \E r \in Requests : plan'[r] = p /\ at'[r] \in Working /\ t \notin marked[r]
    BY <1>0 DEF StillMarks, history
  <2>1. CASE p = plans + 1
    BY <1>0, <2>1 DEF OrchestrationTypes, MarksLater, Working
  <2>2. CASE p <= plans
    <3>1. PICK r \in Requests : plan[r] = p /\ at[r] \in Working /\ t \notin marked[r]
      BY <2>2 DEF StillMarks
    <3>2. r # q
      BY <1>0, <3>1 DEF Working
    <3> QED
      BY <1>0, <3>1, <3>2 DEF OrchestrationTypes
  <2>3. plans \in Nat /\ p \in Nat
    BY OrchestrationAssumption DEF OrchestrationTypes
  <2> QED
    BY <2>1, <2>2, <2>3
<1>6. UnearnedOnlyAtClose'
  <2> SUFFICES ASSUME NEW p \in Plans, NEW t \in Tasks, status[p][t] = "COMPLETED", t \notin earned[p],
                      p \notin torn \cup unclosed, ~IsTerminal(record'[p])
               PROVE  \E r \in Requests : plan'[r] = p /\ at'[r] \in {"mark", "merge", "merge write"}
    BY <1>0 DEF UnearnedOnlyAtClose, IsTerminal, history
  <2>1. ~IsTerminal(record[p])
    <3>1. CASE p = plans + 1
      <4>1. record[p] = NoRecord
        BY <3>1, OrchestrationAssumption DEF OrchestrationTypes, PlansMade
      <4> QED
        BY <4>1 DEF IsTerminal, NoRecord
    <3>2. CASE p # plans + 1
      BY <1>0, <3>2 DEF OrchestrationTypes
    <3> QED
      BY <3>1, <3>2
  <2>2. PICK r \in Requests : plan[r] = p /\ at[r] \in {"mark", "merge", "merge write"}
    BY <2>1 DEF UnearnedOnlyAtClose
  <2> QED
    BY <1>0, <2>2 DEF OrchestrationTypes
<1> QED
  BY <1>1, <1>2, <1>3, <1>4, <1>5, <1>6

LEMMA RegisterStep ==
    ASSUME OInv, NEW q \in Requests, Register(q)
    PROVE  OInv'
<1> USE PlanNumbers DEF OInv
<1>0. /\ at[q] = "register" /\ fingerprint' = plan[q] /\ at' = [at EXCEPT ![q] = "save"]
      /\ UNCHANGED <<record, status, plans, plan, known, read, todo, running, done, marked, history>>
  BY DEF Register, Goes
<1>1. OrchestrationTypes'
  BY <1>0 DEF OrchestrationTypes, Steps, NoRecord, store, history
<1>2. PlansMade'
  BY <1>0 DEF OrchestrationTypes, PlansMade, store, history
<1>3. MarksLater'
  BY <1>0 DEF OrchestrationTypes, MarksLater, store, history
<1>4. ReadsAreOld'
  BY <1>0 DEF OrchestrationTypes, PlansMade, ReadsAreOld, store, history, IsTerminal, NoRecord
<1> QED
  BY <1>0, <1>1, <1>2, <1>3, <1>4, PlansUntouched DEF OrchestrationTypes, MarksLater, PlansMade, Working, store, history

\* A step of a request that will mark the tasks of its plan: it changes the status
\* of one of them or fails to, and not to COMPLETED unless it completed it.
LEMMA StatusBeforeMarks ==
    ASSUME OInv, NEW q \in Requests, NEW t \in Tasks, NEW s \in TaskStatus,
           plan[q] \in Plans, at[q] \in {"save", "running"}, at'[q] \in {"save", "execute", "running"},
           status' = [status EXCEPT ![plan[q]][t] = s] \/ status' = status,
           s = "COMPLETED" => t \in earned'[plan[q]],
           \A p \in Plans : earned[p] \subseteq earned'[p],
           \A r \in Requests \ {q} : at'[r] = at[r],
           UNCHANGED <<plan, plans, torn, unmarked, unclosed, record, marked>>
    PROVE  StillMarks' /\ UnearnedOnlyAtClose'
<1> USE DEF OInv
<1>0. /\ \A o \in Plans, u \in Tasks : o # plan[q] \/ u # t => status'[o][u] = status[o][u]
      /\ status'[plan[q]][t] = s \/ status'[plan[q]][t] = status[plan[q]][t]
  BY StatusTyped DEF OrchestrationTypes
<1>1. StillMarks'
  <2> SUFFICES ASSUME NEW p \in Plans \ torn, NEW u \in Tasks, p <= plans, status'[p][u] # "COMPLETED",
                      u \notin unmarked[p]
               PROVE  \E r \in Requests : plan[r] = p /\ at'[r] \in Working /\ u \notin marked[r]
    BY DEF StillMarks
  <2>1. CASE p = plan[q]
    BY <2>1 DEF MarksLater, Working
  <2>2. CASE p # plan[q]
    <3>1. status'[p][u] = status[p][u]
      BY <1>0, <2>2
    <3>2. PICK r \in Requests : plan[r] = p /\ at[r] \in Working /\ u \notin marked[r]
      BY <3>1 DEF StillMarks
    <3> QED
      BY <2>2, <3>2
  <2> QED
    BY <2>1, <2>2
<1>2. UnearnedOnlyAtClose'
  <2> SUFFICES ASSUME NEW p \in Plans, NEW u \in Tasks, status'[p][u] = "COMPLETED", u \notin earned'[p],
                      p \notin torn \cup unclosed, ~IsTerminal(record[p])
               PROVE  \E r \in Requests : plan[r] = p /\ at'[r] \in {"mark", "merge", "merge write"}
    BY DEF UnearnedOnlyAtClose, IsTerminal
  <2>1. status[p][u] = "COMPLETED" /\ u \notin earned[p]
    BY <1>0
  <2>2. PICK r \in Requests : plan[r] = p /\ at[r] \in {"mark", "merge", "merge write"}
    BY <2>1 DEF UnearnedOnlyAtClose
  <2> QED
    BY <2>2
<1> QED
  BY <1>1, <1>2

LEMMA SaveStubStep ==
    ASSUME OInv, NEW q \in Requests, SaveStub(q)
    PROVE  OInv'
<1> USE PlanNumbers DEF OInv
<1>0. PICK t \in Tasks \ known[q] :
         /\ at[q] = "save"
         /\ status' = [status EXCEPT ![plan[q]][t] = "PENDING"] \/ status' = status
         /\ known' = [known EXCEPT ![q] = @ \cup {t}]
         /\ \/ known[q] \cup {t} = Tasks /\ at' = [at EXCEPT ![q] = "execute"]
            \/ at' = [at EXCEPT ![q] = "save"]
         /\ UNCHANGED <<fingerprint, record, plans, plan, read, todo, running, done, marked, history>>
  BY DEF SaveStub, Goes, Lost
<1>a. plan[q] \in Plans
  BY <1>0 DEF OrchestrationTypes, PlansMade
<1>1. OrchestrationTypes'
  <2>1. status' \in [Plans -> [Tasks -> TaskStatus]]
    <3>1. "PENDING" \in TaskStatus
      BY DEF TaskStatus
    <3> QED
      BY <1>0, <1>a, <3>1, StatusTyped DEF OrchestrationTypes
  <2> QED
    BY <1>0, <1>a, <2>1 DEF OrchestrationTypes, Steps, history
<1>2. PlansMade'
  BY <1>0 DEF OrchestrationTypes, PlansMade
<1>3. MarksLater'
  BY <1>0 DEF OrchestrationTypes, MarksLater, history
<1>4. ReadsAreOld'
  BY <1>0 DEF OrchestrationTypes, ReadsAreOld
<1>5. StillMarks' /\ UnearnedOnlyAtClose'
  BY <1>0, <1>a, StatusBeforeMarks DEF OrchestrationTypes, TaskStatus, history
<1> QED
  BY <1>1, <1>2, <1>3, <1>4, <1>5

-----------------------------------------------------------------------------
(* runOrchestratedExecution, resumeOrchestratedExecution.                  *)

LEMMA RunStep ==
    ASSUME OInv, NEW q \in Requests, Run(q)
    PROVE  OInv'
<1> USE PlanNumbers DEF OInv
<1>0. /\ at[q] = "execute" /\ at' = [at EXCEPT ![q] = "running"] /\ todo' = [todo EXCEPT ![q] = known[q]]
      /\ UNCHANGED <<store, plans, plan, known, read, running, done, marked, history>>
  BY DEF Run, Goes
<1>1. OrchestrationTypes'
  BY <1>0 DEF OrchestrationTypes, Steps, NoRecord, store, history
<1>2. PlansMade'
  BY <1>0 DEF OrchestrationTypes, PlansMade, store, history
<1>3. MarksLater'
  BY <1>0 DEF OrchestrationTypes, MarksLater, store, history
<1>4. ReadsAreOld'
  BY <1>0 DEF OrchestrationTypes, PlansMade, ReadsAreOld, store, history, IsTerminal, NoRecord
<1> QED
  BY <1>0, <1>1, <1>2, <1>3, <1>4, PlansUntouched DEF OrchestrationTypes, MarksLater, PlansMade, Working, store, history

LEMMA ResumeStep ==
    ASSUME OInv, NEW q \in Requests, Resume(q)
    PROVE  OInv'
<1> USE PlanNumbers DEF OInv
<1>0. /\ at[q] = "execute" /\ at' = [at EXCEPT ![q] = "running"]
      /\ \E S \in SUBSET Tasks : todo' = [todo EXCEPT ![q] = S]
      /\ UNCHANGED <<store, plans, plan, known, read, running, done, marked, history>>
  <2>1. Remaining(plan[q]) \in SUBSET Tasks /\ SUBSET Saved(plan[q]) \subseteq SUBSET Tasks
    BY DEF Remaining, Saved
  <2> QED
    BY <2>1 DEF Resume, Goes
<1>1. OrchestrationTypes'
  <2>1. at' \in [Requests -> Steps]
    BY <1>0 DEF OrchestrationTypes, Steps
  <2>2. todo' \in [Requests -> SUBSET Tasks]
    <3>1. todo \in [Requests -> SUBSET Tasks]
      BY DEF OrchestrationTypes
    <3> QED
      BY ONLY <1>0, <3>1
  <2> QED
    BY <1>0, <2>1, <2>2 DEF OrchestrationTypes, store, history
<1>2. PlansMade'
  BY <1>0 DEF OrchestrationTypes, PlansMade, store, history
<1>3. MarksLater'
  BY <1>0 DEF OrchestrationTypes, MarksLater, store, history
<1>4. ReadsAreOld'
  BY <1>0 DEF OrchestrationTypes, PlansMade, ReadsAreOld, store, history, IsTerminal, NoRecord
<1> QED
  BY <1>0, <1>1, <1>2, <1>3, <1>4, PlansUntouched DEF OrchestrationTypes, MarksLater, PlansMade, Working, store, history

LEMMA StartTaskStep ==
    ASSUME OInv, NEW q \in Requests, StartTask(q)
    PROVE  OInv'
<1> USE PlanNumbers DEF OInv
<1>0. PICK t \in Tasks :
         /\ at[q] = "running" /\ running' = [running EXCEPT ![q] = @ \cup {t}]
         /\ status' = [status EXCEPT ![plan[q]][t] = "RUNNING"] \/ status' = status
         /\ UNCHANGED <<fingerprint, record, plans, at, plan, known, read, todo, done, marked, history>>
  BY DEF StartTask, Ready, OrchestrationTypes, StatusWritten, Written, Lost
<1>a. plan[q] \in Plans
  BY <1>0 DEF OrchestrationTypes, PlansMade
<1>1. OrchestrationTypes'
  <2>1. status' \in [Plans -> [Tasks -> TaskStatus]]
    <3>1. "RUNNING" \in TaskStatus
      BY DEF TaskStatus
    <3> QED
      BY <1>0, <1>a, <3>1, StatusTyped DEF OrchestrationTypes
  <2> QED
    BY <1>0, <1>a, <2>1 DEF OrchestrationTypes, Steps, history
<1>2. PlansMade'
  BY <1>0 DEF OrchestrationTypes, PlansMade
<1>3. MarksLater'
  BY <1>0 DEF OrchestrationTypes, MarksLater, history
<1>4. ReadsAreOld'
  BY <1>0 DEF OrchestrationTypes, ReadsAreOld
<1>5. StillMarks' /\ UnearnedOnlyAtClose'
  BY <1>0, <1>a, StatusBeforeMarks DEF OrchestrationTypes, TaskStatus, history
<1> QED
  BY <1>1, <1>2, <1>3, <1>4, <1>5

LEMMA EndTaskStep ==
    ASSUME OInv, NEW q \in Requests, EndTask(q)
    PROVE  OInv'
<1> USE PlanNumbers DEF OInv
<1>0. PICK t \in Tasks, won \in BOOLEAN :
         /\ at[q] = "running"
         /\ \/ status' = [status EXCEPT ![plan[q]][t] = IF won THEN "COMPLETED" ELSE "FAILED"]
            \/ status' = status
         /\ todo' = [todo EXCEPT ![q] = @ \ {t}] /\ running' = [running EXCEPT ![q] = @ \ {t}]
         /\ done' = [done EXCEPT ![q] = IF won THEN @ \cup {t} ELSE @]
         /\ earned' = IF won THEN [earned EXCEPT ![plan[q]] = @ \cup {t}] ELSE earned
         /\ UNCHANGED <<fingerprint, record, plans, at, plan, known, read, marked, torn, unmarked, unclosed>>
  BY DEF EndTask, Ends, OrchestrationTypes, StatusWritten, Written, Lost
<1>a. plan[q] \in Plans
  BY <1>0 DEF OrchestrationTypes, PlansMade
<1>1. OrchestrationTypes'
  <2>1. status' \in [Plans -> [Tasks -> TaskStatus]]
    <3>1. (IF won THEN "COMPLETED" ELSE "FAILED") \in TaskStatus
      BY DEF TaskStatus
    <3> QED
      BY <1>0, <1>a, <3>1, StatusTyped DEF OrchestrationTypes
  <2> QED
    BY <1>0, <1>a, <2>1 DEF OrchestrationTypes
<1>2. PlansMade'
  BY <1>0 DEF OrchestrationTypes, PlansMade
<1>3. MarksLater'
  BY <1>0 DEF OrchestrationTypes, MarksLater
<1>4. ReadsAreOld'
  BY <1>0 DEF OrchestrationTypes, ReadsAreOld
<1>5. StillMarks' /\ UnearnedOnlyAtClose'
  <2>1. (\A p \in Plans : earned[p] \subseteq earned'[p]) /\ (won => t \in earned'[plan[q]])
    BY <1>0, <1>a DEF OrchestrationTypes
  <2>2. CASE won
    BY <1>0, <1>a, <2>1, <2>2, StatusBeforeMarks DEF OrchestrationTypes, TaskStatus
  <2>3. CASE ~won
    BY <1>0, <1>a, <2>1, <2>3, StatusBeforeMarks DEF OrchestrationTypes, TaskStatus
  <2> QED
    BY <2>2, <2>3
<1> QED
  BY <1>1, <1>2, <1>3, <1>4, <1>5

LEMMA MergeStep ==
    ASSUME OInv, NEW q \in Requests, Merge(q)
    PROVE  OInv'
<1> USE PlanNumbers DEF OInv
<1>0. /\ at[q] = "running" /\ at' = [at EXCEPT ![q] = "mark"]
      /\ UNCHANGED <<store, plans, plan, known, read, todo, running, done, marked, history>>
  BY DEF Merge, Goes
<1>1. OrchestrationTypes'
  BY <1>0 DEF OrchestrationTypes, Steps, NoRecord, store, history
<1>2. PlansMade'
  BY <1>0 DEF OrchestrationTypes, PlansMade, store, history
<1>3. MarksLater'
  BY <1>0 DEF OrchestrationTypes, MarksLater, store, history
<1>4. ReadsAreOld'
  BY <1>0 DEF OrchestrationTypes, PlansMade, ReadsAreOld, store, history, IsTerminal, NoRecord
<1> QED
  BY <1>0, <1>1, <1>2, <1>3, <1>4, PlansUntouched DEF OrchestrationTypes, MarksLater, PlansMade, Working, store, history

-----------------------------------------------------------------------------
(* finalizeOrchestration, finalizeMerge.                                   *)

LEMMA MarkTaskStep ==
    ASSUME OInv, NEW q \in Requests, NEW t \in known[q] \ marked[q],
           at[q] = "mark", at' = at,
           \/ /\ status' = [status EXCEPT ![plan[q]][t] = "COMPLETED"]
              /\ unmarked' = [unmarked EXCEPT ![plan[q]] = @ \ {t}]
           \/ status' = status /\ unmarked' = [unmarked EXCEPT ![plan[q]] = @ \cup {t}],
           marked' = [marked EXCEPT ![q] = @ \cup {t}],
           UNCHANGED <<fingerprint, record, plans, plan, known, read, todo, running, done, earned, torn, unclosed>>
    PROVE  OInv'
<1> USE PlanNumbers DEF OInv
<1>a. plan[q] \in Plans /\ t \in Tasks
  BY DEF OrchestrationTypes, PlansMade
<1>b. /\ status' \in [Plans -> [Tasks -> TaskStatus]]
      /\ \A p \in Plans, u \in Tasks : p # plan[q] \/ u # t => status'[p][u] = status[p][u]
  <2>1. "COMPLETED" \in TaskStatus
    BY DEF TaskStatus
  <2> QED
    BY <1>a, <2>1, StatusTyped DEF OrchestrationTypes
<1>c. /\ unmarked' \in [Plans -> SUBSET Tasks]
      /\ \A p \in Plans, u \in Tasks : p # plan[q] \/ u # t => (u \in unmarked'[p] <=> u \in unmarked[p])
      /\ t \in unmarked'[plan[q]] \/ status'[plan[q]][t] = "COMPLETED"
  BY <1>a DEF OrchestrationTypes
<1>1. OrchestrationTypes'
  BY <1>a, <1>b, <1>c DEF OrchestrationTypes
<1>2. PlansMade'
  BY DEF OrchestrationTypes, PlansMade
<1>3. MarksLater'
  BY DEF OrchestrationTypes, MarksLater
<1>4. ReadsAreOld'
  BY DEF OrchestrationTypes, ReadsAreOld
<1>5. StillMarks'
  <2> SUFFICES ASSUME NEW p \in Plans \ torn, NEW u \in Tasks, p <= plans, status'[p][u] # "COMPLETED",
                      u \notin unmarked'[p]
               PROVE  \E r \in Requests : plan[r] = p /\ at[r] \in Working /\ u \notin marked'[r]
    BY DEF StillMarks
  <2>1. status'[p][u] = status[p][u] /\ (p # plan[q] \/ u # t) /\ u \notin unmarked[p]
    BY <1>a, <1>b, <1>c
  <2>2. PICK r \in Requests : plan[r] = p /\ at[r] \in Working /\ u \notin marked[r]
    BY <2>1 DEF StillMarks
  <2> QED
    BY <2>1, <2>2 DEF OrchestrationTypes
<1>6. UnearnedOnlyAtClose'
  <2> SUFFICES ASSUME NEW p \in Plans, NEW u \in Tasks, status'[p][u] = "COMPLETED", u \notin earned[p],
                      p \notin torn \cup unclosed, ~IsTerminal(record[p])
               PROVE  \E r \in Requests : plan[r] = p /\ at[r] \in {"mark", "merge", "merge write"}
    BY DEF UnearnedOnlyAtClose, IsTerminal
  <2>1. CASE p = plan[q]
    BY <2>1
  <2>2. CASE p # plan[q]
    BY <1>b, <2>2 DEF UnearnedOnlyAtClose
  <2> QED
    BY <2>1, <2>2
<1> QED
  BY <1>1, <1>2, <1>3, <1>4, <1>5, <1>6

LEMMA AllMarkedStep ==
    ASSUME OInv, NEW q \in Requests, at[q] = "mark",
           known[q] \subseteq marked[q], at' = [at EXCEPT ![q] = "merge"],
           UNCHANGED <<store, plans, plan, known, read, todo, running, done, marked, history>>
    PROVE  OInv'
<1> USE PlanNumbers DEF OInv
<1>0. /\ at[q] = "mark" /\ known[q] \subseteq marked[q] /\ at' = [at EXCEPT ![q] = "merge"]
      /\ UNCHANGED <<store, plans, plan, known, read, todo, running, done, marked, history>>
  OBVIOUS
<1>1. OrchestrationTypes'
  BY <1>0 DEF OrchestrationTypes, Steps, NoRecord, store, history
<1>2. PlansMade'
  BY <1>0 DEF OrchestrationTypes, PlansMade, store, history
<1>3. MarksLater'
  BY <1>0 DEF OrchestrationTypes, MarksLater, store, history
<1>4. ReadsAreOld'
  BY <1>0 DEF OrchestrationTypes, PlansMade, ReadsAreOld, store, history, IsTerminal, NoRecord
<1> QED
  <2>1. plan[q] \in torn \/ marked[q] = Tasks
    <3>1. marked[q] \subseteq Tasks /\ (plan[q] \in torn \/ known[q] = Tasks)
      BY <1>0 DEF OrchestrationTypes, MarksLater
    <3> QED
      BY <1>0, <3>1
  <2> QED
    BY <1>0, <1>1, <1>2, <1>3, <1>4, <2>1, PlansUntouched DEF OrchestrationTypes, store, history

LEMMA MarkStep ==
    ASSUME OInv, NEW q \in Requests, Mark(q)
    PROVE  OInv'
BY MarkTaskStep, AllMarkedStep DEF Mark, Goes, store, history, Written, Lost

LEMMA ReadRecordStep ==
    ASSUME OInv, NEW q \in Requests, ReadRecord(q)
    PROVE  OInv'
<1> USE PlanNumbers DEF OInv
<1>0. /\ read' = [read EXCEPT ![q] = record[plan[q]]]
      /\ \/ at[q] = "merge" /\ at' = [at EXCEPT ![q] = "merge write"]
         \/ at[q] = "complete" /\ at' = [at EXCEPT ![q] = "complete write"]
      /\ UNCHANGED <<store, plans, plan, known, todo, running, done, marked, history>>
  BY DEF ReadRecord, Goes
<1>a. plan[q] \in Plans
  BY <1>0 DEF OrchestrationTypes, PlansMade
<1>1. OrchestrationTypes'
  BY <1>0, <1>a DEF OrchestrationTypes, Steps, NoRecord, store, history
<1>2. PlansMade'
  BY <1>0, <1>a DEF OrchestrationTypes, PlansMade, store, history
<1>3. MarksLater'
  BY <1>0, <1>a DEF OrchestrationTypes, MarksLater, store, history
<1>4. ReadsAreOld'
  BY <1>0, <1>a DEF OrchestrationTypes, PlansMade, ReadsAreOld, store, history, IsTerminal, NoRecord
<1> QED
  BY <1>0, <1>1, <1>2, <1>3, <1>4, PlansUntouched DEF OrchestrationTypes, MarksLater, PlansMade, Working, store, history

\* A record that is written back is closed.
\* The plan of a request is one that was made.
LEMMA PlanOfRequest ==
    ASSUME OInv, NEW q \in Requests, plan[q] \in Plans
    PROVE  /\ plans \in Nat /\ plan[q] \in Nat /\ plan[q] <= plans
           /\ \A p \in Plans : p > plans => p # plan[q] /\ record[p] = NoRecord
BY PlanNumbers, OrchestrationAssumption DEF OInv, OrchestrationTypes, PlansMade

\* A step that marks nothing, and leaves those who work at work.
LEMMA StillAtWork ==
    ASSUME StillMarks, NEW q \in Requests, at[q] \notin Working,
           \A r \in Requests \ {q} : at'[r] = at[r],
           status' = status, plans' = plans, plan' = plan, marked' = marked, torn' = torn, unmarked' = unmarked
    PROVE  StillMarks'
<1> SUFFICES ASSUME NEW p \in Plans \ torn, NEW t \in Tasks, p <= plans, status[p][t] # "COMPLETED",
                    t \notin unmarked[p]
             PROVE  \E r \in Requests : plan[r] = p /\ at'[r] \in Working /\ t \notin marked[r]
  BY DEF StillMarks
<1>1. PICK r \in Requests : plan[r] = p /\ at[r] \in Working /\ t \notin marked[r]
  BY DEF StillMarks
<1> QED
  BY <1>1

LEMMA WrittenClosed ==
    ASSUME OInv, NEW q \in Requests, plan[q] \in Plans,
           at[q] \in {"merge write", "complete write"}, at'[q] \in {"complete", "finished"},
           \A r \in Requests \ {q} : at'[r] = at[r],
           OrchestrationTypes', IsTerminal(record'[plan[q]]), read'[q] = NoRecord,
           \A p \in Plans : p # plan[q] => record'[p] = record[p],
           \A r \in Requests \ {q} : read'[r] = read[r],
           fingerprint' = fingerprint, status' = status, plans' = plans, plan' = plan,
           known' = known, marked' = marked, earned' = earned, torn' = torn,
           unmarked' = unmarked, unclosed' = unclosed
    PROVE  OInv'
<1> USE PlanNumbers DEF OInv
<1>2. PlansMade'
  <2>1. \A p \in Plans : p > plans => p # plan[q] /\ record[p] = NoRecord
    BY PlanOfRequest
  <2>2. \A p \in Plans : p > plans => record'[p] = NoRecord
    BY <2>1, Zenon
  <2>3. \A r \in Requests : at'[r] \notin {"look", "create", "gone"} => plan[r] # NoPlan
    BY DEF PlansMade
  <2> QED
    BY <2>2, <2>3 DEF PlansMade
<1>3. MarksLater'
  BY DEF OrchestrationTypes, MarksLater
<1>4. ReadsAreOld'
  <2> SUFFICES ASSUME NEW r \in Requests, r # q, plan[r] # NoPlan, IsTerminal(read[r])
               PROVE  IsTerminal(record'[plan[r]])
    BY DEF ReadsAreOld, IsTerminal, NoRecord
  <2>1. plan[r] \in Plans /\ IsTerminal(record[plan[r]])
    BY DEF ReadsAreOld, OrchestrationTypes
  <2> QED
    BY <2>1
<1>5. StillMarks'
  BY StillAtWork DEF Working
<1>6. UnearnedOnlyAtClose'
  <2> SUFFICES ASSUME NEW p \in Plans, NEW u \in Tasks, status[p][u] = "COMPLETED", u \notin earned[p],
                      p \notin torn \cup unclosed, ~IsTerminal(record'[p])
               PROVE  \E r \in Requests : plan[r] = p /\ at'[r] \in {"mark", "merge", "merge write"}
    BY DEF UnearnedOnlyAtClose, IsTerminal
  <2>1. p # plan[q] /\ ~IsTerminal(record[p])
    OBVIOUS
  <2>2. PICK r \in Requests : plan[r] = p /\ at[r] \in {"mark", "merge", "merge write"}
    BY <2>1 DEF UnearnedOnlyAtClose
  <2> QED
    BY <2>1, <2>2
<1> QED
  BY <1>2, <1>3, <1>4, <1>5, <1>6

LEMMA WriteMergedStep ==
    ASSUME OInv, NEW q \in Requests, WriteMerged(q)
    PROVE  OInv'
<1> USE PlanNumbers DEF OInv
<1> DEFINE w == [state |-> "MERGED", output |-> done[q]]
<1>0. /\ at[q] = "merge write" /\ at' = [at EXCEPT ![q] = "complete"]
      /\ \/ record' = [record EXCEPT ![plan[q]] = w]
         \/ record' = record /\ IsTerminal(read[q])
      /\ read' = [read EXCEPT ![q] = NoRecord]
      /\ UNCHANGED <<fingerprint, status, plans, plan, known, todo, running, done, marked, history>>
  BY DEF WriteMerged, Goes
<1>a. plan[q] \in Plans
  BY <1>0 DEF OrchestrationTypes, PlansMade
<1>b. w \in Record /\ IsTerminal(w)
  BY DEF Record, State, OrchestrationTypes, IsTerminal
<1>c. IsTerminal(read[q]) => IsTerminal(record[plan[q]])
  BY <1>a DEF ReadsAreOld
<1>1. OrchestrationTypes'
  <2>1. record' \in [Plans -> Record \cup {NoRecord}]
    BY <1>0, <1>b DEF OrchestrationTypes
  <2> QED
    BY <1>0, <2>1 DEF OrchestrationTypes, Steps, history
<1>2. at'[q] = "complete" /\ \A r \in Requests \ {q} : at'[r] = at[r]
  BY <1>0 DEF OrchestrationTypes
<1>3. /\ IsTerminal(record'[plan[q]]) /\ read'[q] = NoRecord
      /\ \A p \in Plans : p # plan[q] => record'[p] = record[p]
      /\ \A r \in Requests \ {q} : read'[r] = read[r]
  BY <1>0, <1>a, <1>b, <1>c DEF OrchestrationTypes
<1> QED
  BY <1>0, <1>a, <1>1, <1>2, <1>3, WrittenClosed DEF history

LEMMA WriteCompletedStep ==
    ASSUME OInv, NEW q \in Requests, WriteCompleted(q)
    PROVE  OInv'
<1> USE PlanNumbers DEF OInv
<1> DEFINE w == [read[q] EXCEPT !.state = "COMPLETED"]
<1>0. /\ at[q] = "complete write" /\ at' = [at EXCEPT ![q] = "finished"]
      /\ record' = [record EXCEPT ![plan[q]] = w]
      /\ read' = [read EXCEPT ![q] = NoRecord]
      /\ UNCHANGED <<fingerprint, status, plans, plan, known, todo, running, done, marked, history>>
  BY DEF WriteCompleted, Goes
<1>a. plan[q] \in Plans
  BY <1>0 DEF OrchestrationTypes, PlansMade
<1>b. w \in Record /\ IsTerminal(w)
  <2>1. read[q] \in Record \cup {NoRecord}
    BY DEF OrchestrationTypes
  <2>2. CASE read[q] \in Record
    BY <2>2 DEF Record, State, IsTerminal
  <2>3. CASE read[q] = NoRecord
    <3>1. w = [state |-> "COMPLETED", output |-> NoOutput]
      BY <2>3 DEF NoRecord
    <3> QED
      BY <3>1 DEF Record, State, IsTerminal
  <2> QED
    BY <2>1, <2>2, <2>3
<1>1. OrchestrationTypes'
  <2>1. record' \in [Plans -> Record \cup {NoRecord}]
    BY <1>0, <1>b DEF OrchestrationTypes
  <2> QED
    BY <1>0, <2>1 DEF OrchestrationTypes, Steps, history
<1>2. at'[q] = "finished" /\ \A r \in Requests \ {q} : at'[r] = at[r]
  BY <1>0 DEF OrchestrationTypes
<1>3. /\ IsTerminal(record'[plan[q]]) /\ read'[q] = NoRecord
      /\ \A p \in Plans : p # plan[q] => record'[p] = record[p]
      /\ \A r \in Requests \ {q} : read'[r] = read[r]
  BY <1>0, <1>a, <1>b DEF OrchestrationTypes
<1> QED
  BY <1>0, <1>a, <1>1, <1>2, <1>3, WrittenClosed DEF history

LEMMA CloseFailsStep ==
    ASSUME OInv, NEW q \in Requests, CloseFails(q)
    PROVE  OInv'
<1> USE PlanNumbers DEF OInv
<1>0. /\ at[q] \in {"merge", "merge write", "complete", "complete write"}
      /\ at' = [at EXCEPT ![q] = "finished"] /\ read' = [read EXCEPT ![q] = NoRecord]
      /\ unclosed' = unclosed \cup {plan[q]}
      /\ UNCHANGED <<store, plans, plan, known, todo, running, done, marked, earned, torn, unmarked>>
  BY DEF CloseFails, Goes
<1>a. plan[q] \in Plans
  BY <1>0 DEF OrchestrationTypes, PlansMade
<1>1. OrchestrationTypes'
  <2>1. unclosed' \subseteq Plans
    BY <1>0, <1>a DEF OrchestrationTypes
  <2> QED
    BY <1>0, <2>1 DEF OrchestrationTypes, Steps, NoRecord, store
<1>2. PlansMade'
  BY <1>0 DEF OrchestrationTypes, PlansMade, store
<1>3. MarksLater'
  BY <1>0 DEF OrchestrationTypes, MarksLater, store
<1>4. ReadsAreOld'
  BY <1>0 DEF OrchestrationTypes, PlansMade, ReadsAreOld, store, IsTerminal, NoRecord
<1> QED
  BY <1>0, <1>1, <1>2, <1>3, <1>4, PlansUntouched DEF OrchestrationTypes, Working, store

LEMMA CrashStep ==
    ASSUME OInv, NEW q \in Requests, Crash(q)
    PROVE  OInv'
<1> USE PlanNumbers DEF OInv
<1>0. /\ at[q] \notin {"look", "gone", "finished"} /\ at' = [at EXCEPT ![q] = "gone"]
      /\ \/ plan[q] = NoPlan /\ torn' = torn
         \/ plan[q] # NoPlan /\ torn' = torn \cup {plan[q]}
      /\ read' = [read EXCEPT ![q] = NoRecord] /\ todo' = [todo EXCEPT ![q] = {}]
      /\ done' = [done EXCEPT ![q] = {}] /\ marked' = [marked EXCEPT ![q] = {}]
      /\ known' = [known EXCEPT ![q] = {}] /\ running' = [running EXCEPT ![q] = {}]
      /\ UNCHANGED <<store, plans, plan, earned, unmarked, unclosed>>
  BY DEF Crash, Goes, Fresh
<1>1. OrchestrationTypes'
  BY <1>0 DEF OrchestrationTypes, Steps, NoRecord, store, history
<1>2. PlansMade'
  BY <1>0 DEF OrchestrationTypes, PlansMade, store, history
<1>3. MarksLater'
  BY <1>0 DEF OrchestrationTypes, MarksLater, store, history
<1>4. ReadsAreOld'
  BY <1>0 DEF OrchestrationTypes, PlansMade, ReadsAreOld, store, history, IsTerminal, NoRecord
<1> QED
  BY <1>0, <1>1, <1>2, <1>3, <1>4, PlansUntouched DEF OrchestrationTypes, MarksLater, PlansMade, Working, store, history

-----------------------------------------------------------------------------
LEMMA OrchestrationStep == OInv /\ [Next]_vars => OInv'
<1> SUFFICES ASSUME OInv, [Next]_vars PROVE OInv'
  OBVIOUS
<1>1. CASE UNCHANGED vars
  <2>1. UNCHANGED <<fingerprint, record, status, plans, at, plan, known, read, todo, running, done,
                  marked, earned, torn, unmarked, unclosed>>
    BY <1>1 DEF vars, store, request, history
  <2>2. OrchestrationTypes' /\ PlansMade' /\ MarksLater'
    BY <2>1 DEF OInv, OrchestrationTypes, PlansMade, MarksLater
  <2>3. ReadsAreOld' /\ StillMarks'
    BY <2>1 DEF OInv, ReadsAreOld, StillMarks
  <2>4. UnearnedOnlyAtClose'
    BY <2>1 DEF OInv, UnearnedOnlyAtClose, IsTerminal
  <2> QED
    BY <2>2, <2>3, <2>4 DEF OInv
<1>2. ASSUME NEW q \in Requests, Step(q) \/ Crash(q) PROVE OInv'
  BY <1>2, LookStep, CheckActiveStep, LoadStep, CreateStep, RegisterStep, SaveStubStep, RunStep,
     ResumeStep, StartTaskStep, EndTaskStep, MergeStep, MarkStep, ReadRecordStep, WriteMergedStep,
     WriteCompletedStep, CloseFailsStep, CrashStep DEF Step, Prepare, Carry, Finalize
<1> QED
  BY <1>1, <1>2 DEF Next

\* The invariant holds of every behaviour.
THEOREM OrchestrationInvariance == Spec => []OInv
BY OrchestrationStart, OrchestrationStep, PTL DEF Spec

\* Whatever is stored and held is of its type.
THEOREM OrchestrationTypeCorrect == Spec => []TypeOK
<1>1. OInv => TypeOK
  BY DEF OInv, OrchestrationTypes, TypeOK
<1> QED
  BY <1>1, OrchestrationInvariance, PTL

LEMMA OutputStart == Init => OutputInv
BY DEF Init, OutputInv, IsTerminal, NoRecord

\* A step that leaves the records alone, and does not lead to the end of a closing.
LEMMA OutputsUntouched ==
    ASSUME OInv, OutputInv, NEW q \in Requests, record' = record,
           at'[q] \notin {"complete", "complete write"},
           \A r \in Requests \ {q} : at'[r] = at[r] /\ plan'[r] = plan[r] /\ read'[r] = read[r]
    PROVE  OutputInv'
<1>1. \A r \in Requests : at'[r] \in {"complete", "complete write"} =>
          r # q /\ at'[r] = at[r] /\ plan'[r] = plan[r] /\ read'[r] = read[r]
  OBVIOUS
<1> QED
  BY <1>1 DEF OutputInv, IsTerminal

\* A step that writes a record of the plan of q, closed and with an output.
LEMMA OutputWritten ==
    ASSUME OInv, OutputInv, NEW q \in Requests, plan[q] \in Plans, plan' = plan,
           \A p \in Plans : p # plan[q] => record'[p] = record[p],
           IsTerminal(record'[plan[q]]), record'[plan[q]].output # NoOutput,
           at'[q] # "complete write",
           \A r \in Requests \ {q} : at'[r] = at[r] /\ read'[r] = read[r]
    PROVE  OutputInv'
<1>1. \A p \in Plans : IsTerminal(record'[p]) => record'[p].output # NoOutput
  BY DEF OutputInv, IsTerminal
<1>2. \A r \in Requests : at'[r] = "complete" => IsTerminal(record'[plan[r]])
  <2> SUFFICES ASSUME NEW r \in Requests, at'[r] = "complete" PROVE IsTerminal(record'[plan[r]])
    OBVIOUS
  <2>1. CASE r = q
    BY <2>1
  <2>2. CASE r # q
    <3>1. at[r] = "complete" /\ plan[r] \in Plans
      BY <2>2 DEF OInv, OrchestrationTypes, PlansMade
    <3> QED
      BY <3>1 DEF OutputInv, IsTerminal
  <2> QED
    BY <2>1, <2>2
<1>3. \A r \in Requests : at'[r] = "complete write" => IsTerminal(read'[r]) /\ read'[r].output # NoOutput
  BY DEF OutputInv, IsTerminal
<1> QED
  BY <1>1, <1>2, <1>3 DEF OutputInv

LEMMA OutputStep == OInv /\ OutputInv /\ [Next]_vars => OutputInv'
<1> SUFFICES ASSUME OInv, OutputInv, [Next]_vars PROVE OutputInv'
  OBVIOUS
<1>1. CASE UNCHANGED vars
  BY <1>1 DEF OutputInv, IsTerminal, vars, store, request
<1>2. ASSUME NEW q \in Requests, Create(q) PROVE OutputInv'
  <2>1. /\ record' = [record EXCEPT ![plans + 1] = [state |-> "RUNNING", output |-> NoOutput]]
        /\ at' = [at EXCEPT ![q] = "register"] /\ plan' = [plan EXCEPT ![q] = plans + 1] /\ read' = read
        /\ at[q] = "create" /\ plans < MaxPlans
    BY <1>2 DEF Create, Goes
  <2>2. \A p \in Plans : IsTerminal(record'[p]) => record'[p] = record[p]
    BY <2>1 DEF OInv, OrchestrationTypes, IsTerminal
  <2>3. \A r \in Requests : at'[r] \in {"complete", "complete write"} => r # q /\ at[r] = at'[r]
    BY <2>1 DEF OInv, OrchestrationTypes
  <2>4. \A r \in Requests : at'[r] = "complete" => IsTerminal(record'[plan'[r]])
    <3> SUFFICES ASSUME NEW r \in Requests, at'[r] = "complete" PROVE IsTerminal(record'[plan'[r]])
      OBVIOUS
    <3>1. r # q /\ at[r] = "complete" /\ plan'[r] = plan[r] /\ plan[r] \in Plans /\ plan[r] <= plans
      BY <2>1, <2>3 DEF OInv, OrchestrationTypes, PlansMade
    <3>2. plan[r] # plans + 1
      BY <3>1, PlanNumbers, OrchestrationAssumption DEF OInv, OrchestrationTypes
    <3> QED
      BY <2>1, <3>1, <3>2 DEF OutputInv, OInv, OrchestrationTypes, IsTerminal
  <2> QED
    BY <2>1, <2>2, <2>3, <2>4 DEF OutputInv, IsTerminal
<1>3. ASSUME NEW q \in Requests, WriteMerged(q) PROVE OutputInv'
  <2> DEFINE w == [state |-> "MERGED", output |-> done[q]]
  <2>0. plan[q] \in Plans /\ at[q] = "merge write"
    BY <1>3 DEF WriteMerged, OInv, OrchestrationTypes, PlansMade
  <2>1. done[q] # NoOutput
    BY OutputAssumption DEF OInv, OrchestrationTypes, NoOutput
  <2>2. at' = [at EXCEPT ![q] = "complete"] /\ plan' = plan /\ read' = [read EXCEPT ![q] = NoRecord]
    BY <1>3 DEF WriteMerged, Goes
  <2>a. at'[q] = "complete" /\ \A r \in Requests \ {q} : at'[r] = at[r] /\ read'[r] = read[r]
    BY <2>2 DEF OInv, OrchestrationTypes
  <2>3. CASE ~IsTerminal(read[q])
    <3>1. record' = [record EXCEPT ![plan[q]] = w]
      BY <1>3, <2>3 DEF WriteMerged
    <3>2. record'[plan[q]] = w /\ \A p \in Plans : p # plan[q] => record'[p] = record[p]
      BY <2>0, <3>1 DEF OInv, OrchestrationTypes
    <3>3. IsTerminal(w) /\ w.output # NoOutput
      BY <2>1 DEF IsTerminal
    <3> HIDE DEF w
    <3> QED
      BY <2>0, <2>2, <2>a, <3>2, <3>3, OutputWritten
  <2>4. CASE IsTerminal(read[q])
    <3>1. record' = record
      BY <1>3, <2>4 DEF WriteMerged
    <3>2. IsTerminal(record[plan[q]]) /\ record[plan[q]].output # NoOutput
      BY <2>0, <2>4, PlanNumbers DEF OInv, ReadsAreOld, OutputInv
    <3> QED
      BY <2>0, <2>2, <2>a, <3>1, <3>2, OutputWritten
  <2> QED
    BY <2>3, <2>4
<1>4. ASSUME NEW q \in Requests, WriteCompleted(q) PROVE OutputInv'
  <2> DEFINE w == [read[q] EXCEPT !.state = "COMPLETED"]
  <2>0. plan[q] \in Plans /\ at[q] = "complete write"
    BY <1>4 DEF WriteCompleted, OInv, OrchestrationTypes, PlansMade
  <2>1. IsTerminal(read[q]) /\ read[q].output # NoOutput /\ read[q] \in Record \cup {NoRecord}
    BY <2>0 DEF OutputInv, OInv, OrchestrationTypes
  <2>2. read[q] \in Record
    BY <2>1 DEF IsTerminal, NoRecord
  <2>3. IsTerminal(w) /\ w.output # NoOutput
    BY <2>1, <2>2 DEF Record, IsTerminal
  <2>4. record' = [record EXCEPT ![plan[q]] = w] /\ at' = [at EXCEPT ![q] = "finished"] /\ plan' = plan
        /\ read' = [read EXCEPT ![q] = NoRecord]
    BY <1>4 DEF WriteCompleted, Goes
  <2>5. record'[plan[q]] = w /\ \A p \in Plans : p # plan[q] => record'[p] = record[p]
    BY <2>0, <2>4 DEF OInv, OrchestrationTypes
  <2>6. at'[q] = "finished" /\ \A r \in Requests \ {q} : at'[r] = at[r] /\ read'[r] = read[r]
    BY <2>4 DEF OInv, OrchestrationTypes
  <2> HIDE DEF w
  <2> QED
    BY <2>0, <2>3, <2>4, <2>5, <2>6, OutputWritten
<1>5. ASSUME NEW q \in Requests, ReadRecord(q) PROVE OutputInv'
  <2>0. plan[q] \in Plans /\ record' = record /\ plan' = plan /\ read' = [read EXCEPT ![q] = record[plan[q]]]
        /\ \/ at[q] = "merge" /\ at' = [at EXCEPT ![q] = "merge write"]
           \/ at[q] = "complete" /\ at' = [at EXCEPT ![q] = "complete write"]
    BY <1>5 DEF ReadRecord, Goes, store, OInv, OrchestrationTypes, PlansMade
  <2>1. at'[q] # "complete" /\ \A r \in Requests \ {q} : at'[r] = at[r] /\ read'[r] = read[r]
    BY <2>0 DEF OInv, OrchestrationTypes
  <2>2. at'[q] = "complete write" => IsTerminal(read'[q]) /\ read'[q].output # NoOutput
    <3>1. SUFFICES ASSUME at'[q] = "complete write" PROVE IsTerminal(read'[q]) /\ read'[q].output # NoOutput
      OBVIOUS
    <3>2. at[q] = "complete" /\ read'[q] = record[plan[q]]
      BY <2>0, <3>1 DEF OInv, OrchestrationTypes
    <3> QED
      BY <2>0, <3>2 DEF OutputInv
  <2> QED
    BY <2>0, <2>1, <2>2 DEF OutputInv, IsTerminal
<1>6. ASSUME NEW q \in Requests,
             \/ Look(q) \/ CheckActive(q) \/ Load(q) \/ Register(q) \/ SaveStub(q)
             \/ Run(q) \/ Resume(q) \/ StartTask(q) \/ EndTask(q) \/ Merge(q) \/ Mark(q)
             \/ CloseFails(q) \/ Crash(q)
      PROVE  OutputInv'
  <2>1. record' = record
    BY <1>6 DEF Look, CheckActive, Load, Register, SaveStub, Run, Resume, StartTask, EndTask, Merge, Mark,
                CloseFails, Crash, store
  <2>2. at'[q] \notin {"complete", "complete write"}
    BY <1>6 DEF Look, CheckActive, Load, Register, SaveStub, Run, Resume, StartTask, EndTask, Merge, Mark,
                CloseFails, Crash, Goes, OInv, OrchestrationTypes
  <2>3. \A r \in Requests \ {q} : at'[r] = at[r] /\ plan'[r] = plan[r] /\ read'[r] = read[r]
    BY <1>6 DEF Look, CheckActive, Load, Register, SaveStub, Run, Resume, StartTask, EndTask, Merge, Mark,
                CloseFails, Crash, Fresh, Goes, OInv, OrchestrationTypes
  <2> QED
    BY <2>1, <2>2, <2>3, OutputsUntouched
<1> QED
  BY <1>1, <1>2, <1>3, <1>4, <1>5, <1>6 DEF Next, Step, Prepare, Carry, Finalize

\* However many requests share a plan, and whatever Redis loses: what it has as
\* COMPLETED is, until one of them closes the plan or fails to; a closed plan nobody
\* works on leaves no task open but those whose last mark was lost, unless it was
\* taken up in part or somebody died over it; and what is closed has an output.
THEOREM TrueTillClosed == Spec => []TasksAreTrueTillClosed
<1>0. Spec => []OutputInv
  BY OrchestrationInvariance, OutputStart, OutputStep, PTL DEF Spec
<1>1. OInv /\ OutputInv => TasksAreTrueTillClosed
  <2> SUFFICES ASSUME OInv, OutputInv PROVE ClosedPlanIsSettled
    BY DEF OInv, OutputInv, IsTerminal, ClosedPlanHasOutput, TasksAreTrueTillClosed
  <2> SUFFICES ASSUME NEW p \in Plans, record[p].state = "COMPLETED", p \notin torn,
                      \A q \in Requests : plan[q] = p => at[q] = "finished", NEW t \in Tasks \ unmarked[p],
                      status[p][t] # "COMPLETED"
               PROVE  FALSE
    BY DEF ClosedPlanIsSettled
  <2>1. p <= plans
    BY PlanNumbers DEF OInv, PlansMade, OrchestrationTypes, NoRecord
  <2>2. PICK q \in Requests : plan[q] = p /\ at[q] \in Working
    BY <2>1 DEF OInv, StillMarks
  <2> QED
    BY <2>2 DEF Working
<1> QED
  BY <1>0, <1>1, OrchestrationInvariance, PTL

\* A closed plan is opened again by nothing but a request that had read it while it
\* was open, and closes it with its own output.
THEOREM ReopenedByRace == Spec => ReopenedOnlyByRace
<1>1. OInv /\ [Next]_vars =>
         [\A p \in Plans : record[p].state = "COMPLETED" /\ record'[p].state # "COMPLETED" =>
             \E q \in Requests : plan[q] = p /\ ~IsTerminal(read[q]) /\ record'[p].output = done[q]]_vars
  <2> SUFFICES ASSUME OInv, [Next]_vars, NEW p \in Plans,
                      record[p].state = "COMPLETED", record'[p].state # "COMPLETED"
               PROVE  \E q \in Requests : plan[q] = p /\ ~IsTerminal(read[q]) /\ record'[p].output = done[q]
    OBVIOUS
  <2>1. record' # record
    OBVIOUS
  <2>2. PICK q \in Requests : Create(q) \/ WriteMerged(q) \/ WriteCompleted(q)
    BY <2>1 DEF Next, vars, store, Step, Prepare, Carry, Finalize, Crash, Look, CheckActive, Load, Register,
                SaveStub, Run, Resume, StartTask, EndTask, Merge, Mark, ReadRecord, CloseFails
  <2>3. CASE Create(q)
    <3>1. p = plans + 1
      BY <2>3 DEF Create, OInv, OrchestrationTypes
    <3>2. record[p] = NoRecord
      BY <3>1, PlanNumbers DEF OInv, PlansMade, OrchestrationTypes
    <3> QED
      BY <3>2 DEF NoRecord
  <2>4. CASE WriteMerged(q)
    <3>1. /\ ~IsTerminal(read[q])
          /\ record' = [record EXCEPT ![plan[q]] = [state |-> "MERGED", output |-> done[q]]]
      BY <2>1, <2>4 DEF WriteMerged
    <3> QED
      BY <3>1 DEF OInv, OrchestrationTypes
  <2>5. CASE WriteCompleted(q)
    <3>1. record' = [record EXCEPT ![plan[q]] = [read[q] EXCEPT !.state = "COMPLETED"]]
          /\ read[q] \in Record \cup {NoRecord}
      BY <2>5 DEF WriteCompleted, OInv, OrchestrationTypes
    <3>2. [read[q] EXCEPT !.state = "COMPLETED"].state = "COMPLETED"
      BY <3>1 DEF Record, NoRecord
    <3> QED
      BY <3>1, <3>2 DEF OInv, OrchestrationTypes
  <2> QED
    BY <2>2, <2>3, <2>4, <2>5
<1> QED
  BY <1>1, OrchestrationInvariance, PTL DEF Spec, ReopenedOnlyByRace
===============================================================================
