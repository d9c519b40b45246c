------------------------- MODULE SubagentPool_proofs ------------------------
(***************************************************************************)
(* Proofs about SubagentPool, for any number of runs, any plans and any    *)
(* dependencies, cyclic ones included, and any limits.                     *)
(*                                                                         *)
(* The count of active executions is wrong: every hand-over leaves it one  *)
(* too high.  What keeps the limit nevertheless is that it is never too    *)
(* low, and that a hand-over gives away the slot of the one that ends.     *)
(*                                                                         *)
(* The second half shows that SubagentPool implements TaskExecution: every *)
(* step of the scheduler and of the executor is a step of the abstract     *)
(* specification or changes nothing that it sees.  Beyond PoolInv this     *)
(* needs to know that a task of a run is in one place only, and that what  *)
(* waits in the queue waits for the slot alone.                            *)
(***************************************************************************)
EXTENDS SubagentPool, FiniteSetTheorems, TLAPS

\* The scheduler's sets hold tasks of the plan.
SchedulerOK ==
    /\ plan \in [Runs -> Plans]
    /\ {remaining, completed, failed, skipped} \subseteq [Runs -> SUBSET Tasks]
    /\ \A r \in Runs : remaining[r] \subseteq SetOf(plan[r])

\* An execution that may still call a model has one left to call.
StepsOK ==
    /\ step \in [Runs -> [Tasks -> Step]]
    /\ tried \in [Runs -> [Tasks -> 0 .. Models]]
    /\ status \in [Tasks -> Status]
    /\ \A r \in Runs, t \in Tasks :
          step[r][t] \in {"queued", "granted", "calling"} => tried[r][t] < Models

\* The queue lists executions that are queued, each once.
QueueOK ==
    /\ queue \in Seq(Executions)
    /\ \A i \in DOMAIN queue : step[queue[i][1]][queue[i][2]] = "queued"
    /\ \A i, j \in DOMAIN queue : queue[i] = queue[j] => i = j

\* active is never less than the slots in use.
SlotsOK ==
    /\ active \in Nat
    /\ Cardinality(Holders) <= active
    /\ Cardinality(Holders) <= MaxActive

PoolInv == SchedulerOK /\ StepsOK /\ QueueOK /\ SlotsOK

-----------------------------------------------------------------------------
\* There are finitely many executions.
LEMMA ExecutionsFinite == IsFiniteSet(Executions)
  BY PoolAssumption, FS_Product DEF Executions

\* So the holders of slots can be counted.
LEMMA HoldersFinite ==
    /\ IsFiniteSet(Holders) /\ Cardinality(Holders) \in Nat
    /\ IsFiniteSet(Holders') /\ Cardinality(Holders') \in Nat
<1>1. Holders \subseteq Executions /\ Holders' \subseteq Executions
  BY DEF Holders
<1> QED
  BY <1>1, ExecutionsFinite, FS_Subset, FS_CardinalityType

\* A batch lists tasks that wait and are ready, each once.
LEMMA BatchKnown ==
    ASSUME SchedulerOK, NEW r \in Runs, NEW batch \in Batches(r)
    PROVE  /\ batch \in Seq(Ready(r))
           /\ \A i, j \in 1 .. Len(batch) : batch[i] = batch[j] => i = j
<1> DEFINE S == Ready(r)
           n == Cardinality(S)
<1>1. S \subseteq SetOf(plan[r]) /\ S \subseteq Tasks
  BY DEF Ready, SchedulerOK
<1>2. n \in Nat
  BY <1>1, PoolAssumption, FS_Subset, FS_CardinalityType
<1>3. \A t \in S : Position(r, t) \in Nat
  <2> SUFFICES ASSUME NEW t \in S PROVE Position(r, t) \in Nat
    OBVIOUS
  <2>1. \E i \in DOMAIN plan[r] : plan[r][i] = t
    BY <1>1 DEF SetOf
  <2>2. Position(r, t) \in DOMAIN plan[r]
    BY <2>1 DEF Position
  <2>3. plan[r] \in Seq(Tasks)
    BY PoolAssumption DEF SchedulerOK
  <2> QED
    BY <2>2, <2>3
<1>4. PICK q \in InOrder(r, S) : batch = SubSeq(q, 1, Least(Len(q), MaxParallel))
  BY DEF Batches
<1>5. q \in [1 .. n -> S]
  BY <1>4 DEF InOrder
<1>6. q \in Seq(S) /\ Len(q) = n
  BY <1>2, <1>5
<1>7. \A i, j \in 1 .. n : q[i] = q[j] => i = j
  <2> SUFFICES ASSUME NEW i \in 1 .. n, NEW j \in 1 .. n, i < j PROVE q[i] # q[j]
    BY <1>2
  <2>1. Position(r, q[i]) < Position(r, q[j])
    BY <1>4, <1>5 DEF InOrder
  <2>2. q[i] \in S /\ q[j] \in S
    BY <1>5
  <2> QED
    BY <1>3, <2>1, <2>2
<1>8. Least(n, MaxParallel) \in 0 .. n
  BY <1>2, PoolAssumption DEF Least
<1> HIDE DEF S, n
<1>9. batch \in Seq(S) /\ Len(batch) = Least(n, MaxParallel)
      /\ \A i \in 1 .. Len(batch) : batch[i] = q[i]
  BY <1>2, <1>4, <1>6, <1>8
<1> QED
  BY <1>2, <1>7, <1>8, <1>9 DEF S

-----------------------------------------------------------------------------
\* Starting a batch: what becomes of its tasks, the queue and the count.
LEMMA AcquireOK ==
    ASSUME PoolInv, NEW r \in Runs, InProgress(r) = {},
           NEW batch \in Seq(Tasks), \A i, j \in 1 .. Len(batch) : batch[i] = batch[j] => i = j,
           AcquireSlots(r, batch), status' = status
    PROVE  StepsOK' /\ QueueOK' /\ SlotsOK'
<1> DEFINE n == Least(Len(batch), Free)
           granted == {batch[i] : i \in 1 .. n}
           listed == SetOf(batch)
           waiting == [i \in 1 .. Len(batch) - n |-> <<r, batch[n + i]>>]
<1>1. n \in 0 .. Len(batch) /\ n <= Free /\ Free \in Nat
  BY PoolAssumption DEF Least, Free, PoolInv, SlotsOK
<1>2. granted \subseteq listed /\ listed \subseteq Tasks
  BY <1>1 DEF SetOf
<1>3. \A t \in Tasks : step[r][t] = "idle"
  BY DEF InProgress
<1>4. /\ step' = [step EXCEPT ![r] = [t \in Tasks |->
                    IF t \in granted THEN "granted"
                    ELSE IF t \in listed THEN "queued" ELSE step[r][t]]]
      /\ tried' = [tried EXCEPT ![r] = [t \in Tasks |->
                     IF t \in listed THEN 0 ELSE tried[r][t]]]
      /\ active' = active + n /\ queue' = queue \o waiting
  BY DEF AcquireSlots, PoolInv, StepsOK
<1> HIDE DEF n, granted, listed, waiting
<1>5. step \in [Runs -> [Tasks -> Step]] /\ tried \in [Runs -> [Tasks -> 0 .. Models]]
  BY DEF PoolInv, StepsOK
<1>6. /\ \A s \in Runs \ {r} : step'[s] = step[s] /\ tried'[s] = tried[s]
      /\ \A t \in Tasks :
            /\ step'[r][t] = IF t \in granted THEN "granted"
                            ELSE IF t \in listed THEN "queued" ELSE "idle"
            /\ tried'[r][t] = IF t \in listed THEN 0 ELSE tried[r][t]
  BY <1>3, <1>4, <1>5
<1>7. StepsOK'
  <2>1. step' \in [Runs -> [Tasks -> Step]]
    BY <1>3, <1>4, <1>5 DEF Step
  <2>2. tried' \in [Runs -> [Tasks -> 0 .. Models]]
    BY <1>4, <1>5, PoolAssumption
  <2>3. ASSUME NEW s \in Runs, NEW t \in Tasks,
               step'[s][t] \in {"queued", "granted", "calling"}
        PROVE  tried'[s][t] < Models
    <3>1. CASE s = r
      <4>1. t \in listed
        BY <1>2, <1>6, <2>3, <3>1
      <4>2. tried'[r][t] = 0
        BY <1>6, <4>1
      <4> QED
        BY <3>1, <4>2, PoolAssumption
    <3>2. CASE s # r
      <4>1. step'[s] = step[s] /\ tried'[s] = tried[s]
        BY <1>6, <3>2
      <4> QED
        BY <2>3, <4>1 DEF PoolInv, StepsOK
    <3> QED
      BY <3>1, <3>2
  <2> QED
    BY <2>1, <2>2, <2>3 DEF PoolInv, StepsOK
<1>8. QueueOK'
  <2>1. /\ waiting \in Seq(Executions) /\ Len(waiting) = Len(batch) - n
        /\ \A i \in 1 .. Len(waiting) : waiting[i] = <<r, batch[n + i]>>
    BY <1>1 DEF waiting, Executions
  <2>2. queue \in Seq(Executions)
    BY DEF PoolInv, QueueOK
  <2>3. ASSUME NEW i \in 1 .. Len(queue)
        PROVE  queue[i] \in Executions /\ queue[i][1] \in Runs \ {r} /\ queue[i][2] \in Tasks
    <3>1. queue[i] \in Runs \X Tasks /\ step[queue[i][1]][queue[i][2]] = "queued"
      BY <2>2 DEF PoolInv, QueueOK, Executions
    <3>2. queue[i][1] \in Runs /\ queue[i][2] \in Tasks
      BY <3>1
    <3> QED
      BY <1>3, <3>1, <3>2 DEF Executions
  <2>4. /\ queue' \in Seq(Executions) /\ Len(queue') = Len(queue) + Len(waiting)
        /\ \A i \in 1 .. Len(queue) : queue'[i] = queue[i]
        /\ \A i \in Len(queue) + 1 .. Len(queue') : queue'[i] = waiting[i - Len(queue)]
    <3>1. waiting \in Seq(Executions) /\ queue' = queue \o waiting
      BY <1>4, <2>1
    <3> HIDE DEF Executions
    <3>2. queue' \in Seq(Executions) /\ Len(queue') = Len(queue) + Len(waiting)
      BY <2>2, <3>1
    <3>3. \A i \in 1 .. Len(queue) + Len(waiting) :
             queue'[i] = IF i <= Len(queue) THEN queue[i] ELSE waiting[i - Len(queue)]
      BY <2>2, <3>1
    <3>4. Len(queue) \in Nat /\ Len(waiting) \in Nat
      BY <2>2, <3>1
    <3> QED
      BY <3>2, <3>3, <3>4
  <2>5. ASSUME NEW i \in 1 .. Len(waiting)
        PROVE  batch[n + i] \in listed \ granted
    <3>1. n + i \in 1 .. Len(batch)
      BY <1>1, <2>1
    <3> QED
      BY <1>1, <3>1 DEF listed, granted, SetOf
  <2>6. ASSUME NEW i \in 1 .. Len(queue)
        PROVE  step'[queue[i][1]][queue[i][2]] = "queued"
    <3>1. step[queue[i][1]][queue[i][2]] = "queued"
      BY <2>2 DEF PoolInv, QueueOK
    <3> QED
      BY <1>6, <2>3, <3>1
  <2>7. \A i \in 1 .. Len(waiting) : step'[waiting[i][1]][waiting[i][2]] = "queued"
    BY <1>2, <1>6, <2>1, <2>5
  <2>8. \A i \in 1 .. Len(queue') : step'[queue'[i][1]][queue'[i][2]] = "queued"
    <3>1. Len(queue) \in Nat /\ Len(waiting) \in Nat
      BY <2>1, <2>2
    <3>2. \A i \in Len(queue) + 1 .. Len(queue') : i - Len(queue) \in 1 .. Len(waiting)
      BY <2>4, <3>1
    <3>3. \A i \in 1 .. Len(queue') : i \in 1 .. Len(queue) \/ i \in Len(queue) + 1 .. Len(queue')
      BY <2>4, <3>1
    <3>4. ASSUME NEW i \in 1 .. Len(queue)
          PROVE  step'[queue'[i][1]][queue'[i][2]] = "queued"
      <4>1. queue'[i] = queue[i]
        BY <2>4
      <4> QED
        BY <2>6, <4>1
    <3>5. ASSUME NEW i \in Len(queue) + 1 .. Len(queue')
          PROVE  step'[queue'[i][1]][queue'[i][2]] = "queued"
      <4>1. queue'[i] = waiting[i - Len(queue)] /\ i - Len(queue) \in 1 .. Len(waiting)
        BY <2>4, <3>2
      <4> QED
        BY <2>7, <4>1
    <3> QED
      BY <3>3, <3>4, <3>5
  <2>9. ASSUME NEW i \in 1 .. Len(queue'), NEW j \in 1 .. Len(queue'), queue'[i] = queue'[j]
        PROVE  i = j
    <3>1. CASE i <= Len(queue) /\ j <= Len(queue)
      <4>1. i \in 1 .. Len(queue) /\ j \in 1 .. Len(queue)
        BY <2>2, <2>4, <3>1
      <4>2. queue[i] = queue[j]
        BY <2>4, <2>9, <4>1
      <4> QED
        BY <2>2, <4>1, <4>2 DEF PoolInv, QueueOK
    <3>2. CASE i > Len(queue) /\ j > Len(queue)
      <4>1. i - Len(queue) \in 1 .. Len(waiting) /\ j - Len(queue) \in 1 .. Len(waiting)
        BY <2>1, <2>2, <2>4, <3>2
      <4>2. batch[n + (i - Len(queue))] = batch[n + (j - Len(queue))]
        BY <2>1, <2>2, <2>4, <2>9, <3>2, <4>1
      <4>3. n + (i - Len(queue)) \in 1 .. Len(batch) /\ n + (j - Len(queue)) \in 1 .. Len(batch)
        BY <1>1, <2>1, <2>2, <4>1
      <4>4. \A x, y \in 1 .. Len(batch) : batch[x] = batch[y] => x = y
        OBVIOUS
      <4>5. n + (i - Len(queue)) = n + (j - Len(queue))
        BY <4>2, <4>3, <4>4
      <4>6. n \in Nat /\ Len(queue) \in Nat
        BY <1>1, <2>2
      <4> QED
        BY <4>5, <4>6
    <3>3. ASSUME NEW x \in 1 .. Len(queue), NEW y \in Len(queue) + 1 .. Len(queue')
          PROVE  queue'[x] # queue'[y]
      <4>1. queue'[y][1] = r
        BY <2>1, <2>2, <2>4
      <4> QED
        BY <2>3, <2>4, <4>1
    <3> QED
      BY <2>2, <2>4, <2>9, <3>1, <3>2, <3>3
  <2> QED
    BY <2>4, <2>8, <2>9 DEF QueueOK
<1>9. SlotsOK'
  <2> DEFINE new == {<<r, t>> : t \in granted}
  <2>1. Holders' \subseteq Holders \cup new
    BY <1>2, <1>5, <1>6 DEF Holders, Executions
  <2>2. IsFiniteSet(new) /\ Cardinality(new) <= n /\ Cardinality(new) \in Nat
    <3> DEFINE f == [i \in 1 .. n |-> <<r, batch[i]>>]
    <3>1. f \in Surjection(1 .. n, new)
      BY DEF Surjection, granted
    <3>2. IsFiniteSet(1 .. n) /\ Cardinality(1 .. n) = n
      BY <1>1, FS_Interval
    <3> QED
      BY <3>1, <3>2, FS_Surjection, FS_CardinalityType
  <2>3. Cardinality(Holders') <= Cardinality(Holders) + n
    <3>1. /\ IsFiniteSet(Holders \cup new)
          /\ Cardinality(Holders \cup new) <= Cardinality(Holders) + Cardinality(new)
          /\ Cardinality(Holders \cup new) \in Nat
      <4>1. /\ IsFiniteSet(Holders \cup new)
            /\ Cardinality(Holders \cup new) =
                  Cardinality(Holders) + Cardinality(new) - Cardinality(Holders \cap new)
        BY <2>2, HoldersFinite, FS_Union
      <4>2. Cardinality(Holders \cap new) \in Nat
        BY HoldersFinite, FS_Intersection, FS_CardinalityType
      <4> QED
        BY <2>2, <4>1, <4>2, HoldersFinite, FS_CardinalityType
    <3>2. Cardinality(Holders') <= Cardinality(Holders \cup new)
      BY <2>1, <3>1, FS_Subset
    <3> QED
      BY <1>1, <2>2, <3>1, <3>2, HoldersFinite
  <2> QED
    BY <1>1, <1>4, <2>3, HoldersFinite, PoolAssumption DEF PoolInv, SlotsOK, Free
<1> QED
  BY <1>7, <1>8, <1>9

\* A turn of a run's loop.
LEMMA StartBatchOK == ASSUME PoolInv, NEW r \in Runs, StartBatch(r) PROVE PoolInv'
<1>1. PICK batch \in Batches(r) :
         /\ AcquireSlots(r, batch)
         /\ remaining' = [remaining EXCEPT ![r] = @ \ (Doomed(r) \cup SetOf(batch))]
         /\ skipped' = [skipped EXCEPT ![r] = @ \cup Doomed(r)]
  BY DEF StartBatch
<1>2. InProgress(r) = {} /\ UNCHANGED <<plan, completed, failed, status>>
  BY DEF StartBatch
<1>3. /\ batch \in Seq(Ready(r)) /\ Ready(r) \subseteq Tasks
      /\ \A i, j \in 1 .. Len(batch) : batch[i] = batch[j] => i = j
  BY BatchKnown DEF PoolInv, SchedulerOK, Ready
<1>4. batch \in Seq(Tasks)
  BY <1>3
<1>5. StepsOK' /\ QueueOK' /\ SlotsOK'
  BY <1>1, <1>2, <1>3, <1>4, AcquireOK
<1>6. SchedulerOK'
  BY <1>1, <1>2 DEF PoolInv, SchedulerOK, Doomed
<1> QED
  BY <1>5, <1>6 DEF PoolInv

\* A turn that starts nothing.
LEMMA SkipRestOK == ASSUME PoolInv, NEW r \in Runs, SkipRest(r) PROVE PoolInv'
<1>1. SchedulerOK'
  BY DEF PoolInv, SchedulerOK, SkipRest
<1>2. StepsOK' /\ QueueOK' /\ SlotsOK'
  BY DEF PoolInv, StepsOK, QueueOK, SlotsOK, Holders, SkipRest, slotVars
<1> QED
  BY <1>1, <1>2 DEF PoolInv

\* A step of an execution that holds a slot and keeps it.
LEMMA HolderMovesOK ==
    ASSUME PoolInv, NEW r \in Runs, NEW t \in Tasks,
           step[r][t] \notin {"idle", "queued"},
           NEW s \in Step \ {"idle", "queued", "granted"}, step' = [step EXCEPT ![r][t] = s],
           StepsOK', UNCHANGED <<schedulerVars, slotVars>>
    PROVE  PoolInv'
<1>1. step \in [Runs -> [Tasks -> Step]]
  BY DEF PoolInv, StepsOK
<1>2. \A u \in Runs, v \in Tasks :
         step'[u][v] = IF u = r /\ v = t THEN s ELSE step[u][v]
  BY <1>1
<1>3. Holders' = Holders
  BY <1>2 DEF Holders, Executions
<1>4. QueueOK'
  <2>1. queue' = queue /\ queue \in Seq(Executions)
    BY DEF PoolInv, QueueOK, slotVars
  <2>2. ASSUME NEW i \in DOMAIN queue
        PROVE  step'[queue[i][1]][queue[i][2]] = "queued"
    <3>1. step[queue[i][1]][queue[i][2]] = "queued"
      BY DEF PoolInv, QueueOK
    <3>2. queue[i][1] \in Runs /\ queue[i][2] \in Tasks
      BY <2>1 DEF Executions
    <3> QED
      BY <1>2, <3>1, <3>2
  <2> QED
    BY <2>1, <2>2 DEF PoolInv, QueueOK
<1>5. SchedulerOK' /\ SlotsOK'
  BY <1>3 DEF PoolInv, SchedulerOK, SlotsOK, schedulerVars, slotVars
<1> QED
  BY <1>4, <1>5 DEF PoolInv

\* The steps of executeSubagent between acquireSlot and releaseSlot.
LEMMA BeginOK == ASSUME PoolInv, NEW r \in Runs, NEW t \in Tasks, Begin(r, t) PROVE PoolInv'
<1>1. /\ step[r][t] = "granted" /\ step' = [step EXCEPT ![r][t] = "calling"]
      /\ tried' = tried /\ UNCHANGED <<schedulerVars, slotVars>>
      /\ status' \in {status, [status EXCEPT ![t] = "RUNNING"]}
  BY DEF Begin, At, Goes, StatusWritten
<1>2. StepsOK'
  <2>1. step' \in [Runs -> [Tasks -> Step]] /\ status' \in [Tasks -> Status]
    BY <1>1 DEF PoolInv, StepsOK, Step, Status
  <2> QED
    BY <1>1, <2>1 DEF PoolInv, StepsOK
<1> QED
  BY <1>1, <1>2, HolderMovesOK DEF Step

\* A model that fails is one model less to try.
LEMMA CallFailsOK ==
    ASSUME PoolInv, NEW r \in Runs, NEW t \in Tasks, CallFails(r, t) PROVE PoolInv'
<1>1. /\ step[r][t] = "calling" /\ UNCHANGED <<schedulerVars, slotVars, status>>
      /\ tried' = [tried EXCEPT ![r][t] = @ + 1] /\ tried[r][t] < Models
      /\ \/ step' = step /\ tried[r][t] + 1 < Models
         \/ step' = [step EXCEPT ![r][t] = "exhausted"]
  BY DEF CallFails, At, Goes, PoolInv, StepsOK
<1>2. /\ step \in [Runs -> [Tasks -> Step]] /\ tried \in [Runs -> [Tasks -> 0 .. Models]]
      /\ tried[r][t] \in 0 .. Models /\ Models \in Nat
  BY PoolAssumption DEF PoolInv, StepsOK
<1>3. /\ step' \in [Runs -> [Tasks -> Step]] /\ tried[r][t] + 1 \in 0 .. Models
      /\ status' \in [Tasks -> Status]
  <2>1. step' \in [Runs -> [Tasks -> Step]]
    <3>1. step' = step \/ step' = [step EXCEPT ![r][t] = "exhausted"]
      BY <1>1
    <3>2. "exhausted" \in Step /\ step \in [Runs -> [Tasks -> Step]]
      BY <1>2 DEF Step
    <3> QED
      BY <3>1, <3>2
  <2>2. tried[r][t] + 1 \in 0 .. Models
    <3>1. tried[r][t] < Models
      BY <1>1
    <3> QED
      BY <1>2, <3>1
  <2> QED
    BY <1>1, <2>1, <2>2 DEF PoolInv, StepsOK
<1>4. tried' \in [Runs -> [Tasks -> 0 .. Models]]
  BY <1>1, <1>2, <1>3
<1>5. ASSUME NEW u \in Runs, NEW v \in Tasks,
             step'[u][v] \in {"queued", "granted", "calling"}
      PROVE  tried'[u][v] < Models
  <2>1. CASE u = r /\ v = t
    BY <1>1, <1>2, <1>5, <2>1
  <2>2. CASE ~(u = r /\ v = t)
    <3>1. step'[u][v] = step[u][v] /\ tried'[u][v] = tried[u][v]
      BY <1>1, <1>2, <2>2
    <3> QED
      BY <1>5, <3>1 DEF PoolInv, StepsOK
  <2> QED
    BY <2>1, <2>2
<1>6. StepsOK'
  BY <1>3, <1>4, <1>5 DEF StepsOK
<1>7. CASE step' = step
  <2>1. SchedulerOK' /\ QueueOK' /\ SlotsOK'
    BY <1>1, <1>7 DEF PoolInv, SchedulerOK, QueueOK, SlotsOK, Holders, schedulerVars, slotVars
  <2> QED
    BY <1>6, <2>1 DEF PoolInv
<1>8. CASE step' = [step EXCEPT ![r][t] = "exhausted"]
  BY <1>1, <1>6, <1>8, HolderMovesOK DEF Step
<1> QED
  BY <1>1, <1>7, <1>8

\* A model that answers ends the trying.
LEMMA CallAnswersOK ==
    ASSUME PoolInv, NEW r \in Runs, NEW t \in Tasks, CallAnswers(r, t) PROVE PoolInv'
<1>1. /\ step[r][t] = "calling" /\ step' = [step EXCEPT ![r][t] = "answered"]
      /\ UNCHANGED <<schedulerVars, slotVars, tried, status>>
  BY DEF CallAnswers, At, Goes
<1>2. StepsOK'
  <2>1. step' \in [Runs -> [Tasks -> Step]]
    BY <1>1 DEF PoolInv, StepsOK, Step
  <2> QED
    BY <1>1, <2>1 DEF PoolInv, StepsOK
<1> QED
  BY <1>1, <1>2, HolderMovesOK DEF Step

\* Either outcome is saved, or the save is lost.
LEMMA SaveOutcomeOK ==
    ASSUME PoolInv, NEW r \in Runs, NEW t \in Tasks, SaveOutcome(r, t) PROVE PoolInv'
<1>1. PICK s \in {"completed", "failed"}, w \in Status :
         /\ step[r][t] \in {"answered", "exhausted"} /\ step' = [step EXCEPT ![r][t] = s]
         /\ status' \in {status, [status EXCEPT ![t] = w]}
         /\ UNCHANGED <<schedulerVars, slotVars, tried>>
  BY DEF SaveOutcome, At, Goes, StatusWritten, Status
<1>2. StepsOK'
  <2>1. step' \in [Runs -> [Tasks -> Step]] /\ status' \in [Tasks -> Status]
    BY <1>1 DEF PoolInv, StepsOK, Step
  <2> QED
    BY <1>1, <2>1 DEF PoolInv, StepsOK
<1> QED
  BY <1>1, <1>2, HolderMovesOK DEF Step

\* The end of an execution, with a hand-over or without.
LEMMA ReleaseOK ==
    ASSUME PoolInv, NEW r \in Runs, NEW t \in Tasks, Release(r, t) PROVE PoolInv'
<1> DEFINE e == <<r, t>>
<1>1. /\ step[r][t] \in {"completed", "failed"}
      /\ UNCHANGED <<plan, remaining, skipped, tried, status>>
      /\ completed' = [completed EXCEPT ![r] =
                          IF At(r, t, "completed") THEN @ \cup {t} ELSE @]
      /\ failed' = [failed EXCEPT ![r] = IF At(r, t, "failed") THEN @ \cup {t} ELSE @]
  BY DEF Release
<1>2. SchedulerOK'
  BY <1>1 DEF PoolInv, SchedulerOK
<1>3. /\ step \in [Runs -> [Tasks -> Step]] /\ queue \in Seq(Executions) /\ active \in Nat
      /\ Cardinality(Holders) <= active /\ Cardinality(Holders) <= MaxActive
      /\ e \in Holders
  BY <1>1 DEF PoolInv, StepsOK, QueueOK, SlotsOK, Holders, Executions
<1>4. /\ IsFiniteSet(Holders \ {e})
      /\ Cardinality(Holders \ {e}) = Cardinality(Holders) - 1
  BY <1>3, HoldersFinite, FS_RemoveElement
<1>5. CASE queue # <<>>
  <2> DEFINE h == Head(queue)
  <2>1. /\ step' = [step EXCEPT ![r][t] = "idle", ![h[1]][h[2]] = "granted"]
        /\ queue' = Tail(queue) /\ active' = active + 1
    BY <1>5 DEF Release
  <2>2. 1 \in DOMAIN queue /\ h = queue[1] /\ h \in Executions
    BY <1>3, <1>5
  <2>3. h[1] \in Runs /\ h[2] \in Tasks /\ step[h[1]][h[2]] = "queued"
    BY <2>2 DEF Executions, PoolInv, QueueOK
  <2> HIDE DEF h
  <2>4. ~(h[1] = r /\ h[2] = t)
    BY <1>1, <2>3
  <2>5. /\ step' \in [Runs -> [Tasks -> Step]]
        /\ \A u \in Runs, v \in Tasks :
              step'[u][v] = IF u = r /\ v = t THEN "idle"
                            ELSE IF u = h[1] /\ v = h[2] THEN "granted" ELSE step[u][v]
    BY <1>3, <2>1, <2>3, <2>4 DEF Step
  <2>6. StepsOK'
    <3>1. ASSUME NEW u \in Runs, NEW v \in Tasks,
                 step'[u][v] \in {"queued", "granted", "calling"}
          PROVE  tried'[u][v] < Models
      <4>1. step[u][v] \in {"queued", "granted", "calling"}
        BY <2>3, <2>5, <3>1
      <4> QED
        BY <1>1, <4>1 DEF PoolInv, StepsOK
    <3> QED
      BY <1>1, <2>5, <3>1 DEF PoolInv, StepsOK
  <2>7. QueueOK'
    <3>1. /\ queue' \in Seq(Executions) /\ DOMAIN queue' = 1 .. Len(queue) - 1
          /\ \A i \in DOMAIN queue' : queue'[i] = queue[i + 1]
          /\ \A i \in DOMAIN queue' : i + 1 \in DOMAIN queue /\ i + 1 # 1
      BY <1>3, <1>5, <2>1
    <3>2. ASSUME NEW i \in DOMAIN queue'
          PROVE  step'[queue'[i][1]][queue'[i][2]] = "queued"
      <4>1. step[queue'[i][1]][queue'[i][2]] = "queued" /\ queue'[i] # h
        BY <2>2, <3>1 DEF PoolInv, QueueOK
      <4>2. queue'[i] \in Runs \X Tasks /\ h \in Runs \X Tasks
        BY <2>2, <3>1 DEF Executions
      <4>3. queue'[i][1] \in Runs /\ queue'[i][2] \in Tasks
            /\ ~(queue'[i][1] = h[1] /\ queue'[i][2] = h[2])
        BY <4>1, <4>2
      <4> QED
        BY <1>1, <2>5, <4>1, <4>3
    <3>3. ASSUME NEW i \in DOMAIN queue', NEW j \in DOMAIN queue', queue'[i] = queue'[j]
          PROVE  i = j
      <4>1. i + 1 = j + 1
        BY <3>1, <3>3 DEF PoolInv, QueueOK
      <4>2. i \in Int /\ j \in Int
        BY <3>1
      <4> QED
        BY <4>1, <4>2
    <3> QED
      BY <3>1, <3>2, <3>3 DEF QueueOK
  <2>8. SlotsOK'
    <3>1. Holders' \subseteq (Holders \ {e}) \cup {h}
      <4> SUFFICES ASSUME NEW x \in Holders' PROVE x \in (Holders \ {e}) \cup {h}
        OBVIOUS
      <4>1. x \in Runs \X Tasks /\ step'[x[1]][x[2]] \notin {"idle", "queued"}
        BY DEF Holders, Executions
      <4>2. x[1] \in Runs /\ x[2] \in Tasks /\ x = <<x[1], x[2]>> /\ h = <<h[1], h[2]>>
        BY <2>2, <4>1 DEF Executions
      <4>3. CASE x[1] = h[1] /\ x[2] = h[2]
        BY <4>2, <4>3
      <4>4. CASE ~(x[1] = h[1] /\ x[2] = h[2])
        BY <2>5, <4>1, <4>2, <4>4 DEF Holders, Executions
      <4> QED
        BY <4>3, <4>4
    <3>2. /\ IsFiniteSet((Holders \ {e}) \cup {h})
          /\ Cardinality((Holders \ {e}) \cup {h}) <= Cardinality(Holders)
      <4> DEFINE S == Holders \ {e}
      <4>1. IsFiniteSet(S) /\ Cardinality(S) = Cardinality(Holders) - 1
        BY <1>4
      <4> HIDE DEF S
      <4>2. /\ IsFiniteSet(S \cup {h})
            /\ Cardinality(S \cup {h}) = IF h \in S THEN Cardinality(S) ELSE Cardinality(S) + 1
        BY <4>1, FS_AddElement
      <4>3. Cardinality(S \cup {h}) <= Cardinality(Holders)
        BY <4>1, <4>2, HoldersFinite
      <4> QED
        BY <4>2, <4>3 DEF S
    <3>3. Cardinality(Holders') <= Cardinality(Holders)
      <4>1. Cardinality((Holders \ {e}) \cup {h}) \in Nat
        BY <3>2, FS_CardinalityType
      <4>2. Cardinality(Holders') <= Cardinality((Holders \ {e}) \cup {h})
        BY <3>1, <3>2, FS_Subset
      <4> QED
        BY <3>2, <4>1, <4>2, HoldersFinite
    <3> QED
      BY <1>3, <2>1, <3>3, HoldersFinite, PoolAssumption DEF SlotsOK
  <2> QED
    BY <1>2, <2>6, <2>7, <2>8 DEF PoolInv
<1>6. CASE queue = <<>>
  <2>1. /\ step' = [step EXCEPT ![r][t] = "idle"] /\ queue' = queue
        /\ active' = IF active > 0 THEN active - 1 ELSE 0
    BY <1>6 DEF Release, Goes
  <2>2. /\ step' \in [Runs -> [Tasks -> Step]]
        /\ \A u \in Runs, v \in Tasks :
              step'[u][v] = IF u = r /\ v = t THEN "idle" ELSE step[u][v]
    BY <1>3, <2>1 DEF Step
  <2>3. StepsOK'
    BY <1>1, <2>2 DEF PoolInv, StepsOK
  <2>4. QueueOK'
    BY <1>6, <2>1 DEF PoolInv, QueueOK
  <2>5. SlotsOK'
    <3>1. Holders' \subseteq Holders \ {e}
      BY <2>2 DEF Holders, Executions
    <3>2. Cardinality(Holders') <= Cardinality(Holders) - 1
      BY <1>4, <3>1, FS_Subset
    <3>3. active > 0
      BY <1>3, <1>4, FS_CardinalityType, HoldersFinite
    <3> QED
      BY <1>3, <3>3, <2>1, <3>2, HoldersFinite, PoolAssumption DEF SlotsOK
  <2> QED
    BY <1>2, <2>3, <2>4, <2>5 DEF PoolInv
<1> QED
  BY <1>5, <1>6

-----------------------------------------------------------------------------
\* Nothing runs when the runs are called.
LEMMA PoolInitOK == Init => PoolInv
<1> SUFFICES ASSUME Init PROVE PoolInv
  OBVIOUS
<1>1. SchedulerOK
  <2>1. \A r \in Runs : plan[r] \in Seq(Tasks)
    BY PoolAssumption DEF Init
  <2>2. \A r \in Runs : SetOf(plan[r]) \subseteq Tasks
    BY <2>1 DEF SetOf
  <2> QED
    BY <2>2 DEF Init, SchedulerOK
<1>2. StepsOK
  BY PoolAssumption DEF Init, StepsOK, Step, Status
<1>3. QueueOK
  BY DEF Init, QueueOK
<1>4. SlotsOK
  <2>1. Holders = {}
    BY DEF Init, Holders, Executions
  <2> QED
    BY <2>1, FS_EmptySet, PoolAssumption DEF Init, SlotsOK
<1> QED
  BY <1>1, <1>2, <1>3, <1>4 DEF PoolInv

\* PoolInv is inductive.
LEMMA PoolStepOK == PoolInv /\ [Next]_vars => PoolInv'
<1> SUFFICES ASSUME PoolInv, [Next]_vars PROVE PoolInv'
  OBVIOUS
<1>1. CASE UNCHANGED vars
  BY <1>1 DEF PoolInv, SchedulerOK, StepsOK, QueueOK, SlotsOK, Holders, vars, schedulerVars,
     slotVars
<1>2. ASSUME NEW r \in Runs, Schedule(r) PROVE PoolInv'
  BY <1>2, StartBatchOK, SkipRestOK DEF Schedule
<1>3. ASSUME NEW r \in Runs, NEW t \in Tasks, Execute(r, t) PROVE PoolInv'
  BY <1>3, BeginOK, CallFailsOK, CallAnswersOK, SaveOutcomeOK, ReleaseOK DEF Execute
<1> QED
  BY <1>1, <1>2, <1>3 DEF Next

\* PoolInv holds of every reachable state.
THEOREM PoolInvariance == Spec => []PoolInv
  BY PoolInitOK, PoolStepOK, PTL DEF Spec

\* Type correctness, for any runs, plans and limits.
THEOREM PoolTypeCorrect == Spec => []TypeOK
<1>1. PoolInv => TypeOK
  BY DEF PoolInv, SchedulerOK, StepsOK, QueueOK, SlotsOK, TypeOK
<1> QED
  BY <1>1, PoolInvariance, PTL

\* Although hand-overs make the count of active executions wrong, there are
\* never more than MaxActive.
THEOREM SlotsRespected == Spec => []AtMostMaxActive
<1>1. PoolInv => AtMostMaxActive
  BY DEF PoolInv, SlotsOK, AtMostMaxActive
<1> QED
  BY <1>1, PoolInvariance, PTL

-----------------------------------------------------------------------------
(* The refinement.                                                         *)

\* A task of the plan is in one of five places, any other task in none.
OnePlace ==
    \A r \in Runs, t \in Tasks :
        /\ t \in SetOf(plan[r]) <=>
              \/ t \in remaining[r] \/ step[r][t] # "idle"
              \/ t \in completed[r] \/ t \in failed[r] \/ t \in skipped[r]
        /\ t \in remaining[r] => step[r][t] = "idle" /\ t \notin completed[r]
                                    /\ t \notin failed[r] /\ t \notin skipped[r]
        /\ step[r][t] # "idle" => t \notin completed[r] /\ t \notin failed[r]
                                    /\ t \notin skipped[r]
        /\ t \in completed[r] => t \notin failed[r] /\ t \notin skipped[r]
        /\ t \in failed[r] => t \notin skipped[r]

\* What was started has all it depends on.
StartedIsReady ==
    \A r \in Runs, t \in Tasks : step[r][t] # "idle" => Deps[t] \subseteq completed[r]

PlaceInv == PoolInv /\ OnePlace /\ StartedIsReady

-----------------------------------------------------------------------------
\* Where a batch goes: off remaining, to a slot or to the queue.
LEMMA StartBatchMoves ==
    ASSUME PoolInv, NEW r \in Runs, StartBatch(r)
    PROVE  \E started \in SUBSET Ready(r) :
              /\ \A s \in Runs \ {r} : /\ step'[s] = step[s] /\ remaining'[s] = remaining[s]
                                       /\ skipped'[s] = skipped[s]
              /\ \A t \in Tasks :
                    /\ step[r][t] = "idle"
                    /\ step'[r][t] \in IF t \in started THEN {"granted", "queued"} ELSE {"idle"}
              /\ remaining'[r] = remaining[r] \ (Doomed(r) \cup started)
              /\ skipped'[r] = skipped[r] \cup Doomed(r)
              /\ UNCHANGED <<plan, completed, failed>>
<1>1. PICK batch \in Batches(r) :
         /\ AcquireSlots(r, batch)
         /\ remaining' = [remaining EXCEPT ![r] = @ \ (Doomed(r) \cup SetOf(batch))]
         /\ skipped' = [skipped EXCEPT ![r] = @ \cup Doomed(r)]
  BY DEF StartBatch
<1>2. InProgress(r) = {} /\ UNCHANGED <<plan, completed, failed>>
  BY DEF StartBatch
<1>3. batch \in Seq(Ready(r))
  BY BatchKnown DEF PoolInv
<1>4. SetOf(batch) \subseteq Ready(r)
  BY <1>3 DEF SetOf
<1> DEFINE granted == {batch[i] : i \in 1 .. Least(Len(batch), Free)}
<1>5. granted \subseteq SetOf(batch)
  <2>1. Least(Len(batch), Free) <= Len(batch) /\ Len(batch) \in Nat
        /\ Least(Len(batch), Free) \in Int /\ DOMAIN batch = 1 .. Len(batch)
    BY <1>3, PoolAssumption DEF Least, Free, PoolInv, SlotsOK
  <2> QED
    BY <2>1 DEF SetOf
<1>6. step \in [Runs -> [Tasks -> Step]]
  BY DEF PoolInv, StepsOK
<1>7. step' = [step EXCEPT ![r] = [t \in Tasks |->
                  IF t \in granted THEN "granted"
                  ELSE IF t \in SetOf(batch) THEN "queued" ELSE step[r][t]]]
  BY <1>1, <1>6 DEF AcquireSlots
<1>8. \A t \in Tasks : step[r][t] = "idle"
  BY <1>2 DEF InProgress
<1>9. remaining \in [Runs -> SUBSET Tasks] /\ skipped \in [Runs -> SUBSET Tasks]
  BY DEF PoolInv, SchedulerOK
<1> HIDE DEF granted
<1> USE <1>4
<1> WITNESS SetOf(batch) \in SUBSET Ready(r)
<1>10. \A s \in Runs \ {r} : /\ step'[s] = step[s] /\ remaining'[s] = remaining[s]
                             /\ skipped'[s] = skipped[s]
  BY <1>1, <1>6, <1>7, <1>9
<1>11. \A t \in Tasks :
          step'[r][t] \in IF t \in SetOf(batch) THEN {"granted", "queued"} ELSE {"idle"}
  BY <1>5, <1>6, <1>7, <1>8
<1>12. /\ remaining'[r] = remaining[r] \ (Doomed(r) \cup SetOf(batch))
       /\ skipped'[r] = skipped[r] \cup Doomed(r)
  BY <1>1, <1>9
<1> QED
  BY <1>2, <1>4, <1>8, <1>10, <1>11, <1>12

\* What an execution does at its end: it gives its task a result, and may start
\* another one that was queued.
LEMMA ReleaseMoves ==
    ASSUME PoolInv, NEW r \in Runs, NEW t \in Tasks, Release(r, t)
    PROVE  /\ step[r][t] \in {"completed", "failed"} /\ step'[r][t] = "idle"
           /\ \A u \in Runs, v \in Tasks : u # r \/ v # t =>
                 \/ step'[u][v] = step[u][v]
                 \/ step[u][v] = "queued" /\ step'[u][v] = "granted"
           /\ \A u \in Runs \ {r} : completed'[u] = completed[u] /\ failed'[u] = failed[u]
           /\ completed'[r] = completed[r] \cup {x \in {t} : step[r][t] = "completed"}
           /\ failed'[r] = failed[r] \cup {x \in {t} : step[r][t] = "failed"}
           /\ UNCHANGED <<plan, remaining, skipped>>
<1>1. /\ step \in [Runs -> [Tasks -> Step]]
      /\ completed \in [Runs -> SUBSET Tasks] /\ failed \in [Runs -> SUBSET Tasks]
  BY DEF PoolInv, StepsOK, SchedulerOK
<1>2. /\ step[r][t] \in {"completed", "failed"} /\ UNCHANGED <<plan, remaining, skipped>>
      /\ completed' = [completed EXCEPT ![r] =
                          IF step[r][t] = "completed" THEN @ \cup {t} ELSE @]
      /\ failed' = [failed EXCEPT ![r] = IF step[r][t] = "failed" THEN @ \cup {t} ELSE @]
  BY DEF Release, At
<1>3. /\ \A u \in Runs \ {r} : completed'[u] = completed[u] /\ failed'[u] = failed[u]
      /\ completed'[r] = completed[r] \cup {x \in {t} : step[r][t] = "completed"}
      /\ failed'[r] = failed[r] \cup {x \in {t} : step[r][t] = "failed"}
  BY <1>1, <1>2
<1>4. CASE queue # <<>>
  <2> DEFINE h == Head(queue)
  <2>1. step' = [step EXCEPT ![r][t] = "idle", ![h[1]][h[2]] = "granted"]
    BY <1>4 DEF Release
  <2>2. h \in Runs \X Tasks /\ step[h[1]][h[2]] = "queued"
    <3>1. queue \in Seq(Executions) /\ 1 \in DOMAIN queue /\ h = queue[1]
      BY <1>4 DEF PoolInv, QueueOK
    <3> QED
      BY <3>1 DEF PoolInv, QueueOK, Executions
  <2> HIDE DEF h
  <2>3. h[1] \in Runs /\ h[2] \in Tasks /\ ~(h[1] = r /\ h[2] = t)
    BY <1>2, <2>2
  <2>4. \A u \in Runs, v \in Tasks :
           step'[u][v] = IF u = r /\ v = t THEN "idle"
                         ELSE IF u = h[1] /\ v = h[2] THEN "granted" ELSE step[u][v]
    BY <1>1, <2>1, <2>3
  <2> QED
    BY <1>2, <1>3, <2>2, <2>4
<1>5. CASE queue = <<>>
  <2>1. step' = [step EXCEPT ![r][t] = "idle"]
    BY <1>5 DEF Release, Goes
  <2>2. \A u \in Runs, v \in Tasks :
           step'[u][v] = IF u = r /\ v = t THEN "idle" ELSE step[u][v]
    BY <1>1, <2>1
  <2> QED
    BY <1>2, <1>3, <2>2
<1> QED
  BY <1>4, <1>5

\* What the other steps of an execution do to it: it keeps its slot.
LEMMA HolderMoves ==
    ASSUME PoolInv, NEW r \in Runs, NEW t \in Tasks,
           Begin(r, t) \/ CallFails(r, t) \/ CallAnswers(r, t) \/ SaveOutcome(r, t)
    PROVE  /\ \A u \in Runs, v \in Tasks :
                 \/ step'[u][v] = step[u][v]
                 \/ step[u][v] \notin {"idle", "queued"} /\ step'[u][v] \notin {"idle", "queued"}
           /\ UNCHANGED schedulerVars
<1>1. step \in [Runs -> [Tasks -> Step]]
  BY DEF PoolInv, StepsOK
<1>2. /\ step[r][t] \in {"granted", "calling", "answered", "exhausted"}
      /\ \/ step' = step
         \/ \E s \in {"calling", "answered", "exhausted", "completed", "failed"} :
               step' = [step EXCEPT ![r][t] = s]
      /\ UNCHANGED schedulerVars
  BY DEF Begin, CallFails, CallAnswers, SaveOutcome, At, Goes
<1>3. CASE step' = step
  BY <1>2, <1>3
<1>4. ASSUME NEW s \in {"calling", "answered", "exhausted", "completed", "failed"},
             step' = [step EXCEPT ![r][t] = s]
      PROVE  \A u \in Runs, v \in Tasks :
                step'[u][v] = IF u = r /\ v = t THEN s ELSE step[u][v]
  BY <1>1, <1>4
<1> QED
  BY <1>2, <1>3, <1>4

-----------------------------------------------------------------------------
\* At first every task of a plan waits.
LEMMA PlaceInitOK == Init => OnePlace /\ StartedIsReady
  BY DEF Init, OnePlace, StartedIsReady

\* Starting a batch keeps every task in one place, and starts only ready ones.
LEMMA StartBatchPlaces ==
    ASSUME PlaceInv, NEW r \in Runs, StartBatch(r) PROVE OnePlace' /\ StartedIsReady'
<1>1. PICK started \in SUBSET Ready(r) :
         /\ \A s \in Runs \ {r} : /\ step'[s] = step[s] /\ remaining'[s] = remaining[s]
                                  /\ skipped'[s] = skipped[s]
         /\ \A t \in Tasks :
               /\ step[r][t] = "idle"
               /\ step'[r][t] \in IF t \in started THEN {"granted", "queued"} ELSE {"idle"}
         /\ remaining'[r] = remaining[r] \ (Doomed(r) \cup started)
         /\ skipped'[r] = skipped[r] \cup Doomed(r)
         /\ UNCHANGED <<plan, completed, failed>>
  BY StartBatchMoves DEF PlaceInv
<1>2. /\ started \subseteq remaining[r] \ Doomed(r) /\ Doomed(r) \subseteq remaining[r]
      /\ \A t \in started : Deps[t] \subseteq completed[r]
  BY DEF Ready, Doomed, DependenciesMet
<1>3. OnePlace'
  <2>1. ASSUME NEW t \in Tasks
        PROVE  /\ step'[r][t] # "idle" <=> t \in started
               /\ t \in remaining'[r] <=> t \in remaining[r] /\ t \notin Doomed(r) \cup started
               /\ t \in skipped'[r] <=> t \in skipped[r] \/ t \in Doomed(r)
    BY <1>1
  <2> QED
    BY <1>1, <1>2, <2>1 DEF PlaceInv, OnePlace
<1>4. StartedIsReady'
  <2> SUFFICES ASSUME NEW u \in Runs, NEW t \in Tasks, step'[u][t] # "idle"
               PROVE  Deps[t] \subseteq completed'[u]
    BY DEF StartedIsReady
  <2>1. CASE u = r
    BY <1>1, <1>2, <2>1
  <2>2. CASE u # r
    BY <1>1, <2>2 DEF PlaceInv, StartedIsReady
  <2> QED
    BY <2>1, <2>2
<1> QED
  BY <1>3, <1>4

\* Skipping what is left keeps every task in one place.
LEMMA SkipRestPlaces ==
    ASSUME PlaceInv, NEW r \in Runs, SkipRest(r) PROVE OnePlace' /\ StartedIsReady'
<1>1. /\ UNCHANGED <<plan, completed, failed, step>>
      /\ \A u \in Runs \ {r} : remaining'[u] = remaining[u] /\ skipped'[u] = skipped[u]
      /\ remaining'[r] = {} /\ skipped'[r] = skipped[r] \cup remaining[r]
  BY DEF SkipRest, PlaceInv, PoolInv, SchedulerOK
<1> QED
  BY <1>1 DEF PlaceInv, OnePlace, StartedIsReady

\* So does a step of an execution that keeps its slot.
LEMMA HolderPlaces ==
    ASSUME PlaceInv, NEW r \in Runs, NEW t \in Tasks,
           Begin(r, t) \/ CallFails(r, t) \/ CallAnswers(r, t) \/ SaveOutcome(r, t)
    PROVE  OnePlace' /\ StartedIsReady'
<1>1. /\ \A u \in Runs, v \in Tasks : step'[u][v] # "idle" <=> step[u][v] # "idle"
      /\ UNCHANGED <<plan, remaining, completed, failed, skipped>>
  BY HolderMoves DEF PlaceInv, schedulerVars
<1> QED
  BY <1>1 DEF PlaceInv, OnePlace, StartedIsReady

\* An execution that gives its slot back moves its task to one set of results.
LEMMA ReleasePlaces ==
    ASSUME PlaceInv, NEW r \in Runs, NEW t \in Tasks, Release(r, t)
    PROVE  OnePlace' /\ StartedIsReady'
<1>1. /\ step[r][t] \in {"completed", "failed"} /\ step'[r][t] = "idle"
      /\ \A u \in Runs, v \in Tasks : u # r \/ v # t =>
            (step'[u][v] # "idle" <=> step[u][v] # "idle")
      /\ \A u \in Runs \ {r} : completed'[u] = completed[u] /\ failed'[u] = failed[u]
      /\ completed'[r] = completed[r] \cup {x \in {t} : step[r][t] = "completed"}
      /\ failed'[r] = failed[r] \cup {x \in {t} : step[r][t] = "failed"}
      /\ UNCHANGED <<plan, remaining, skipped>>
  BY ReleaseMoves DEF PlaceInv
<1>2. OnePlace'
  <2> SUFFICES ASSUME NEW u \in Runs, NEW v \in Tasks
               PROVE  /\ v \in SetOf(plan'[u]) <=>
                           \/ v \in remaining'[u] \/ step'[u][v] # "idle"
                           \/ v \in completed'[u] \/ v \in failed'[u] \/ v \in skipped'[u]
                      /\ v \in remaining'[u] => step'[u][v] = "idle" /\ v \notin completed'[u]
                                                /\ v \notin failed'[u] /\ v \notin skipped'[u]
                      /\ step'[u][v] # "idle" => v \notin completed'[u] /\ v \notin failed'[u]
                                                /\ v \notin skipped'[u]
                      /\ v \in completed'[u] => v \notin failed'[u] /\ v \notin skipped'[u]
                      /\ v \in failed'[u] => v \notin skipped'[u]
    BY DEF OnePlace
  <2>1. CASE u = r /\ v = t
    BY <1>1, <2>1 DEF PlaceInv, OnePlace
  <2>2. CASE ~(u = r /\ v = t)
    <3>1. /\ v \in completed'[u] <=> v \in completed[u]
          /\ v \in failed'[u] <=> v \in failed[u]
          /\ step'[u][v] # "idle" <=> step[u][v] # "idle"
      BY <1>1, <2>2
    <3> QED
      BY <1>1, <3>1 DEF PlaceInv, OnePlace
  <2> QED
    BY <2>1, <2>2
<1>3. StartedIsReady'
  BY <1>1 DEF PlaceInv, StartedIsReady
<1> QED
  BY <1>2, <1>3

\* Every step keeps PlaceInv.
LEMMA PlaceStepOK == PlaceInv /\ [Next]_vars => PlaceInv'
<1> SUFFICES ASSUME PlaceInv, [Next]_vars PROVE PlaceInv'
  OBVIOUS
<1>1. PoolInv'
  BY PoolStepOK DEF PlaceInv
<1>2. CASE UNCHANGED vars
  BY <1>1, <1>2 DEF PlaceInv, OnePlace, StartedIsReady, vars, schedulerVars
<1>3. ASSUME NEW r \in Runs, Schedule(r) PROVE PlaceInv'
  BY <1>1, <1>3, StartBatchPlaces, SkipRestPlaces DEF Schedule, PlaceInv
<1>4. ASSUME NEW r \in Runs, NEW t \in Tasks, Execute(r, t) PROVE PlaceInv'
  BY <1>1, <1>4, HolderPlaces, ReleasePlaces DEF Execute, PlaceInv
<1> QED
  BY <1>2, <1>3, <1>4 DEF Next

\* PlaceInv holds of every reachable state.
THEOREM PlaceInvariance == Spec => []PlaceInv
<1>1. Init => PlaceInv
  BY PoolInitOK, PlaceInitOK DEF PlaceInv
<1> QED
  BY <1>1, PlaceStepOK, PTL DEF Spec

\* No task of a plan is ever lost, counted twice or in two places.
THEOREM NothingLost == Spec => []ResultsPartitionPlan
<1>1. PlaceInv => ResultsPartitionPlan
  <2> SUFFICES ASSUME PlaceInv, NEW r \in Runs
               PROVE  LET parts == <<remaining[r], InProgress(r), completed[r], failed[r],
                                     skipped[r]>> IN
                      /\ UNION SetOf(parts) = SetOf(plan[r])
                      /\ \A i, j \in DOMAIN parts : i # j => parts[i] \cap parts[j] = {}
    BY DEF ResultsPartitionPlan
  <2> DEFINE parts == <<remaining[r], InProgress(r), completed[r], failed[r], skipped[r]>>
             all == remaining[r] \cup InProgress(r) \cup completed[r] \cup failed[r]
                      \cup skipped[r]
  <2>1. /\ remaining[r] \subseteq Tasks /\ completed[r] \subseteq Tasks
        /\ failed[r] \subseteq Tasks /\ skipped[r] \subseteq Tasks
        /\ InProgress(r) = {t \in Tasks : step[r][t] # "idle"}
    BY DEF PlaceInv, PoolInv, SchedulerOK, InProgress
  <2>2. SetOf(plan[r]) \subseteq Tasks
    <3>1. plan[r] \in Seq(Tasks)
      BY PoolAssumption DEF PlaceInv, PoolInv, SchedulerOK
    <3> QED
      BY <3>1 DEF SetOf
  <2>3. \A t \in Tasks : t \in SetOf(plan[r]) <=> t \in all
    BY <2>1 DEF PlaceInv, OnePlace
  <2>4. all = SetOf(plan[r])
    BY <2>1, <2>2, <2>3
  <2>5. /\ remaining[r] \cap InProgress(r) = {} /\ remaining[r] \cap completed[r] = {}
        /\ remaining[r] \cap failed[r] = {} /\ remaining[r] \cap skipped[r] = {}
        /\ InProgress(r) \cap completed[r] = {} /\ InProgress(r) \cap failed[r] = {}
        /\ InProgress(r) \cap skipped[r] = {} /\ completed[r] \cap failed[r] = {}
        /\ completed[r] \cap skipped[r] = {} /\ failed[r] \cap skipped[r] = {}
    BY <2>1 DEF PlaceInv, OnePlace
  <2>6. UNION SetOf(parts) = all
    BY DEF SetOf
  <2>7. \A i, j \in 1 .. 5 : i # j => parts[i] \cap parts[j] = {}
    BY <2>5
  <2> QED
    BY <2>4, <2>6, <2>7
<1> QED
  BY <1>1, PlaceInvariance, PTL

-----------------------------------------------------------------------------
(* Why tasks are skipped, and what COMPLETED in Redis says.  Both parts     *)
(* are inductive beside PlaceInv: results are only ever added.              *)

JustInv == PlaceInv /\ SkipsAreJustified /\ CompletedIsEarned

\* Results are only ever added, and what is completed stays so.
LEMMA ResultsGrow ==
    ASSUME PlaceInv, NEW r \in Runs, Schedule(r) \/ \E t \in Tasks : Execute(r, t)
    PROVE  /\ plan' = plan
           /\ \A u \in Runs : /\ completed[u] \subseteq completed'[u]
                              /\ failed[u] \subseteq failed'[u] /\ skipped[u] \subseteq skipped'[u]
           /\ \A u \in Runs, v \in Tasks :
                 step[u][v] = "completed" => step'[u][v] = "completed" \/ v \in completed'[u]
<1>1. CASE StartBatch(r)
  <2>1. PICK started \in SUBSET Ready(r) :
           /\ \A s \in Runs \ {r} : /\ step'[s] = step[s] /\ remaining'[s] = remaining[s]
                                    /\ skipped'[s] = skipped[s]
           /\ \A t \in Tasks :
                 /\ step[r][t] = "idle"
                 /\ step'[r][t] \in IF t \in started THEN {"granted", "queued"} ELSE {"idle"}
           /\ remaining'[r] = remaining[r] \ (Doomed(r) \cup started)
           /\ skipped'[r] = skipped[r] \cup Doomed(r)
           /\ UNCHANGED <<plan, completed, failed>>
    BY <1>1, StartBatchMoves DEF PlaceInv
  <2> QED
    BY <2>1
<1>2. CASE SkipRest(r)
  BY <1>2 DEF SkipRest, PlaceInv, PoolInv, SchedulerOK
<1>3. ASSUME NEW t \in Tasks, Release(r, t)
      PROVE  /\ plan' = plan
             /\ \A u \in Runs : /\ completed[u] \subseteq completed'[u]
                                /\ failed[u] \subseteq failed'[u] /\ skipped[u] \subseteq skipped'[u]
             /\ \A u \in Runs, v \in Tasks :
                   step[u][v] = "completed" => step'[u][v] = "completed" \/ v \in completed'[u]
  BY <1>3, ReleaseMoves DEF PlaceInv
<1>4. ASSUME NEW t \in Tasks,
             Begin(r, t) \/ CallFails(r, t) \/ CallAnswers(r, t) \/ SaveOutcome(r, t)
      PROVE  /\ UNCHANGED <<plan, completed, failed, skipped>>
             /\ \A u \in Runs, v \in Tasks :
                   step[u][v] = "completed" => step'[u][v] = "completed"
  <2>1. step \in [Runs -> [Tasks -> Step]]
    BY DEF PlaceInv, PoolInv, StepsOK
  <2>2. UNCHANGED <<plan, completed, failed, skipped>>
    BY <1>4, HolderMoves DEF PlaceInv, schedulerVars
  <2>3. step[r][t] # "completed"
    BY <1>4 DEF Begin, CallFails, CallAnswers, SaveOutcome, At
  <2>4. step' = step \/ \E s \in Step : step' = [step EXCEPT ![r][t] = s]
    BY <1>4 DEF Begin, CallFails, CallAnswers, SaveOutcome, Goes, Step
  <2> QED
    BY <2>1, <2>2, <2>3, <2>4
<1> QED
  BY <1>1, <1>2, <1>3, <1>4 DEF Schedule, Execute

\* Who is skipped has a reason among the dependencies, and keeps it.
LEMMA SkipsStepOK ==
    ASSUME JustInv, NEW r \in Runs, Schedule(r) \/ \E t \in Tasks : Execute(r, t)
    PROVE  SkipsAreJustified'
<1> SUFFICES ASSUME NEW u \in Runs, NEW t \in skipped'[u]
             PROVE  \E d \in Deps[t] :
                       d \in failed'[u] \cup skipped'[u] \/ d \notin SetOf(plan'[u])
  BY DEF SkipsAreJustified
<1>1. /\ plan' = plan
      /\ failed[u] \subseteq failed'[u] /\ skipped[u] \subseteq skipped'[u]
  BY ResultsGrow DEF JustInv
<1>2. CASE t \in skipped[u]
  BY <1>1, <1>2 DEF JustInv, SkipsAreJustified
<1>3. CASE t \notin skipped[u]
  <2>1. CASE StartBatch(r)
    <3>1. u = r /\ t \in Doomed(r)
      BY <1>3, <2>1, StartBatchMoves DEF JustInv, PlaceInv
    <3>2. PICK d \in Deps[t] : d \in failed[r]
      BY <3>1 DEF Doomed, DependencyFailed
    <3> QED
      BY <1>1, <3>1, <3>2
  <2>2. CASE SkipRest(r)
    <3>1. /\ InProgress(r) = {} /\ Ready(r) = {} /\ UNCHANGED <<plan, completed, failed, step>>
          /\ skipped' = [skipped EXCEPT ![r] = @ \cup remaining[r]]
          /\ skipped \in [Runs -> SUBSET Tasks]
      BY <2>2 DEF SkipRest, JustInv, PlaceInv, PoolInv, SchedulerOK
    <3>2. u = r /\ t \in remaining[r] /\ skipped'[r] = skipped[r] \cup remaining[r]
      BY <1>3, <3>1
    <3>3. t \in Tasks
      BY <3>2 DEF JustInv, PlaceInv, PoolInv, SchedulerOK
    <3>4. CASE t \in Doomed(r)
      <4>1. PICK d \in Deps[t] : d \in failed[r]
        BY <3>4 DEF Doomed, DependencyFailed
      <4> QED
        BY <1>1, <3>2, <4>1
    <3>5. CASE t \notin Doomed(r)
      <4>1. PICK d \in Deps[t] : d \notin completed[r]
        BY <3>1, <3>2, <3>5 DEF Ready, DependenciesMet
      <4>2. d \in Tasks
        BY <3>3, PoolAssumption
      <4>3. step[r][d] = "idle"
        BY <3>1, <4>2 DEF InProgress
      <4>4. d \in SetOf(plan[r]) => d \in remaining[r] \/ d \in failed[r] \/ d \in skipped[r]
        BY <4>1, <4>2, <4>3 DEF JustInv, PlaceInv, OnePlace
      <4> QED
        BY <1>1, <3>1, <3>2, <4>4
    <3> QED
      BY <3>4, <3>5
  <2>3. CASE \E v \in Tasks : Execute(r, v)
    <3>1. skipped' = skipped
      BY <2>3, ReleaseMoves, HolderMoves DEF Execute, JustInv, PlaceInv, schedulerVars
    <3> QED
      BY <1>3, <3>1
  <2> QED
    BY <2>1, <2>2, <2>3 DEF Schedule
<1> QED
  BY <1>2, <1>3

\* COMPLETED is written by an execution that completed what it depends on.
LEMMA EarnedStepOK ==
    ASSUME JustInv, NEW r \in Runs, Schedule(r) \/ \E t \in Tasks : Execute(r, t)
    PROVE  CompletedIsEarned'
<1> SUFFICES ASSUME NEW t \in Tasks, status'[t] = "COMPLETED"
             PROVE  \E u \in Runs : /\ t \in completed'[u] \/ step'[u][t] = "completed"
                                    /\ Deps[t] \subseteq completed'[u]
  BY DEF CompletedIsEarned, At
<1>1. CASE status[t] = "COMPLETED"
  <2>1. PICK u \in Runs : /\ t \in completed[u] \/ step[u][t] = "completed"
                          /\ Deps[t] \subseteq completed[u]
    BY <1>1 DEF JustInv, CompletedIsEarned, At
  <2>2. completed[u] \subseteq completed'[u]
        /\ (step[u][t] = "completed" => step'[u][t] = "completed" \/ t \in completed'[u])
    BY ResultsGrow DEF JustInv
  <2> QED
    BY <2>1, <2>2
<1>2. CASE status[t] # "COMPLETED"
  <2>1. status' # status
    BY <1>2
  <2>2. PICK v \in Tasks : Begin(r, v) \/ SaveOutcome(r, v)
    BY <2>1 DEF Schedule, StartBatch, SkipRest, Execute, CallFails, CallAnswers, Release
  <2>3. status \in [Tasks -> Status]
    BY DEF JustInv, PlaceInv, PoolInv, StepsOK
  <2>4. v = t /\ At(r, t, "answered") /\ Goes(r, t, "completed") /\ UNCHANGED schedulerVars
    BY <1>2, <2>1, <2>2, <2>3 DEF Begin, SaveOutcome, StatusWritten
  <2>5. step'[r][t] = "completed" /\ step[r][t] = "answered"
    BY <2>4 DEF At, Goes, JustInv, PlaceInv, PoolInv, StepsOK
  <2>6. Deps[t] \subseteq completed[r]
    BY <2>5 DEF JustInv, PlaceInv, StartedIsReady
  <2> QED
    BY <2>4, <2>5, <2>6 DEF schedulerVars
<1> QED
  BY <1>1, <1>2

\* Every task that is skipped is so for a reason, and every task Redis has as
\* COMPLETED was completed where its dependencies were, for any runs and plans.
THEOREM OutcomesJustified == Spec => []OutcomesAreJustified
<1>1. Init => JustInv
  <2>1. Init => SkipsAreJustified /\ CompletedIsEarned
    BY DEF Init, SkipsAreJustified, CompletedIsEarned
  <2> QED
    BY <2>1, PoolInitOK, PlaceInitOK DEF JustInv, PlaceInv
<1>2. JustInv /\ [Next]_vars => JustInv'
  <2> SUFFICES ASSUME JustInv, [Next]_vars PROVE JustInv'
    OBVIOUS
  <2>1. PlaceInv'
    BY PlaceStepOK DEF JustInv
  <2>2. CASE UNCHANGED vars
    BY <2>1, <2>2 DEF JustInv, SkipsAreJustified, CompletedIsEarned, At, vars, schedulerVars
  <2>3. CASE Next
    <3>1. PICK r \in Runs : Schedule(r) \/ \E t \in Tasks : Execute(r, t)
      BY <2>3 DEF Next
    <3> QED
      BY <2>1, <3>1, SkipsStepOK, EarnedStepOK DEF JustInv
  <2> QED
    BY <2>2, <2>3
<1>3. JustInv => OutcomesAreJustified
  BY DEF JustInv, OutcomesAreJustified
<1> QED
  BY <1>1, <1>2, <1>3, PTL DEF Spec

-----------------------------------------------------------------------------
(* The refinement.                                                         *)

\* What the abstract specification sees, in the terms of the scheduler.
LEMMA PhasesNow ==
    ASSUME OnePlace, NEW r \in Runs, NEW t \in Tasks
    PROVE  /\ TaskPhase(r, t) \in {"waiting", "running", "succeeded", "failed", "skipped"}
           /\ (TaskPhase(r, t) = "succeeded") <=> (t \in completed[r])
           /\ (TaskPhase(r, t) = "failed") <=> (t \in failed[r])
           /\ (TaskPhase(r, t) = "waiting") <=> (t \in remaining[r] \/ step[r][t] = "queued")
           /\ (TaskPhase(r, t) = "running") <=> (step[r][t] \notin {"idle", "queued"})
<1>1. /\ t \in remaining[r] => step[r][t] = "idle" /\ t \notin completed[r]
                                 /\ t \notin failed[r]
      /\ step[r][t] # "idle" => t \notin completed[r] /\ t \notin failed[r]
      /\ t \in completed[r] => t \notin failed[r]
  BY DEF OnePlace
<1>2. CASE t \in completed[r]
  <2>1. TaskPhase(r, t) = "succeeded"
    BY <1>1, <1>2 DEF TaskPhase, At
  <2> QED
    BY <1>1, <1>2, <2>1
<1>3. CASE t \in failed[r]
  <2>1. TaskPhase(r, t) = "failed"
    BY <1>1, <1>3 DEF TaskPhase, At
  <2> QED
    BY <1>1, <1>3, <2>1
<1>4. CASE t \notin completed[r] /\ t \notin failed[r]
           /\ (t \in remaining[r] \/ step[r][t] = "queued")
  <2>1. TaskPhase(r, t) = "waiting"
    BY <1>1, <1>4 DEF TaskPhase, At
  <2> QED
    BY <1>1, <1>4, <2>1
<1>5. CASE t \notin completed[r] /\ t \notin failed[r] /\ t \notin remaining[r]
           /\ step[r][t] # "queued"
  <2>1. TaskPhase(r, t) = IF step[r][t] # "idle" THEN "running" ELSE "skipped"
    BY <1>1, <1>5 DEF TaskPhase, At
  <2> QED
    BY <1>5, <2>1
<1> QED
  BY <1>2, <1>3, <1>4, <1>5

\* The same of the state after a step.
LEMMA PhasesNext ==
    ASSUME OnePlace', NEW r \in Runs, NEW t \in Tasks
    PROVE  /\ TaskPhase(r, t)' \in {"waiting", "running", "succeeded", "failed", "skipped"}
           /\ (TaskPhase(r, t)' = "succeeded") <=> (t \in completed'[r])
           /\ (TaskPhase(r, t)' = "failed") <=> (t \in failed'[r])
           /\ (TaskPhase(r, t)' = "waiting") <=> (t \in remaining'[r] \/ step'[r][t] = "queued")
           /\ (TaskPhase(r, t)' = "running") <=> (step'[r][t] \notin {"idle", "queued"})
<1>1. /\ t \in remaining'[r] => step'[r][t] = "idle" /\ t \notin completed'[r]
                                 /\ t \notin failed'[r]
      /\ step'[r][t] # "idle" => t \notin completed'[r] /\ t \notin failed'[r]
      /\ t \in completed'[r] => t \notin failed'[r]
  BY DEF OnePlace
<1>2. CASE t \in completed'[r]
  <2>1. TaskPhase(r, t)' = "succeeded"
    BY <1>1, <1>2 DEF TaskPhase, At
  <2> QED
    BY <1>1, <1>2, <2>1
<1>3. CASE t \in failed'[r]
  <2>1. TaskPhase(r, t)' = "failed"
    BY <1>1, <1>3 DEF TaskPhase, At
  <2> QED
    BY <1>1, <1>3, <2>1
<1>4. CASE t \notin completed'[r] /\ t \notin failed'[r]
           /\ (t \in remaining'[r] \/ step'[r][t] = "queued")
  <2>1. TaskPhase(r, t)' = "waiting"
    BY <1>1, <1>4 DEF TaskPhase, At
  <2> QED
    BY <1>1, <1>4, <2>1
<1>5. CASE t \notin completed'[r] /\ t \notin failed'[r] /\ t \notin remaining'[r]
           /\ step'[r][t] # "queued"
  <2>1. TaskPhase(r, t)' = IF step'[r][t] # "idle" THEN "running" ELSE "skipped"
    BY <1>1, <1>5 DEF TaskPhase, At
  <2> QED
    BY <1>5, <2>1
<1> QED
  BY <1>2, <1>3, <1>4, <1>5

\* A task is where it was.
Stays(r, t) ==
    /\ \/ step'[r][t] = step[r][t]
       \/ step[r][t] \notin {"idle", "queued"} /\ step'[r][t] \notin {"idle", "queued"}
    /\ (t \in remaining'[r]) <=> (t \in remaining[r])
    /\ (t \in completed'[r]) <=> (t \in completed[r])
    /\ (t \in failed'[r]) <=> (t \in failed[r])

\* What a step may do to one task, in the terms of the abstract specification.
Moves(r, t) ==
    \/ TaskPhase(r, t)' = TaskPhase(r, t)
    \/ TaskPhase(r, t) = "waiting" /\ TaskPhase(r, t)' = "running"
          /\ Deps[t] \subseteq {d \in Tasks : TaskPhase(r, d) = "succeeded"}
    \/ /\ TaskPhase(r, t) = "waiting" /\ TaskPhase(r, t)' = "skipped"
       /\ \/ Deps[t] \cap {d \in Tasks : TaskPhase(r, d) = "failed"} # {}
          \/ /\ {d \in Tasks : TaskPhase(r, d) = "running"} = {}
             /\ \A u \in {d \in Tasks : TaskPhase(r, d) = "waiting"} :
                   ~(Deps[u] \subseteq {d \in Tasks : TaskPhase(r, d) = "succeeded"})
    \/ TaskPhase(r, t) = "running" /\ TaskPhase(r, t)' \in {"succeeded", "failed"}

\* A task whose place does not change keeps its phase.
LEMMA StayMoves ==
    ASSUME NEW r \in Runs, NEW t \in Tasks, Stays(r, t)
    PROVE  Moves(r, t)
<1>1. TaskPhase(r, t)' = TaskPhase(r, t)
  BY DEF Stays, TaskPhase, At
<1> QED
  BY <1>1 DEF Moves

\* The sets of a run by phase.
LEMMA PhaseSets ==
    ASSUME PlaceInv, NEW r \in Runs
    PROVE  /\ {d \in Tasks : TaskPhase(r, d) = "succeeded"} = completed[r]
           /\ {d \in Tasks : TaskPhase(r, d) = "failed"} = failed[r]
<1>1. completed[r] \subseteq Tasks /\ failed[r] \subseteq Tasks
  BY DEF PlaceInv, PoolInv, SchedulerOK
<1> QED
  BY <1>1, PhasesNow DEF PlaceInv

\* A batch is started, or put in the queue, as the abstract specification allows.
LEMMA StartBatchRefines ==
    ASSUME PlaceInv, PlaceInv', NEW r \in Runs, StartBatch(r), NEW s \in Runs, NEW t \in Tasks
    PROVE  Moves(s, t)
<1>1. PICK started \in SUBSET Ready(r) :
         /\ \A u \in Runs \ {r} : /\ step'[u] = step[u] /\ remaining'[u] = remaining[u]
                                  /\ skipped'[u] = skipped[u]
         /\ \A v \in Tasks :
               /\ step[r][v] = "idle"
               /\ step'[r][v] \in IF v \in started THEN {"granted", "queued"} ELSE {"idle"}
         /\ remaining'[r] = remaining[r] \ (Doomed(r) \cup started)
         /\ skipped'[r] = skipped[r] \cup Doomed(r)
         /\ UNCHANGED <<plan, completed, failed>>
  BY StartBatchMoves DEF PlaceInv
<1>2. CASE s # r
  <2>1. step'[s] = step[s] /\ remaining'[s] = remaining[s]
    BY <1>1, <1>2
  <2>2. Stays(s, t)
    BY <1>1, <2>1 DEF Stays
  <2> QED
    BY <2>2, StayMoves
<1>3. CASE s = r /\ t \in started
  <2>1. t \in remaining[r] /\ Deps[t] \subseteq completed[r]
    BY <1>3 DEF Ready, DependenciesMet
  <2>2. TaskPhase(r, t) = "waiting" /\ TaskPhase(r, t)' \in {"running", "waiting"}
    BY <1>1, <1>3, <2>1, PhasesNow, PhasesNext DEF PlaceInv
  <2> QED
    BY <1>3, <2>1, <2>2, PhaseSets DEF Moves
<1>4. CASE s = r /\ t \in Doomed(r)
  <2>1. t \in remaining[r] /\ Deps[t] \cap failed[r] # {} /\ t \in skipped'[r]
    BY <1>1, <1>4 DEF Doomed, DependencyFailed
  <2>2. TaskPhase(r, t) = "waiting" /\ TaskPhase(r, t)' = "skipped"
    <3>1. /\ t \notin completed'[r] /\ t \notin failed'[r] /\ t \notin remaining'[r]
          /\ step'[r][t] = "idle"
      BY <2>1 DEF PlaceInv, OnePlace
    <3> QED
      BY <2>1, <3>1, PhasesNow DEF PlaceInv, TaskPhase, At
  <2> QED
    BY <1>4, <2>1, <2>2, PhaseSets DEF Moves
<1>5. CASE s = r /\ t \notin started /\ t \notin Doomed(r)
  <2>1. step'[r][t] = step[r][t] /\ (t \in remaining'[r] <=> t \in remaining[r])
    BY <1>1, <1>5
  <2>2. Stays(r, t)
    BY <1>1, <2>1 DEF Stays
  <2> QED
    BY <1>5, <2>2, StayMoves
<1> QED
  BY <1>2, <1>3, <1>4, <1>5

\* What is left is skipped only when nothing of the run can start any more.
LEMMA SkipRestRefines ==
    ASSUME PlaceInv, PlaceInv', NEW r \in Runs, SkipRest(r), NEW s \in Runs, NEW t \in Tasks
    PROVE  Moves(s, t)
<1>1. /\ InProgress(r) = {} /\ Ready(r) = {}
      /\ UNCHANGED <<plan, completed, failed, step>>
      /\ \A u \in Runs \ {r} : remaining'[u] = remaining[u]
      /\ remaining'[r] = {} /\ skipped'[r] = skipped[r] \cup remaining[r]
  BY DEF SkipRest, PlaceInv, PoolInv, SchedulerOK
<1>2. CASE s # r \/ t \notin remaining[r]
  <2>1. (t \in remaining'[s]) <=> (t \in remaining[s])
    BY <1>1, <1>2
  <2>2. Stays(s, t)
    BY <1>1, <2>1 DEF Stays
  <2> QED
    BY <2>2, StayMoves
<1>3. CASE s = r /\ t \in remaining[r]
  <2>1. TaskPhase(r, t) = "waiting" /\ TaskPhase(r, t)' = "skipped"
    <3>1. /\ t \in skipped'[r] /\ t \notin completed'[r] /\ t \notin failed'[r]
          /\ t \notin remaining'[r] /\ step'[r][t] = "idle"
      BY <1>1, <1>3 DEF PlaceInv, OnePlace
    <3> QED
      BY <1>3, <3>1, PhasesNow DEF PlaceInv, TaskPhase, At
  <2>2. \A v \in Tasks : step[r][v] = "idle"
    BY <1>1 DEF InProgress
  <2>3. {d \in Tasks : TaskPhase(r, d) = "running"} = {}
    BY <2>2, PhasesNow DEF PlaceInv
  <2>4. ASSUME NEW u \in Tasks, TaskPhase(r, u) = "waiting"
        PROVE  ~(Deps[u] \subseteq completed[r])
    <3>1. u \in remaining[r]
      BY <2>2, <2>4, PhasesNow DEF PlaceInv
    <3>2. CASE u \in Doomed(r)
      <4>1. PICK d \in Deps[u] : d \in failed[r]
        BY <3>2 DEF Doomed, DependencyFailed
      <4>2. d \notin completed[r]
        BY <4>1 DEF PlaceInv, OnePlace, PoolInv, SchedulerOK
      <4> QED
        BY <4>1, <4>2
    <3>3. CASE u \notin Doomed(r)
      BY <1>1, <3>1, <3>3 DEF Ready, DependenciesMet
    <3> QED
      BY <3>2, <3>3
  <2> QED
    BY <1>3, <2>1, <2>3, <2>4, PhaseSets DEF Moves
<1> QED
  BY <1>2, <1>3

\* An execution runs and settles as the abstract specification allows; the one
\* that is handed its slot still has its dependencies completed.
LEMMA ExecuteRefines ==
    ASSUME PlaceInv, PlaceInv', NEW r \in Runs, NEW v \in Tasks, Execute(r, v),
           NEW s \in Runs, NEW t \in Tasks
    PROVE  Moves(s, t)
<1>1. CASE Begin(r, v) \/ CallFails(r, v) \/ CallAnswers(r, v) \/ SaveOutcome(r, v)
  <2>1. /\ \/ step'[s][t] = step[s][t]
           \/ step[s][t] \notin {"idle", "queued"} /\ step'[s][t] \notin {"idle", "queued"}
        /\ UNCHANGED schedulerVars
    BY <1>1, HolderMoves DEF PlaceInv
  <2>2. Stays(s, t)
    BY <2>1 DEF Stays, schedulerVars
  <2> QED
    BY <2>2, StayMoves
<1>2. CASE Release(r, v)
  <2>1. /\ step[r][v] \in {"completed", "failed"} /\ step'[r][v] = "idle"
        /\ \A u \in Runs, x \in Tasks : u # r \/ x # v =>
              \/ step'[u][x] = step[u][x]
              \/ step[u][x] = "queued" /\ step'[u][x] = "granted"
        /\ \A u \in Runs \ {r} : completed'[u] = completed[u] /\ failed'[u] = failed[u]
        /\ completed'[r] = completed[r] \cup {x \in {v} : step[r][v] = "completed"}
        /\ failed'[r] = failed[r] \cup {x \in {v} : step[r][v] = "failed"}
        /\ UNCHANGED <<plan, remaining, skipped>>
    BY <1>2, ReleaseMoves DEF PlaceInv
  <2>2. CASE s = r /\ t = v
    <3>1. v \in completed'[r] \/ v \in failed'[r]
      BY <2>1
    <3>2. TaskPhase(r, v) = "running" /\ TaskPhase(r, v)' \in {"succeeded", "failed"}
      BY <2>1, <3>1, PhasesNow, PhasesNext DEF PlaceInv
    <3> QED
      BY <2>2, <3>2 DEF Moves
  <2>3. CASE (s # r \/ t # v) /\ step'[s][t] = step[s][t]
    <3>1. t \in completed'[s] <=> t \in completed[s]
      BY <2>1, <2>3
    <3>2. t \in failed'[s] <=> t \in failed[s]
      BY <2>1, <2>3
    <3>3. Stays(s, t)
      BY <2>1, <2>3, <3>1, <3>2 DEF Stays
    <3> QED
      BY <3>3, StayMoves
  <2>4. CASE step[s][t] = "queued" /\ step'[s][t] = "granted"
    <3>1. TaskPhase(s, t) = "waiting" /\ TaskPhase(s, t)' = "running"
      BY <2>4, PhasesNow, PhasesNext DEF PlaceInv
    <3>2. Deps[t] \subseteq completed[s]
      BY <2>4 DEF PlaceInv, StartedIsReady
    <3> QED
      BY <3>1, <3>2, PhaseSets DEF Moves
  <2> QED
    BY <2>1, <2>2, <2>3, <2>4
<1> QED
  BY <1>1, <1>2 DEF Execute

\* Every step of the pool is a step of the abstract specification or none.
LEMMA StepRefines ==
    PlaceInv /\ PlaceInv' /\ [Next]_vars =>
        [Abstract!Next]_[r \in Runs |-> [t \in Tasks |-> TaskPhase(r, t)]]
<1> SUFFICES ASSUME PlaceInv, PlaceInv', [Next]_vars
             PROVE  [Abstract!Next]_[r \in Runs |-> [t \in Tasks |-> TaskPhase(r, t)]]
  OBVIOUS
<1> DEFINE phase == [r \in Runs |-> [t \in Tasks |-> TaskPhase(r, t)]]
<1>1. CASE UNCHANGED vars
  BY <1>1 DEF TaskPhase, At, vars, schedulerVars
<1>2. CASE Next
  <2>1. \A s \in Runs, t \in Tasks : Moves(s, t)
    BY <1>2, StartBatchRefines, SkipRestRefines, ExecuteRefines DEF Next, Schedule
  <2>2. \A s \in Runs, t \in Tasks :
           phase[s][t] = TaskPhase(s, t) /\ phase'[s][t] = TaskPhase(s, t)'
    OBVIOUS
  <2>3. DOMAIN phase' = Runs /\ \A s \in Runs : DOMAIN phase'[s] = Tasks
    OBVIOUS
  <2>4. \A s \in Runs, t \in Tasks : phase'[s][t] = phase[s][t] \/ Abstract!Move(s, t)
    BY <2>1, <2>2 DEF Moves, Abstract!Move, Abstract!Doomed, Abstract!Succeeded,
       Abstract!Quiet, Abstract!In
  <2>5. Abstract!Cardinality(Abstract!AtOnce(phase')) <= MaxActive
    <3>1. Abstract!AtOnce(phase') = Holders'
      BY <2>2, PhasesNext DEF Abstract!AtOnce, Holders, Executions, PlaceInv
    <3>2. Abstract!Cardinality(Holders') = Cardinality(Holders')
      BY DEF Abstract!Cardinality, Cardinality
    <3> QED
      BY <3>1, <3>2 DEF PlaceInv, PoolInv, SlotsOK
  <2> QED
    BY <2>3, <2>4, <2>5 DEF Abstract!Next
<1> QED
  BY <1>1, <1>2

\* The scheduler and the executor keep what TaskExecution promises.
THEOREM Refinement == Spec => ImplementsTaskExecution
<1>1. Init => Abstract!Init
  BY DEF Init, Abstract!Init, TaskPhase, At
<1>2. PlaceInv /\ PlaceInv' /\ [Next]_vars =>
         [Abstract!Next]_[r \in Runs |-> [t \in Tasks |-> TaskPhase(r, t)]]
  BY StepRefines
<1> QED
  BY <1>1, <1>2, PlaceInvariance, PTL DEF Spec, Abstract!Spec, ImplementsTaskExecution
=============================================================================
