-------------------------------- MODULE Leases --------------------------------
(***************************************************************************)
(* Leases of tasks to workers (runtime/agent/distributed-execution.ts): a  *)
(* map of the coordinator from a task to the worker that leased it and its *)
(* last heartbeat.  heartbeat and release name the task alone.             *)
(***************************************************************************)
EXTENDS Naturals, FiniteSets

CONSTANTS
    Workers, LeasedTasks,
    Timeout,          \* timeoutMs, in ticks
    MaxRecoveries     \* bound: recoveries of a task

ASSUME LeasesAssumption ==
    /\ IsFiniteSet(Workers) /\ "none" \notin Workers
    /\ Timeout \in Nat /\ MaxRecoveries \in Nat

VARIABLES
    lease,       \* of each task: its worker and the ticks since its heartbeat, or Free
    works,       \* of each task: the workers that took it and have not ended it
    recovered    \* of each task: how often its lease timed out

lvars == <<lease, works, recovered>>

Free == [worker |-> "none", age |-> 0]
Given(w) == [worker |-> w, age |-> 0]

LInit ==
    /\ lease = [t \in LeasedTasks |-> Free]
    /\ works = [t \in LeasedTasks |-> {}]
    /\ recovered = [t \in LeasedTasks |-> 0]

\* Mutant: whoever asks gets the lease.
AcquireAlways(w, t) ==
    /\ lease' = [lease EXCEPT ![t] = Given(w)]
    /\ works' = [works EXCEPT ![t] = @ \cup {w}]
    /\ UNCHANGED recovered

\* A free task, or a task of one's own.
Acquire(w, t) ==
    /\ lease[t] = Free \/ lease[t].worker = w
    /\ lease' = [lease EXCEPT ![t] = Given(w)]
    /\ works' = [works EXCEPT ![t] = @ \cup {w}]
    /\ UNCHANGED recovered

\* It refreshes the lease of whoever has it by now.
Heartbeat(w, t) ==
    /\ w \in works[t] /\ lease[t] # Free
    /\ lease' = [lease EXCEPT ![t].age = 0]
    /\ UNCHANGED <<works, recovered>>

\* It ends the lease of whoever has it by now.
Release(w, t) ==
    /\ w \in works[t]
    /\ lease' = [lease EXCEPT ![t] = Free]
    /\ works' = [works EXCEPT ![t] = @ \ {w}]
    /\ UNCHANGED recovered

WorkerDies(w) ==
    /\ \E t \in LeasedTasks : w \in works[t]
    /\ works' = [t \in LeasedTasks |-> works[t] \ {w}]
    /\ UNCHANGED <<lease, recovered>>

TimedOut(t) == lease[t] # Free /\ lease[t].age > Timeout

recoverTimedOutLeases ==
    /\ \E t \in LeasedTasks : TimedOut(t)
    /\ \A t \in LeasedTasks : TimedOut(t) => recovered[t] < MaxRecoveries
    /\ lease' = [t \in LeasedTasks |-> IF TimedOut(t) THEN Free ELSE lease[t]]
    /\ recovered' = [t \in LeasedTasks |-> IF TimedOut(t) THEN recovered[t] + 1 ELSE recovered[t]]
    /\ UNCHANGED works

Ages ==
    /\ lease' = [t \in LeasedTasks |-> IF lease[t] = Free \/ TimedOut(t) THEN lease[t]
                                       ELSE [lease[t] EXCEPT !.age = @ + 1]]
    /\ UNCHANGED <<works, recovered>>

LNext ==
    \/ \E w \in Workers :
         \/ \E t \in LeasedTasks : Acquire(w, t) \/ Heartbeat(w, t) \/ Release(w, t)
         \/ WorkerDies(w)
    \/ recoverTimedOutLeases \/ Ages

LSpec == LInit /\ [][LNext]_lvars

-----------------------------------------------------------------------------
\* As many workers work on a task as its lease timed out, and one: although a
\* worker may end and refresh the lease of another, that alone never lets a third
\* one in beside them (distributed-execution.ts 16-81).
OverlapsOnlyByRecovery ==
    \A t \in LeasedTasks : Cardinality(works[t]) <= 1 + recovered[t]
===============================================================================
