---------------------------- MODULE TaskExecution ---------------------------
(***************************************************************************)
(* What running plans of subagent tasks promises, whatever schedules them: *)
(* a task runs at most once in a run, after all it depends on succeeded in *)
(* that run, is skipped only if one of these never will, and no more than  *)
(* MaxActive tasks run at a time.  A step may move any number of tasks.    *)
(***************************************************************************)
EXTENDS FiniteSets, Naturals

CONSTANTS Runs, Tasks, Deps, MaxActive

VARIABLE phase       \* phase[r][t]: where the task t of the run r is

Phase == {"waiting", "running", "succeeded", "failed", "skipped"}

In(p, r) == {t \in Tasks : phase[r][t] = p}

Succeeded(r) == In("succeeded", r)

\* Nothing of the run is under way.
Quiet(r) == In("running", r) = {}

\* A task that waits for others: for a failed one, or, when nothing of the run
\* is under way, for anything that did not succeed.
Doomed(r, t) ==
    \/ Deps[t] \cap In("failed", r) # {}
    \/ Quiet(r) /\ \A u \in In("waiting", r) : ~(Deps[u] \subseteq Succeeded(r))

Init == phase \in [Runs -> [Tasks -> {"waiting", "skipped"}]]

\* A move of one task.
Move(r, t) ==
    \/ phase[r][t] = "waiting" /\ phase'[r][t] = "running" /\ Deps[t] \subseteq Succeeded(r)
    \/ phase[r][t] = "waiting" /\ phase'[r][t] = "skipped" /\ Doomed(r, t)
    \/ phase[r][t] = "running" /\ phase'[r][t] \in {"succeeded", "failed"}

AtOnce(p) == {e \in Runs \X Tasks : p[e[1]][e[2]] = "running"}

Next ==
    /\ DOMAIN phase' = Runs /\ \A r \in Runs : DOMAIN phase'[r] = Tasks
    /\ \A r \in Runs, t \in Tasks : phase'[r][t] = phase[r][t] \/ Move(r, t)
    /\ Cardinality(AtOnce(phase')) <= MaxActive

Spec == Init /\ [][Next]_phase
=============================================================================
