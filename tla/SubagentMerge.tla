----------------------------- MODULE SubagentMerge -----------------------------
(***************************************************************************)
(* The merge of a plan's outputs (subagent-merge.ts): a walk over the      *)
(* dependencies puts the tasks in order, call by call, and the outputs of  *)
(* those that succeeded are joined in that order, each text once.          *)
(*                                                                         *)
(* It is given a list of tasks and what the scheduler made of some of      *)
(* them: all, or those a resumed plan still had to run.  An output is told *)
(* apart by its normal form.                                               *)
(***************************************************************************)
EXTENDS Naturals, Sequences, FiniteSets, SequencesExt

CONSTANTS
    Listed,        \* the lists of tasks to merge
    Needs,         \* task.dependencies, in their order, in the list or not
    Texts,         \* normal forms of outputs
    MaxDepth       \* bound: calls the stack has room for

ASSUME MergeAssumption ==
    /\ MaxDepth \in Nat
    /\ \A t \in DOMAIN Needs : Needs[t] \in Seq(ToSet(Needs[t]))
    /\ \A l \in Listed :
          /\ l \in Seq(DOMAIN Needs)
          /\ \A i, j \in DOMAIN l : l[i] = l[j] => i = j
          /\ Len(l) <= MaxDepth

Blank == "blank"

VARIABLES
    list, outcomes, \* the input: each task's outcome and output
    position,      \* how many tasks of the list were visited by the loop
    path,          \* the visits under way: the task, and its next dependency
    sorted,
    walk,          \* "sorting", "overflow" (a RangeError), "merged"
    merge          \* the MergeResult, nothing before the merge

gvars == <<list, outcomes, position, path, sorted, walk, merge>>

DependsOn(t) == ToSet(Needs[t])

\* A task of the list waits for one that is not in it.
CutOff == \E t \in ToSet(list) : ~(DependsOn(t) \subseteq ToSet(list))

\* What a run of the scheduler makes of the tasks it is given: it runs a task
\* when it has completed all that the task needs, so none of a cycle, and skips
\* the rest.  A resumed plan gives it those that were pending or had failed, but
\* merges them all.
Result == [outcome : {"completed"}, output : Texts \cup {Blank}]
          \cup [outcome : {"failed", "skipped", "not run"}, output : {Blank}]

Scheduled(l, r) ==
    LET ran == {t \in ToSet(l) : r[t].outcome \in {"completed", "failed"}}
        met(t) == \A u \in DependsOn(t) : u \in ToSet(l) /\ r[u].outcome = "completed"
    IN  /\ \A t \in ran : met(t)
        /\ \A t \in ToSet(l) : r[t].outcome = "skipped" => ~met(t)
        /\ \A S \in SUBSET ran : S = {} \/ \E t \in S : DependsOn(t) \cap S = {}

SomeRun(l, r) == \E t \in ToSet(l) : r[t].outcome # "not run"

Start(l, r) ==
    /\ list = l /\ outcomes = r
    /\ position = 0 /\ path = <<>> /\ sorted = <<>>
    /\ walk = "sorting" /\ merge = <<>>

GInit ==
    \E l \in Listed : \E r \in [ToSet(l) -> Result] : Scheduled(l, r) /\ SomeRun(l, r) /\ Start(l, r)

-----------------------------------------------------------------------------
(* topologicalSort.                                                        *)

\* Mutant: a task that was visited is visited again.
ToVisitAgain(t) == t \in ToSet(list)

\* A task of the list that was not visited to the end: one under way is visited again.
ToVisit(t) == t \in ToSet(list) \ ToSet(sorted)

\* visit of one more, at the end of the path, if there is room on the stack.
Call(frames, t) ==
    IF Len(frames) < MaxDepth THEN path' = Append(frames, [task |-> t, dep |-> 1]) /\ UNCHANGED walk
    ELSE walk' = "overflow" /\ UNCHANGED path

\* The loop visits every task of the list.
VisitNext ==
    /\ walk = "sorting" /\ path = <<>> /\ position < Len(list)
    /\ position' = position + 1
    /\ IF ToVisit(list[position + 1]) THEN Call(path, list[position + 1]) ELSE UNCHANGED <<path, walk>>
    /\ UNCHANGED <<list, outcomes, sorted, merge>>

Top == path[Len(path)]

\* A visit visits first what its task depends on, ...
VisitDependency ==
    /\ walk = "sorting" /\ path # <<>> /\ Top.dep <= Len(Needs[Top.task])
    /\ LET need == Needs[Top.task][Top.dep]
           frames == [path EXCEPT ![Len(path)].dep = @ + 1]
       IN  IF ToVisit(need) THEN Call(frames, need) ELSE path' = frames /\ UNCHANGED walk
    /\ UNCHANGED <<list, outcomes, position, sorted, merge>>

\* ... then sorts it.
Sort ==
    /\ walk = "sorting" /\ path # <<>> /\ Top.dep > Len(Needs[Top.task])
    /\ sorted' = Append(sorted, Top.task)
    /\ path' = Front(path)
    /\ UNCHANGED <<list, outcomes, position, walk, merge>>

-----------------------------------------------------------------------------
(* validateMergeInputs and mergeSubagentOutputs.                           *)

Valid == \A t \in ToSet(list) : outcomes[t].outcome \in {"completed", "skipped"}

Succeeded(t) == outcomes[t].outcome = "completed" /\ outcomes[t].output # Blank

\* Of those sorted the ones that succeeded.
Sources ==
    LET taken[n \in 0 .. Len(sorted)] ==
            IF n = 0 THEN <<>>
            ELSE IF Succeeded(sorted[n]) THEN Append(taken[n - 1], sorted[n]) ELSE taken[n - 1]
    IN  taken[Len(sorted)]

\* deduplicateContent: the first of each text is kept.
FirstOfEach(texts) ==
    LET kept[n \in 0 .. Len(texts)] ==
            IF n = 0 THEN <<>>
            ELSE IF \E j \in DOMAIN kept[n - 1] : kept[n - 1][j] = texts[n] THEN kept[n - 1]
            ELSE Append(kept[n - 1], texts[n])
    IN  kept[Len(texts)]

Merge ==
    /\ walk = "sorting" /\ path = <<>> /\ position = Len(list)
    /\ walk' = "merged"
    /\ merge' = [sources |-> Sources, valid |-> Valid,
                 output |-> FirstOfEach([i \in DOMAIN Sources |-> outcomes[Sources[i]].output])]
    /\ UNCHANGED <<list, outcomes, position, path, sorted>>

\* The call has returned or thrown.
Returned == walk # "sorting" /\ UNCHANGED gvars

GNext == VisitNext \/ VisitDependency \/ Sort \/ Merge \/ Returned
GSpec == GInit /\ [][GNext]_gvars

-----------------------------------------------------------------------------
(* Properties.                                                             *)

Merged == walk = "merged"

\* In the list, t waits for u, by one dependency or several.
WaitsFor(t, u) ==
    \A S \in SUBSET ToSet(list) :
        (\A x \in S \cup {t} : DependsOn(x) \cap ToSet(list) \subseteq S) => u \in S

\* A merge takes the output of each task that succeeded with one, once, none
\* before that of a task it waits for (subagent-merge.ts:8 "in dependency
\* order") unless the two wait for each other, whatever the order of the list; of
\* equal texts the one that was there first stays where it is.
MergedInOrder == Merged =>
    LET taken == merge.sources
        text(i) == outcomes[taken[i]].output
        first == {i \in DOMAIN taken : \A j \in 1 .. i - 1 : text(j) # text(i)}
    IN  /\ ToSet(taken) = {t \in ToSet(list) : Succeeded(t)}
        /\ \A i, j \in DOMAIN taken : i < j =>
              taken[i] # taken[j] /\ (WaitsFor(taken[i], taken[j]) => WaitsFor(taken[j], taken[i]))
        /\ Len(merge.output) = Cardinality(first)
        /\ \A i \in first : merge.output[Cardinality(first \cap 1 .. i)] = text(i)

\* The walk runs out of stack only when tasks of the list wait for each other.
OverflowsInCircle == walk = "overflow" => \E t \in ToSet(list) : WaitsFor(t, t)

\* A merge that is said to be valid is one of tasks that all completed, though
\* it looks away from those that were skipped: a task is skipped after a failure,
\* which is seen, or after one that was not run, which is missing; unless the
\* list lacks what the task waits for.
ValidUnlessCutOff ==
    Merged /\ merge.valid => CutOff \/ \A t \in ToSet(list) : outcomes[t].outcome = "completed"

\* mergeSubagentOutputs merges what can be put in order, in order, and tells what it
\* lacks; but a plan that comes round to itself, whose tasks the scheduler skips, may
\* overflow its stack (subagent-merge.ts 84-166).
MergeIsSound == OverflowsInCircle /\ MergedInOrder /\ ValidUnlessCutOff
=============================================================================
