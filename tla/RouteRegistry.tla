----------------------------- MODULE RouteRegistry -----------------------------
(***************************************************************************)
(* The routing registry (model-router.ts): kept in Redis under one key and *)
(* its version under another, cached by every process, and looked up by    *)
(* the version.  A registry is told apart by the save that wrote it.       *)
(***************************************************************************)
EXTENDS Naturals, FiniteSets

CONSTANTS
    Processes,
    MaxSaves,      \* bound: saves of a registry
    MaxFaults      \* bound: Redis commands that fail

ASSUME RegistryAssumption == IsFiniteSet(Processes) /\ MaxSaves \in Nat /\ MaxFaults \in Nat

VARIABLES
    registry,      \* models:registry, 0 before the first save
    tag,           \* models:registry:version, 0 if absent
    saves, faults,
    doing,         \* of each process: what it does next
    got,           \* of each process: what it has read, and whether it has
    kept,          \* registryCache of each process
    broken         \* history: a save failed half way or began its versions again

rvars == <<registry, tag, saves, faults, doing, got, kept, broken>>

\* The defaults of the program, when there is no registry to read.
Defaults == 0

NothingRead == [registry |-> Defaults, tag |-> 0, have |-> {}, whole |-> TRUE, raced |-> FALSE]
NotCached   == [registry |-> Defaults, tag |-> 0, cached |-> FALSE, whole |-> TRUE, raced |-> FALSE]

Now(p, step) == doing' = [doing EXCEPT ![p] = step]
Fault == faults < MaxFaults /\ faults' = faults + 1

RInit ==
    /\ registry = Defaults /\ tag = 0 /\ saves = 0 /\ faults = 0 /\ broken = FALSE
    /\ doing = [p \in Processes |-> "idle"]
    /\ got = [p \in Processes |-> NothingRead] /\ kept = [p \in Processes |-> NotCached]

\* readRegistry of a process that has a registry: the version alone is read; no
\* answer counts as version 0.
CheckVersion(p) ==
    /\ doing[p] = "idle" /\ kept[p].cached
    /\ \/ Now(p, IF kept[p].tag = tag THEN "idle" ELSE "read") /\ UNCHANGED faults
       \/ Fault /\ Now(p, IF kept[p].tag = 0 THEN "idle" ELSE "read")
    /\ UNCHANGED <<registry, tag, saves, got, kept, broken>>

StartRead(p) ==
    /\ doing[p] = "idle" /\ ~kept[p].cached /\ Now(p, "read")
    /\ UNCHANGED <<registry, tag, saves, faults, got, kept, broken>>

\* What a process has read with the answer to one more key; and the registry may
\* have changed since it read that.
Answered(p, key) ==
    [registry |-> IF key = "registry" THEN registry ELSE got[p].registry,
     tag   |-> IF key = "tag" THEN tag ELSE got[p].tag,
     have  |-> got[p].have \cup {key},
     whole |-> got[p].whole,
     raced |-> IF key = "tag" /\ "registry" \in got[p].have /\ got[p].registry # registry
               THEN TRUE ELSE got[p].raced]

\* Both are read at the same time: the answers come in either order, or not at all.
ReadKey(p, key) ==
    /\ doing[p] = "read" /\ key \notin got[p].have
    /\ \/ got' = [got EXCEPT ![p] = Answered(p, key)] /\ UNCHANGED faults
       \/ Fault /\ got' = [got EXCEPT ![p].have = @ \cup {key}, ![p].whole = FALSE]
    /\ UNCHANGED <<registry, tag, saves, doing, kept, broken>>

Keep(p) ==
    /\ doing[p] = "read" /\ got[p].have = {"registry", "tag"}
    /\ kept' = [kept EXCEPT ![p] = [registry |-> got[p].registry, tag |-> got[p].tag, cached |-> TRUE,
                                    whole |-> got[p].whole, raced |-> got[p].raced]]
    /\ got' = [got EXCEPT ![p] = NothingRead] /\ Now(p, "idle")
    /\ UNCHANGED <<registry, tag, saves, faults, broken>>

\* Mutant: the version first, then the registry.
SetVersionFirst(p) ==
    \/ /\ doing[p] = "idle" /\ saves < MaxSaves /\ saves' = saves + 1
       /\ tag' = tag + 1 /\ Now(p, "set")
       /\ UNCHANGED <<registry, faults, got, kept, broken>>
    \/ /\ doing[p] = "set" /\ registry' = saves /\ Now(p, "reload")
       /\ UNCHANGED <<tag, saves, faults, got, kept, broken>>

\* saveRoutingRegistry: the registry first, ...
SetRegistry(p) ==
    /\ doing[p] = "idle" /\ saves < MaxSaves
    /\ saves' = saves + 1 /\ registry' = saves + 1 /\ Now(p, "bump")
    /\ UNCHANGED <<tag, faults, got, kept, broken>>

\* ... then its version, which begins again at 1 if it cannot be raised, ...
BumpVersion(p) ==
    /\ doing[p] = "bump"
    /\ \/ tag' = tag + 1 /\ Now(p, "reload") /\ UNCHANGED <<faults, broken>>
       \/ Fault /\ tag' = 1 /\ Now(p, "reload") /\ broken' = TRUE
       \/ Fault /\ Now(p, "idle") /\ broken' = TRUE /\ UNCHANGED tag
    /\ UNCHANGED <<registry, saves, got, kept>>

\* ... then forceReloadRouting: the registry is read whatever the version.
Reload(p) ==
    /\ doing[p] = "reload" /\ Now(p, "read") /\ kept' = [kept EXCEPT ![p] = NotCached]
    /\ UNCHANGED <<registry, tag, saves, faults, got, broken>>

RNext ==
    \E p \in Processes :
      \/ CheckVersion(p) \/ StartRead(p) \/ (\E key \in {"registry", "tag"} : ReadKey(p, key)) \/ Keep(p)
      \/ SetRegistry(p) \/ BumpVersion(p) \/ Reload(p)

RSpec == RInit /\ [][RNext]_rvars

-----------------------------------------------------------------------------
\* A process that finds the version it has goes on with the registry it has: that
\* is the one in Redis, once every save is through, unless the registry changed
\* between its own two reads, or one of them or of the saves' commands failed
\* (model-router.ts 142-201, 270-280).
StaleOnlyByRaceOrFault ==
    (\A p \in Processes : doing[p] # "bump") /\ ~broken =>
        \A p \in Processes :
            kept[p].cached /\ kept[p].tag = tag /\ kept[p].whole /\ ~kept[p].raced =>
                kept[p].registry = registry
===============================================================================
