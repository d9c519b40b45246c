---------------------------- MODULE Services_proofs ----------------------------
(***************************************************************************)
(* Proofs about the gateway's shared services: Leases, RedisClient,        *)
(* EventFeed, RouteRegistry, PromptCache, WebSearch, ProjectMemory,        *)
(* SubagentMerge and TaskRouting, for any workers, processes, callers,     *)
(* sessions, tasks and requests, any times to live and any bounds.         *)
(*                                                                         *)
(* Each has an inductive invariant of its own.  OverlapsOnlyByRecovery     *)
(* counts the workers of a task; it is inductive once the one that has the *)
(* lease is set apart (Beside).  BlindNeverWrites needs that who read      *)
(* nothing lost the connection for good (SawNothing).  PassedOverAreTwins  *)
(* needs how far the numbers of the loop and of the cancellation may be    *)
(* ahead of the versions (LoopNumbers, CancelNumber), and that two events  *)
(* of one number are those of one change (OneOfANumber).                   *)
(* StaleOnlyByRaceOrFault needs that every save is counted by the version  *)
(* or about to be (SavesCounted), and NameOutlivedOnlyByDelay how old the  *)
(* cache of a name is (NameAge).  SearchesAreTold needs that of providers  *)
(* that found something one comes before all others (OneIsBest), and       *)
(* ForeignNotesFillUp from whom each record on the way to the stores comes *)
(* (RecordOK); its room is counted from the places the best of the         *)
(* session's own notes take.  MergeIsSound needs that the visits under way *)
(* are a path of dependencies (PathOK), so that a stack deeper than there  *)
(* are tasks comes round to one of them, and that what is sorted comes     *)
(* after what it depends on (SortedInv).  LeastModelsForLeastWork needs    *)
(* only what leads a chain once it is joined, without repetition, from its *)
(* parts.                                                                  *)
(***************************************************************************)
EXTENDS Leases, RedisClient, EventFeed, RouteRegistry, PromptCache,
        WebSearch, ProjectMemory, SubagentMerge, TaskRouting,
        SequenceTheorems, WellFoundedInduction, FiniteSetTheorems, TLAPS

-----------------------------------------------------------------------------
(* The leases of tasks.                                                    *)

Lease == [worker : Workers \cup {"none"}, age : Nat]

\* Those that work on the task beside the holder of its lease.
Beside(t) == works[t] \ {lease[t].worker}

LeasesTypeOK ==
    /\ lease \in [LeasedTasks -> Lease]
    /\ works \in [LeasedTasks -> SUBSET Workers]
    /\ recovered \in [LeasedTasks -> Nat]

BesideByRecovery == \A t \in LeasedTasks : Cardinality(Beside(t)) <= recovered[t]

LInv == LeasesTypeOK /\ BesideByRecovery

\* A part of a set of workers is not larger.
LEMMA Fewer ==
    ASSUME NEW S \in SUBSET Workers, NEW T \in SUBSET S
    PROVE  Cardinality(T) \in Nat /\ Cardinality(S) \in Nat /\ Cardinality(T) <= Cardinality(S)
<1>1. IsFiniteSet(S)
  BY LeasesAssumption, FS_Subset
<1> QED
  BY <1>1, FS_Subset, FS_CardinalityType

\* Leaving out one worker makes a set smaller by one at most.
LEMMA ButOne ==
    ASSUME NEW S \in SUBSET Workers, NEW w
    PROVE  /\ Cardinality(S) \in Nat /\ Cardinality(S \ {w}) \in Nat
           /\ Cardinality(S) <= 1 + Cardinality(S \ {w})
<1>1. IsFiniteSet(S)
  BY LeasesAssumption, FS_Subset
<1>2. IsFiniteSet(S \ {w}) /\ Cardinality(S \ {w}) \in {Cardinality(S), Cardinality(S) - 1}
  BY <1>1, FS_RemoveElement
<1>3. Cardinality(S) \in Nat /\ Cardinality(S \ {w}) \in Nat
  BY <1>1, <1>2, FS_CardinalityType
<1> QED
  BY <1>2, <1>3

\* Leaving out one that is in it makes a set no larger than leaving out any other.
LEMMA OneForAnother ==
    ASSUME NEW S \in SUBSET Workers, NEW w \in S, NEW v
    PROVE  Cardinality(S \ {w}) <= Cardinality(S \ {v})
<1>1. IsFiniteSet(S)
  BY LeasesAssumption, FS_Subset
<1>2. Cardinality(S \ {w}) = Cardinality(S) - 1
  BY <1>1, FS_RemoveElement
<1>3. Cardinality(S \ {v}) \in {Cardinality(S), Cardinality(S) - 1}
  BY <1>1, FS_RemoveElement
<1> QED
  BY <1>1, <1>2, <1>3, FS_CardinalityType

LEMMA LeasesStart == LInit => LInv
<1> SUFFICES ASSUME LInit PROVE LInv
  OBVIOUS
<1>1. LeasesTypeOK
  BY DEF LInit, LeasesTypeOK, Lease, Free
<1>2. \A t \in LeasedTasks : Beside(t) = {} /\ recovered[t] = 0
  BY DEF LInit, Beside
<1> QED
  BY <1>1, <1>2, FS_EmptySet DEF LInv, BesideByRecovery

\* A step that puts nobody beside the holder who was not there keeps to the bound.
LEMMA NobodyNew ==
    ASSUME LInv, LeasesTypeOK', recovered' = recovered,
           \A t \in LeasedTasks : Beside(t)' \subseteq Beside(t)
    PROVE  LInv'
<1> SUFFICES ASSUME NEW t \in LeasedTasks PROVE Cardinality(Beside(t)') <= recovered'[t]
  BY DEF LInv, BesideByRecovery
<1>1. Beside(t) \in SUBSET Workers /\ recovered[t] \in Nat
  BY DEF LInv, LeasesTypeOK, Beside
<1>2. Cardinality(Beside(t)) <= recovered[t]
  BY DEF LInv, BesideByRecovery
<1> QED
  BY <1>1, <1>2, Fewer

LEMMA LeasesStep == LInv /\ [LNext]_lvars => LInv'
<1> SUFFICES ASSUME LInv, [LNext]_lvars PROVE LInv'
  OBVIOUS
<1>t. LeasesTypeOK
  BY DEF LInv
<1>1. ASSUME NEW w \in Workers, NEW t \in LeasedTasks, Acquire(w, t) PROVE LInv'
  <2>1. LeasesTypeOK' /\ recovered' = recovered
    BY <1>1, <1>t DEF Acquire, LeasesTypeOK, Lease, Given
  <2>2. ASSUME NEW u \in LeasedTasks PROVE Beside(u)' \subseteq Beside(u)
    <3>1. CASE u = t
      <4>1. Beside(t)' = works[t] \ {w}
        BY <1>1, <1>t DEF Acquire, Given, Beside, LeasesTypeOK
      <4>2. lease[t].worker \in {"none", w}
        BY <1>1 DEF Acquire, Free
      <4>3. "none" \notin works[t]
        BY <1>t, LeasesAssumption DEF LeasesTypeOK
      <4> QED
        BY <3>1, <4>1, <4>2, <4>3 DEF Beside
    <3>2. CASE u # t
      BY <1>1, <1>t, <3>2 DEF Acquire, Beside, LeasesTypeOK
    <3> QED
      BY <3>1, <3>2
  <2> QED
    BY <2>1, <2>2, NobodyNew
<1>2. ASSUME NEW w \in Workers, NEW t \in LeasedTasks, Heartbeat(w, t) PROVE LInv'
  <2>1. LeasesTypeOK' /\ recovered' = recovered
    BY <1>2, <1>t DEF Heartbeat, LeasesTypeOK, Lease
  <2>2. \A u \in LeasedTasks : lease'[u].worker = lease[u].worker /\ works'[u] = works[u]
    BY <1>2, <1>t DEF Heartbeat, LeasesTypeOK, Lease
  <2> QED
    BY <2>1, <2>2, NobodyNew DEF Beside
<1>3. ASSUME NEW w \in Workers, NEW t \in LeasedTasks, Release(w, t) PROVE LInv'
  <2>1. LeasesTypeOK' /\ recovered' = recovered
    BY <1>3, <1>t DEF Release, LeasesTypeOK, Lease, Free
  <2> SUFFICES ASSUME NEW u \in LeasedTasks PROVE Cardinality(Beside(u)') <= recovered[u]
    BY <2>1 DEF LInv, BesideByRecovery
  <2>2. Cardinality(Beside(u)) <= recovered[u] /\ recovered[u] \in Nat
    BY <1>t DEF LInv, BesideByRecovery, LeasesTypeOK
  <2>3. CASE u # t
    BY <1>3, <1>t, <2>2, <2>3 DEF Release, Beside, LeasesTypeOK
  <2>4. CASE u = t
    <3>1. Beside(t)' = works[t] \ {w}
      <4>1. lease'[t].worker = "none" /\ works'[t] = works[t] \ {w}
        BY <1>3, <1>t DEF Release, Free, LeasesTypeOK
      <4> QED
        BY <1>t, <4>1, LeasesAssumption DEF Beside, LeasesTypeOK
    <3>2. w \in works[t] /\ works[t] \in SUBSET Workers
      BY <1>3, <1>t DEF Release, LeasesTypeOK
    <3>3. Cardinality(works[t] \ {w}) <= Cardinality(works[t] \ {lease[t].worker})
      BY <3>2, OneForAnother
    <3>4. Cardinality(works[t] \ {w}) \in Nat /\ Cardinality(Beside(t)) \in Nat
      BY <3>2, ButOne DEF Beside
    <3> QED
      BY <2>2, <2>4, <3>1, <3>3, <3>4 DEF Beside
  <2> QED
    BY <2>3, <2>4
<1>4. ASSUME NEW w \in Workers, WorkerDies(w) PROVE LInv'
  <2>1. LeasesTypeOK' /\ recovered' = recovered
    BY <1>4, <1>t DEF WorkerDies, LeasesTypeOK
  <2>2. \A u \in LeasedTasks : lease' = lease /\ works'[u] \subseteq works[u]
    BY <1>4 DEF WorkerDies
  <2> QED
    BY <2>1, <2>2, NobodyNew DEF Beside
<1>5. CASE recoverTimedOutLeases
  <2>1. LeasesTypeOK'
    BY <1>5, <1>t DEF recoverTimedOutLeases, LeasesTypeOK, Lease, Free
  <2> SUFFICES ASSUME NEW u \in LeasedTasks PROVE Cardinality(Beside(u)') <= recovered'[u]
    BY <2>1 DEF LInv, BesideByRecovery
  <2>2. Cardinality(Beside(u)) <= recovered[u] /\ recovered[u] \in Nat
    BY <1>t DEF LInv, BesideByRecovery, LeasesTypeOK
  <2>3. CASE TimedOut(u)
    <3>1. recovered'[u] = recovered[u] + 1 /\ works' = works
      BY <1>5, <2>3 DEF recoverTimedOutLeases
    <3>2. works[u] \in SUBSET Workers /\ Beside(u)' \in SUBSET works[u]
      BY <1>t, <3>1 DEF LeasesTypeOK, Beside
    <3>3. Cardinality(works[u]) \in Nat /\ Cardinality(Beside(u)) \in Nat
          /\ Cardinality(works[u]) <= 1 + Cardinality(Beside(u))
      BY <3>2, ButOne DEF Beside
    <3>4. Cardinality(Beside(u)') \in Nat /\ Cardinality(Beside(u)') <= Cardinality(works[u])
      BY <3>2, Fewer
    <3> QED
      BY <2>2, <3>1, <3>3, <3>4
  <2>4. CASE ~TimedOut(u)
    BY <1>5, <2>2, <2>4 DEF recoverTimedOutLeases, Beside
  <2> QED
    BY <2>3, <2>4
<1>6. CASE Ages
  <2>1. LeasesTypeOK' /\ recovered' = recovered
    BY <1>6, <1>t DEF Ages, LeasesTypeOK, Lease
  <2>2. \A u \in LeasedTasks : lease'[u].worker = lease[u].worker /\ works'[u] = works[u]
    BY <1>6, <1>t DEF Ages, LeasesTypeOK, Lease
  <2> QED
    BY <2>1, <2>2, NobodyNew DEF Beside
<1>7. CASE UNCHANGED lvars
  BY <1>7 DEF lvars, LInv, LeasesTypeOK, BesideByRecovery, Beside
<1> QED
  BY <1>1, <1>2, <1>3, <1>4, <1>5, <1>6, <1>7 DEF LNext

\* However many workers lease, refresh, end and lose each other's leases: one
\* more than the lease timed out is all that ever work on a task.
THEOREM OverlapsAreCounted == LSpec => []OverlapsOnlyByRecovery
<1>1. LInv => OverlapsOnlyByRecovery
  <2> SUFFICES ASSUME LInv, NEW t \in LeasedTasks
               PROVE  Cardinality(works[t]) <= 1 + recovered[t]
    BY DEF OverlapsOnlyByRecovery
  <2>1. works[t] \in SUBSET Workers /\ recovered[t] \in Nat
        /\ Cardinality(Beside(t)) <= recovered[t]
    BY DEF LInv, LeasesTypeOK, BesideByRecovery
  <2>2. /\ Cardinality(works[t]) \in Nat /\ Cardinality(Beside(t)) \in Nat
        /\ Cardinality(works[t]) <= 1 + Cardinality(Beside(t))
    BY <2>1, ButOne DEF Beside
  <2> QED
    BY <2>1, <2>2
<1> QED
  BY <1>1, LeasesStart, LeasesStep, PTL DEF LSpec

-----------------------------------------------------------------------------
(* The Redis client.                                                       *)

Connections == {"none", "open", "closed", "disabled"}
Views       == {"none", "true", "refused", "blind"}

RedisTypeOK ==
    /\ up \in BOOLEAN
    /\ value \in {"true", "refused"}
    /\ connection \in [Users -> Connections]
    /\ disabledReason \in [Users -> BOOLEAN]
    /\ phase \in [Users -> {"idle", "write"}]
    /\ view \in [Users -> Views]

\* Who saw nothing is not connected and will not connect again.
SawNothing ==
    \A p \in Users : /\ phase[p] = "write" => view[p] # "none"
                     /\ view[p] = "blind" => connection[p] # "none" \/ disabledReason[p]
                     /\ view[p] = "blind" => ~Connected(p)

DInv == RedisTypeOK /\ SawNothing

LEMMA RedisStart == DInit => DInv
BY DEF DInit, DInv, RedisTypeOK, SawNothing, Connections, Views

LEMMA RedisStep == DInv /\ [DNext]_dvars => DInv'
<1> SUFFICES ASSUME DInv, [DNext]_dvars PROVE DInv'
  OBVIOUS
<1> USE DEF DInv, RedisTypeOK, SawNothing, Connections, Views, Connected, Disabled,
            Proceeds, Sees
<1>1. ASSUME NEW p \in Users, BuildClient(p) PROVE DInv'
  BY <1>1 DEF BuildClient, MayBuild
<1>2. ASSUME NEW p \in Users, Read(p) PROVE DInv'
  BY <1>2 DEF Read, Ready
<1>3. ASSUME NEW p \in Users, Write(p) PROVE DInv'
  <2>1. RedisTypeOK'
    BY <1>3 DEF Write
  <2>2. SawNothing'
    BY <1>3 DEF Write
  <2> QED
    BY <2>1, <2>2
<1>4. ASSUME NEW p \in Users, Restart(p) PROVE DInv'
  BY <1>4 DEF Restart
<1>5. CASE GoesDown
  <2>1. PICK down \in SUBSET {p \in Users : connection[p] = "open"} :
           disabledReason' = [p \in Users |-> disabledReason[p] \/ p \in down]
    BY <1>5 DEF GoesDown
  <2> QED
    BY <1>5, <2>1 DEF GoesDown
<1>6. CASE ComesBack
  BY <1>6 DEF ComesBack
<1>7. CASE UNCHANGED dvars
  BY <1>7 DEF dvars
<1> QED
  BY <1>1, <1>2, <1>3, <1>4, <1>5, <1>6, <1>7 DEF DNext

\* Nothing a process made of an unanswered read reaches Redis, for any number of
\* processes that lose it, restart and write in any order.
THEOREM BlindWritesNothing == DSpec => []BlindNeverWrites
<1>1. DInv => BlindNeverWrites
  BY DEF DInv, RedisTypeOK, BlindNeverWrites
<1> QED
  BY <1>1, RedisStart, RedisStep, PTL DEF DSpec

-----------------------------------------------------------------------------
(* The feed of a session's events.                                         *)

EventTypes == {"SESSION_CREATED", "SESSION_TRANSITION", "RUNTIME_STATE_CHANGED",
               "CHECKPOINT_CREATED", "SESSION_CANCELLED"}

FeedTypeOK ==
    /\ stored \in Nat /\ version \in Nat \ {0}
    /\ events \subseteq [sequence : Nat, type : EventTypes]
    /\ loop \in {"idle", "transition", "twin", "checkpoint"}
    /\ canceller \in [at : {"idle", "number", "append", "done"}, number : Nat]
    /\ cursor \in Nat /\ heard \subseteq events

\* The session is saved before its next events are appended.
SavedFirst == loop \in {"transition", "checkpoint"}

\* What the loop has appended is not ahead of the session it holds, and what it
\* has still to append comes after.
LoopNumbers ==
    \A e \in events : e.type # "SESSION_CANCELLED" =>
        e.sequence <= version /\ (SavedFirst => e.sequence < version)

\* The cancellation alone may be one ahead, and that only until the next save.
CancelNumber ==
    /\ canceller.at \in {"append", "done"} =>
          canceller.number <= version + 1 /\ (SavedFirst => canceller.number <= version)
    /\ \A e \in events : e.type = "SESSION_CANCELLED" =>
          canceller.at = "done" /\ e.sequence = canceller.number

\* The document is one ahead of the loop at most, and only after a cancellation.
StoredVersion ==
    /\ stored \in {version, version + 1}
    /\ canceller.at = "idle" => stored = version

CursorIsNumber == cursor = 0 \/ cursor \in Sequences

TwinTypes == {"SESSION_TRANSITION", "RUNTIME_STATE_CHANGED"}

\* The loop's events of one number are the two of a change of the runtime state.
OneOfANumber ==
    /\ \A d, e \in events : /\ d.sequence = e.sequence /\ d.type # e.type
                            /\ d.type # "SESSION_CANCELLED" /\ e.type # "SESSION_CANCELLED"
                            => {d.type, e.type} = TwinTypes
    /\ loop = "twin" =>
         /\ \E e \in events : e.sequence = version /\ e.type = "SESSION_TRANSITION"
         /\ \A e \in events : e.sequence = version =>
                e.type \in {"SESSION_TRANSITION", "SESSION_CANCELLED"}

FInv == /\ FeedTypeOK /\ LoopNumbers /\ CancelNumber /\ StoredVersion
        /\ CursorIsNumber /\ OneOfANumber /\ PassedOverAreTwins

\* Numbers that keep to a bound have a greatest one.
LEMMA GreatestOfBounded ==
    ASSUME NEW S \in SUBSET Nat, NEW b \in Nat, \A n \in S : n <= b
    PROVE  /\ Greatest0(S) \in Nat /\ \A n \in S : n <= Greatest0(S)
           /\ Greatest0(S) = 0 \/ Greatest0(S) \in S
<1>1. CASE S = {}
  BY <1>1 DEF Greatest0
<1>2. CASE S # {}
  <2> DEFINE Bounds == {c \in Nat : \A n \in S : n <= c}
  <2>1. Bounds \in SUBSET Nat /\ Bounds # {}
    OBVIOUS
  <2>2. PICK m \in Bounds : \A c \in Bounds : ~(<<c, m>> \in OpToRel(<, Nat))
    BY <2>1, NatLessThanWellFounded, WFMin
  <2>3. \A c \in Bounds : ~(c < m)
    BY <2>1, <2>2 DEF OpToRel
  <2>4. m \in Nat /\ \A n \in S : n <= m
    OBVIOUS
  <2>5. m \in S
    <3> SUFFICES ASSUME m \notin S PROVE FALSE
      OBVIOUS
    <3>1. \A n \in S : n < m
      BY <2>4
    <3>2. PICK n \in S : n < m
      BY <1>2, <3>1
    <3>3. m - 1 \in Nat /\ m - 1 < m
      BY <2>4, <3>2
    <3>4. \A i \in S : i <= m - 1
      BY <2>4, <3>1
    <3> QED
      BY <2>3, <3>3, <3>4
  <2> QED
    BY <1>2, <2>4, <2>5 DEF Greatest0
<1> QED
  BY <1>1, <1>2

\* The numbers of events keep to a bound.
LEMMA SequencesBounded ==
    ASSUME FInv
    PROVE  /\ version + canceller.number \in Nat
           /\ \A e \in events : e.sequence \in Nat /\ e.sequence <= version + canceller.number
  BY DEF FInv, FeedTypeOK, LoopNumbers, CancelNumber

LEMMA FeedStart == FInit => FInv
  BY DEF FInit, FInv, FeedTypeOK, LoopNumbers, CancelNumber, StoredVersion, CursorIsNumber,
         OneOfANumber, PassedOverAreTwins, Event, EventTypes, SavedFirst

\* A step that leaves the events, or adds the cancellation, keeps the loop's as they were.
LEMMA OneOfANumberStays ==
    ASSUME FInv, \A e \in events' : e \in events \/ e.type = "SESSION_CANCELLED",
           events \subseteq events', loop' = "twin" => loop = "twin" /\ version' = version
    PROVE  OneOfANumber'
  BY DEF FInv, OneOfANumber

LEMMA FeedStep == FInv /\ [FNext]_fvars => FInv'
<1> SUFFICES ASSUME FInv, [FNext]_fvars PROVE FInv'
  OBVIOUS
<1> USE DEF FInv
<1>1. CASE Save
  <2>1. FeedTypeOK' /\ StoredVersion'
    BY <1>1 DEF Save, FeedTypeOK, StoredVersion
  <2>2. LoopNumbers' /\ CancelNumber'
    BY <1>1 DEF Save, FeedTypeOK, LoopNumbers, CancelNumber, SavedFirst
  <2>3. OneOfANumber'
    BY <1>1, OneOfANumberStays DEF Save
  <2> QED
    BY <1>1, <2>1, <2>2, <2>3 DEF Save, CursorIsNumber, PassedOverAreTwins, Sequences
<1>2. CASE AppendEvent
  <2>1. PICK type \in EventTypes \ {"SESSION_CANCELLED"} :
           /\ events' = events \cup {Event(version, type)}
           /\ SavedFirst \/ (loop = "twin" /\ loop' = "idle" /\ type = "RUNTIME_STATE_CHANGED")
           /\ loop' = "twin" => SavedFirst /\ type = "SESSION_TRANSITION"
    BY <1>2 DEF AppendEvent, EventTypes, SavedFirst
  <2>2. loop' \in {"idle", "twin"} /\ UNCHANGED <<stored, version, canceller, cursor, heard>>
    BY <1>2 DEF AppendEvent
  <2>3. FeedTypeOK'
    BY <2>1, <2>2 DEF FeedTypeOK, Event
  <2>4. LoopNumbers' /\ CancelNumber' /\ StoredVersion'
    BY <2>1, <2>2 DEF LoopNumbers, CancelNumber, StoredVersion, SavedFirst, Event, FeedTypeOK
  <2>5. CursorIsNumber'
    BY <2>1, <2>2 DEF CursorIsNumber, Sequences
  <2>6. OneOfANumber'
    <3>1. CASE SavedFirst
      <4>1. \A e \in events : e.type # "SESSION_CANCELLED" => e.sequence < version
        BY <3>1 DEF LoopNumbers
      <4>2. \A e \in events : e.sequence = version => e.type = "SESSION_CANCELLED"
        BY <4>1 DEF FeedTypeOK
      <4>3. Event(version, type).sequence = version /\ Event(version, type).type = type
        BY DEF Event
      <4> QED
        BY <2>1, <2>2, <4>2, <4>3 DEF OneOfANumber
    <3>2. CASE ~SavedFirst
      <4>1. /\ loop = "twin" /\ type = "RUNTIME_STATE_CHANGED" /\ loop' = "idle"
            /\ \A e \in events : e.sequence = version =>
                  e.type \in {"SESSION_TRANSITION", "SESSION_CANCELLED"}
        BY <2>1, <3>2 DEF OneOfANumber
      <4>2. Event(version, type).sequence = version /\ Event(version, type).type = type
        BY DEF Event
      <4> QED
        BY <2>1, <4>1, <4>2 DEF OneOfANumber, TwinTypes
    <3> QED
      BY <3>1, <3>2
  <2>7. PassedOverAreTwins'
    <3>1. SavedFirst /\ version <= cursor =>
             \E c \in events : c.type = "SESSION_CANCELLED" /\ c.sequence = version
      <4> SUFFICES ASSUME SavedFirst, version <= cursor
                   PROVE  \E c \in events : c.type = "SESSION_CANCELLED" /\ c.sequence = version
        OBVIOUS
      <4>1. cursor # 0
        BY DEF FeedTypeOK
      <4>2. PICK c \in events : c.sequence = cursor
        BY <4>1 DEF CursorIsNumber, Sequences
      <4>3. c.type = "SESSION_CANCELLED"
        BY <4>2 DEF LoopNumbers, FeedTypeOK
      <4>4. c.sequence <= version
        BY <4>3 DEF CancelNumber
      <4> QED
        BY <4>2, <4>3, <4>4 DEF FeedTypeOK
    <3>2. ASSUME ~SavedFirst, version <= cursor
          PROVE  \/ \E c \in events : c.type = "SESSION_CANCELLED" /\ c.sequence = version
                 \/ \E h \in heard : h.sequence = version /\ {type, h.type} = TwinTypes
      <4>1. loop = "twin" /\ type = "RUNTIME_STATE_CHANGED"
        BY <2>1, <3>2
      <4>2. PICK e \in events : e.sequence = version /\ e.type = "SESSION_TRANSITION"
        BY <4>1 DEF OneOfANumber
      <4>3. CASE e \in heard
        BY <4>1, <4>2, <4>3 DEF TwinTypes
      <4>4. CASE e \notin heard
        <5>1. \/ \E c \in events : c.type = "SESSION_CANCELLED" /\ c.sequence = version
              \/ \E h \in heard : h.sequence = version /\ {e.type, h.type} = TwinTypes
          BY <3>2, <4>2, <4>4 DEF PassedOverAreTwins, TwinTypes
        <5>2. \A h \in heard : h.sequence = version => h.type \in {"SESSION_TRANSITION", "SESSION_CANCELLED"}
          BY <4>1 DEF OneOfANumber, FeedTypeOK
        <5>3. \A h \in heard : h.sequence = version /\ {e.type, h.type} = TwinTypes => h.type = "RUNTIME_STATE_CHANGED"
          BY <4>2 DEF TwinTypes
        <5> QED
          BY <5>1, <5>2, <5>3
      <4> QED
        BY <4>3, <4>4
    <3>3. Event(version, type).sequence = version /\ Event(version, type).type = type
      BY DEF Event
    <3>4. ASSUME NEW e \in events' \ heard', e.sequence <= cursor'
          PROVE  \/ \E c \in events' : c.type = "SESSION_CANCELLED" /\ c.sequence = e.sequence
                 \/ \E h \in heard' : h.sequence = e.sequence /\ {e.type, h.type} = TwinTypes
      <4>1. CASE e \in events
        BY <2>1, <2>2, <3>4, <4>1 DEF PassedOverAreTwins, TwinTypes
      <4>2. CASE e \notin events
        <5>1. e.sequence = version /\ e.type = type /\ version <= cursor
          BY <2>1, <2>2, <3>3, <3>4, <4>2
        <5> QED
          BY <2>1, <2>2, <3>1, <3>2, <5>1
      <4> QED
        BY <4>1, <4>2
    <3> QED
      BY <3>4 DEF PassedOverAreTwins, TwinTypes
  <2> QED
    BY <2>3, <2>4, <2>5, <2>6, <2>7
<1>3. CASE Resumed
  <2>1. version' \in Nat \ {0} /\ version <= version'
    BY <1>3 DEF Resumed, FeedTypeOK, StoredVersion
  <2>2. FeedTypeOK' /\ StoredVersion'
    BY <1>3 DEF Resumed, FeedTypeOK, StoredVersion
  <2>3. LoopNumbers' /\ CancelNumber'
    BY <1>3, <2>1 DEF Resumed, LoopNumbers, CancelNumber, SavedFirst, FeedTypeOK
  <2>4. OneOfANumber'
    BY <1>3, OneOfANumberStays DEF Resumed
  <2> QED
    BY <1>3, <2>2, <2>3, <2>4 DEF Resumed, CursorIsNumber, PassedOverAreTwins, Sequences
<1>4. CASE RequestCancellation
  <2>1. OneOfANumber'
    BY <1>4, OneOfANumberStays DEF RequestCancellation
  <2> QED
    BY <1>4, <2>1 DEF RequestCancellation, FeedTypeOK, StoredVersion, LoopNumbers, CancelNumber,
                      SavedFirst, CursorIsNumber, PassedOverAreTwins, Sequences
<1>5. CASE NextSequence
  <2>1. \A e \in events : e.type # "SESSION_CANCELLED"
    BY <1>5 DEF NextSequence, CancelNumber
  <2>2. Sequences \in SUBSET Nat /\ \A n \in Sequences : n <= version
    BY <2>1 DEF FeedTypeOK, LoopNumbers, Sequences
  <2>3. /\ Greatest0(Sequences) \in Nat
        /\ Greatest0(Sequences) = 0 \/ Greatest0(Sequences) \in Sequences
    BY <2>2, GreatestOfBounded DEF FeedTypeOK
  <2>4. SavedFirst => Greatest0(Sequences) < version
    BY <2>1, <2>3 DEF LoopNumbers, Sequences, FeedTypeOK
  <2>5. Greatest0(Sequences) <= version
    BY <2>2, <2>3 DEF FeedTypeOK
  <2>6. FeedTypeOK' /\ LoopNumbers' /\ StoredVersion'
    BY <1>5, <2>3 DEF NextSequence, FeedTypeOK, LoopNumbers, StoredVersion, SavedFirst
  <2>7. CancelNumber'
    BY <1>5, <2>1, <2>3, <2>4, <2>5 DEF NextSequence, CancelNumber, SavedFirst, FeedTypeOK
  <2>8. OneOfANumber'
    BY <1>5, OneOfANumberStays DEF NextSequence
  <2> QED
    BY <1>5, <2>6, <2>7, <2>8 DEF NextSequence, CursorIsNumber, PassedOverAreTwins, Sequences
<1>6. CASE AppendCancelled
  <2>1. FeedTypeOK'
    BY <1>6 DEF AppendCancelled, FeedTypeOK, Event, EventTypes
  <2>2. LoopNumbers' /\ CancelNumber' /\ StoredVersion'
    BY <1>6 DEF AppendCancelled, LoopNumbers, CancelNumber, StoredVersion, SavedFirst, Event,
                FeedTypeOK
  <2>3. OneOfANumber'
    BY <1>6, OneOfANumberStays DEF AppendCancelled, Event
  <2> QED
    BY <1>6, <2>1, <2>2, <2>3 DEF AppendCancelled, CursorIsNumber, PassedOverAreTwins, Sequences, Event
<1>7. CASE Poll
  <2> DEFINE news == {e \in events : e.sequence > cursor}
  <2>1. PICK page \in SUBSET news :
          /\ page # {} /\ IsPage(page, news) /\ heard' = heard \cup page
          /\ cursor' = Greatest0({e.sequence : e \in page})
          /\ UNCHANGED <<stored, version, events, loop, canceller>>
    BY <1>7 DEF Poll
  <2> DEFINE numbers == {e.sequence : e \in page}
  <2>2. /\ numbers \in SUBSET Nat /\ numbers \subseteq Sequences /\ numbers # {}
        /\ \A n \in numbers : n <= version + canceller.number
    <3>1. page \subseteq events /\ page # {} /\ \A e \in page : e.sequence > cursor
      BY <2>1
    <3>2. \A e \in page : e.sequence \in Nat /\ e.sequence <= version + canceller.number
      BY <3>1, SequencesBounded
    <3> QED
      BY <3>1, <3>2 DEF Sequences
  <2>3. /\ cursor' \in Nat /\ \A n \in numbers : n <= cursor'
        /\ cursor' = 0 \/ cursor' \in numbers
    BY <2>1, <2>2, SequencesBounded, GreatestOfBounded
  <2>4. FeedTypeOK'
    BY <2>1, <2>3 DEF FeedTypeOK
  <2>5. LoopNumbers' /\ CancelNumber' /\ StoredVersion' /\ CursorIsNumber'
    BY <2>1, <2>2, <2>3 DEF LoopNumbers, CancelNumber, StoredVersion, CursorIsNumber,
                            SavedFirst, Sequences
  <2>6. OneOfANumber'
    BY <2>1, OneOfANumberStays
  <2>7. PICK last \in page : last.sequence = cursor'
    <3>0. PICK e \in page : e \in news
      BY <2>1
    <3>1. e.sequence \in numbers /\ e.sequence > cursor /\ e.sequence <= cursor'
      BY <2>3, <3>0
    <3>2. cursor' # 0
      BY <2>3, <3>1 DEF FeedTypeOK
    <3> QED
      BY <2>3, <3>2
  <2>8. ASSUME NEW e \in events \ (heard \cup page), e.sequence <= cursor'
        PROVE  \/ \E c \in events : c.type = "SESSION_CANCELLED" /\ c.sequence = e.sequence
               \/ \E h \in heard \cup page : h.sequence = e.sequence /\ {e.type, h.type} = TwinTypes
    <3>1. CASE e.sequence <= cursor
      BY <2>8, <3>1 DEF PassedOverAreTwins, TwinTypes
    <3>2. CASE ~(e.sequence <= cursor)
      <4>1. e \in news \ page /\ last \in events /\ e.sequence \in Nat
        BY <2>8, <3>2 DEF FeedTypeOK
      <4>2. last.sequence <= e.sequence
        BY <2>1, <4>1 DEF IsPage
      <4>3. last.sequence = e.sequence
        BY <2>3, <2>7, <2>8, <4>1, <4>2
      <4>4. e.type # last.type
        BY <2>8, <4>1, <4>3 DEF FeedTypeOK
      <4> QED
        BY <4>1, <4>3, <4>4 DEF OneOfANumber
    <3> QED
      BY <3>1, <3>2
  <2>9. PassedOverAreTwins'
    BY <2>1, <2>8 DEF PassedOverAreTwins, TwinTypes
  <2> QED
    BY <2>4, <2>5, <2>6, <2>9
<1>8. CASE UNCHANGED fvars
  BY <1>8, OneOfANumberStays DEF fvars, FeedTypeOK, LoopNumbers, CancelNumber, StoredVersion, CursorIsNumber,
              SavedFirst, PassedOverAreTwins, Sequences
<1> QED
  BY <1>1, <1>2, <1>3, <1>4, <1>5, <1>6, <1>7, <1>8 DEF FNext

\* However often the loop saves, dies and resumes, and whatever a page holds: a reader
\* misses nothing but what shares the number of the cancellation, and of the two events
\* of a change of the runtime state at most one.
THEOREM TwinsOnly == FSpec => []PassedOverAreTwins
<1>1. FInv => PassedOverAreTwins
  BY DEF FInv
<1> QED
  BY <1>1, FeedStart, FeedStep, PTL DEF FSpec

-----------------------------------------------------------------------------
(* The routing registry.                                                   *)

Keys == {"registry", "tag"}

RegistryTypeOK ==
    /\ registry \in Nat /\ tag \in Nat /\ saves \in Nat /\ faults \in Nat /\ broken \in BOOLEAN
    /\ doing \in [Processes -> {"idle", "read", "set", "bump", "reload"}]
    /\ got \in [Processes -> [registry : Nat, tag : Nat, have : SUBSET Keys,
                              whole : BOOLEAN, raced : BOOLEAN]]
    /\ kept \in [Processes -> [registry : Nat, tag : Nat, cached : BOOLEAN,
                               whole : BOOLEAN, raced : BOOLEAN]]

Bumpers == {p \in Processes : doing[p] = "bump"}

\* A version was counted for every save, or is about to be.
SavesCounted ==
    /\ registry = saves
    /\ ~broken => tag + Cardinality(Bumpers) = saves

\* Of what is read, the version is not ahead of the registry.
ReadInOrder ==
    ~broken => \A p \in Processes :
        got[p].whole =>
            /\ "registry" \in got[p].have => got[p].registry <= registry
            /\ "tag" \in got[p].have => got[p].tag <= registry
            /\ got[p].have = Keys /\ ~got[p].raced => got[p].tag <= got[p].registry

\* Nor of what is kept.
KeptInOrder ==
    ~broken => \A p \in Processes :
        kept[p].cached /\ kept[p].whole /\ ~kept[p].raced =>
            kept[p].tag <= kept[p].registry /\ kept[p].registry <= registry

RInv == RegistryTypeOK /\ SavesCounted /\ ReadInOrder /\ KeptInOrder

\* One process more or less in a set of them.
LEMMA OneMore ==
    ASSUME NEW S \in SUBSET Processes, NEW p \in Processes \ S
    PROVE  Cardinality(S) \in Nat /\ Cardinality(S \cup {p}) = Cardinality(S) + 1
<1>1. IsFiniteSet(S)
  BY RegistryAssumption, FS_Subset
<1> QED
  BY <1>1, FS_AddElement, FS_CardinalityType

LEMMA RegistryStart == RInit => RInv
<1> SUFFICES ASSUME RInit PROVE RInv
  OBVIOUS
<1>1. RegistryTypeOK /\ ReadInOrder /\ KeptInOrder
  BY DEF RInit, RegistryTypeOK, ReadInOrder, KeptInOrder, NothingRead, NotCached, Defaults, Keys
<1>2. Bumpers = {}
  BY DEF RInit, Bumpers
<1> QED
  BY <1>1, <1>2, FS_EmptySet DEF RInit, RInv, SavesCounted, Defaults

\* A step that leaves the registry, its version and the saves under way alone.
LEMMA SavesUntouched ==
    ASSUME RInv, UNCHANGED <<registry, tag, saves, broken>>, Bumpers' = Bumpers
    PROVE  SavesCounted'
  BY DEF RInv, SavesCounted

LEMMA TagBehind == RInv /\ ~broken => tag <= registry
<1> SUFFICES ASSUME RInv, ~broken PROVE tag <= registry
  OBVIOUS
<1>1. Cardinality(Bumpers) \in Nat
  BY RegistryAssumption, FS_Subset, FS_CardinalityType DEF Bumpers
<1> QED
  BY <1>1 DEF RInv, RegistryTypeOK, SavesCounted

LEMMA RegistryStep == RInv /\ [RNext]_rvars => RInv'
<1> SUFFICES ASSUME RInv, [RNext]_rvars PROVE RInv'
  OBVIOUS
<1>t. RegistryTypeOK /\ SavesCounted /\ ReadInOrder /\ KeptInOrder
  BY DEF RInv
<1>1. ASSUME NEW p \in Processes, CheckVersion(p) PROVE RInv'
  <2>1. RegistryTypeOK' /\ Bumpers' = Bumpers
    BY <1>1, <1>t DEF CheckVersion, Now, Fault, RegistryTypeOK, Bumpers
  <2>2. SavesCounted'
    BY <1>1, <2>1, SavesUntouched DEF CheckVersion
  <2> QED
    BY <1>1, <1>t, <2>1, <2>2 DEF CheckVersion, RInv, ReadInOrder, KeptInOrder
<1>2. ASSUME NEW p \in Processes, StartRead(p) PROVE RInv'
  <2>1. RegistryTypeOK' /\ Bumpers' = Bumpers
    BY <1>2, <1>t DEF StartRead, Now, RegistryTypeOK, Bumpers
  <2>2. SavesCounted'
    BY <1>2, <2>1, SavesUntouched DEF StartRead
  <2> QED
    BY <1>2, <1>t, <2>1, <2>2 DEF StartRead, RInv, ReadInOrder, KeptInOrder
<1>3. ASSUME NEW p \in Processes, NEW key \in Keys, ReadKey(p, key) PROVE RInv'
  <2>1. UNCHANGED <<registry, tag, saves, doing, kept, broken>>
    BY <1>3 DEF ReadKey
  <2> DEFINE Answers == [registry : Nat, tag : Nat, have : SUBSET Keys, whole : BOOLEAN, raced : BOOLEAN]
  <2>2. \/ got' = [got EXCEPT ![p] = Answered(p, key)] /\ faults' = faults
        \/ got' = [got EXCEPT ![p].have = @ \cup {key}, ![p].whole = FALSE] /\ faults' = faults + 1
    BY <1>3 DEF ReadKey, Fault
  <2>a. got[p] \in Answers /\ Answered(p, key) \in Answers
    BY <1>t DEF RegistryTypeOK, Answered
  <2>3. RegistryTypeOK'
    <3>1. got' \in [Processes -> Answers] /\ faults' \in Nat
      BY <1>t, <2>2, <2>a DEF RegistryTypeOK
    <3> QED
      BY <1>t, <2>1, <3>1 DEF RegistryTypeOK
  <2>4. SavesCounted'
    BY <2>1, SavesUntouched DEF Bumpers
  <2>5. KeptInOrder'
    BY <1>t, <2>1 DEF KeptInOrder
  <2>6. ReadInOrder'
    <3> SUFFICES ASSUME ~broken, NEW q \in Processes, got'[q].whole
                 PROVE  /\ "registry" \in got'[q].have => got'[q].registry <= registry
                        /\ "tag" \in got'[q].have => got'[q].tag <= registry
                        /\ got'[q].have = Keys /\ ~got'[q].raced => got'[q].tag <= got'[q].registry
      BY <2>1 DEF ReadInOrder
    <3>1. CASE q # p
      BY <1>t, <2>2, <3>1 DEF ReadInOrder, RegistryTypeOK
    <3>2. CASE q = p
      <4>1. got'[p] = Answered(p, key) /\ got[p].whole
        <5>1. CASE got' = [got EXCEPT ![p] = Answered(p, key)]
          BY <1>t, <3>2, <5>1 DEF RegistryTypeOK, Answered
        <5>2. CASE got' = [got EXCEPT ![p].have = @ \cup {key}, ![p].whole = FALSE]
          BY <1>t, <3>2, <5>2 DEF RegistryTypeOK
        <5> QED
          BY <2>2, <5>1, <5>2
      <4>2. tag <= registry /\ registry <= registry /\ key \notin got[p].have
        BY <1>3, <1>t, TagBehind DEF RegistryTypeOK, ReadKey
      <4>3. /\ "registry" \in got[p].have => got[p].registry <= registry
            /\ "tag" \in got[p].have => got[p].tag <= registry
        BY <1>t, <4>1 DEF ReadInOrder
      <4>4. CASE key = "registry"
        BY <3>2, <4>1, <4>2, <4>3, <4>4 DEF Keys, Answered
      <4>5. CASE key = "tag"
        BY <3>2, <4>1, <4>2, <4>3, <4>5 DEF Keys, Answered
      <4> QED
        BY <4>4, <4>5 DEF Keys
    <3> QED
      BY <3>1, <3>2
  <2> QED
    BY <2>3, <2>4, <2>5, <2>6 DEF RInv
<1>4. ASSUME NEW p \in Processes, Keep(p) PROVE RInv'
  <2>1. RegistryTypeOK' /\ Bumpers' = Bumpers
    BY <1>4, <1>t DEF Keep, Now, RegistryTypeOK, Bumpers, NothingRead, Defaults
  <2>2. SavesCounted'
    BY <1>4, <2>1, SavesUntouched DEF Keep
  <2>3. ReadInOrder'
    BY <1>4, <1>t DEF Keep, ReadInOrder, NothingRead, RegistryTypeOK, Keys
  <2>4. KeptInOrder'
    BY <1>4, <1>t DEF Keep, KeptInOrder, ReadInOrder, RegistryTypeOK, Keys
  <2> QED
    BY <2>1, <2>2, <2>3, <2>4 DEF RInv
<1>5. ASSUME NEW p \in Processes, SetRegistry(p) PROVE RInv'
  <2>1. RegistryTypeOK'
    BY <1>5, <1>t DEF SetRegistry, Now, RegistryTypeOK
  <2>2. Bumpers' = Bumpers \cup {p} /\ p \in Processes \ Bumpers
    BY <1>5, <1>t DEF SetRegistry, Now, RegistryTypeOK, Bumpers
  <2>3. Cardinality(Bumpers) \in Nat /\ Cardinality(Bumpers') = Cardinality(Bumpers) + 1
    BY <2>2, OneMore DEF Bumpers
  <2>4. SavesCounted'
    BY <1>5, <1>t, <2>3 DEF SetRegistry, SavesCounted, RegistryTypeOK
  <2>5. registry <= registry'
    BY <1>5, <1>t DEF SetRegistry, SavesCounted, RegistryTypeOK
  <2>6. ReadInOrder' /\ KeptInOrder'
    BY <1>5, <1>t, <2>1, <2>5 DEF SetRegistry, ReadInOrder, KeptInOrder, RegistryTypeOK
  <2> QED
    BY <2>1, <2>4, <2>6 DEF RInv
<1>6. ASSUME NEW p \in Processes, BumpVersion(p) PROVE RInv'
  <2>1. RegistryTypeOK'
    <3>1. /\ registry' = registry /\ saves' = saves /\ got' = got /\ kept' = kept
          /\ faults' \in {faults, faults + 1} /\ (broken' = broken \/ broken' = TRUE)
          /\ tag' \in {tag, tag + 1, 1}
          /\ doing' = [doing EXCEPT ![p] = "reload"] \/ doing' = [doing EXCEPT ![p] = "idle"]
      BY <1>6 DEF BumpVersion, Now, Fault
    <3>2. doing' \in [Processes -> {"idle", "read", "set", "bump", "reload"}]
      BY <1>t, <3>1 DEF RegistryTypeOK
    <3>3. broken' \in BOOLEAN
      BY <1>t, <3>1 DEF RegistryTypeOK
    <3> QED
      BY <1>t, <3>1, <3>2, <3>3 DEF RegistryTypeOK
  <2>2. Bumpers = Bumpers' \cup {p} /\ p \in Processes \ Bumpers'
    BY <1>6, <1>t DEF BumpVersion, Now, RegistryTypeOK, Bumpers
  <2>3. Cardinality(Bumpers') \in Nat /\ Cardinality(Bumpers) = Cardinality(Bumpers') + 1
    <3>1. Bumpers' \in SUBSET Processes
      BY DEF Bumpers
    <3> QED
      BY <2>2, <3>1, OneMore
  <2>4. registry' = registry /\ saves' = saves /\ got' = got /\ kept' = kept
        /\ (~broken' => tag' = tag + 1 /\ ~broken)
    BY <1>6 DEF BumpVersion
  <2>5. SavesCounted'
    BY <1>t, <2>3, <2>4 DEF SavesCounted, RegistryTypeOK
  <2>6. ReadInOrder' /\ KeptInOrder'
    BY <1>t, <2>4 DEF ReadInOrder, KeptInOrder
  <2> QED
    BY <2>1, <2>5, <2>6 DEF RInv
<1>7. ASSUME NEW p \in Processes, Reload(p) PROVE RInv'
  <2>1. RegistryTypeOK' /\ Bumpers' = Bumpers
    BY <1>7, <1>t DEF Reload, Now, RegistryTypeOK, Bumpers, NotCached, Defaults
  <2>2. SavesCounted'
    BY <1>7, <2>1, SavesUntouched DEF Reload
  <2>3. ReadInOrder' /\ KeptInOrder'
    BY <1>7, <1>t DEF Reload, ReadInOrder, KeptInOrder, NotCached, RegistryTypeOK
  <2> QED
    BY <2>1, <2>2, <2>3 DEF RInv
<1>8. CASE UNCHANGED rvars
  BY <1>8 DEF rvars, RInv, RegistryTypeOK, SavesCounted, ReadInOrder, KeptInOrder, Bumpers
<1> QED
  BY <1>1, <1>2, <1>3, <1>4, <1>5, <1>6, <1>7, <1>8 DEF RNext, Keys

\* However many processes save, read and keep the registry at the same time: only
\* a race of a process's own two reads, or a command that failed, leaves it with
\* an old registry under the current version.
THEOREM StaleForAReason == RSpec => []StaleOnlyByRaceOrFault
<1>1. RInv => StaleOnlyByRaceOrFault
  <2> SUFFICES ASSUME RInv, \A p \in Processes : doing[p] # "bump", ~broken,
                      NEW p \in Processes,
                      kept[p].cached, kept[p].tag = tag, kept[p].whole, ~kept[p].raced
               PROVE  kept[p].registry = registry
    BY DEF StaleOnlyByRaceOrFault
  <2>1. Bumpers = {}
    BY DEF Bumpers
  <2>2. tag = registry
    <3>1. Cardinality(Bumpers) = 0
      BY <2>1, FS_EmptySet
    <3> QED
      BY <3>1 DEF RInv, RegistryTypeOK, SavesCounted
  <2>3. tag <= kept[p].registry /\ kept[p].registry <= registry /\ kept[p].registry \in Nat
    BY DEF RInv, RegistryTypeOK, KeptInOrder
  <2> QED
    BY <2>2, <2>3 DEF RInv, RegistryTypeOK
<1> QED
  BY <1>1, RegistryStart, RegistryStep, PTL DEF RSpec

-----------------------------------------------------------------------------
(* The caches of prompts.                                                  *)

CacheTypeOK ==
    /\ ttl \in Ttls
    /\ ages \in [Caches -> {Unmade} \cup 0 .. ttl]
    /\ delays \in [Caches -> {Unmade} \cup Nat]
    /\ name \in Caches \cup {0} /\ left \in Nat
    /\ step \in [Callers -> {"idle", "create", "save", "call"}]
    /\ uses \in [Callers -> Caches \cup {0}]

\* What a caller names was made.
NamesMade ==
    \A c \in Callers : /\ step[c] = "save" => uses[c] # 0
                       /\ uses[c] # 0 => ages[uses[c]] # Unmade

\* The cache of the name is no older than its name is, and what it was when the
\* name was saved.
NameAge ==
    name # 0 => /\ left \in 1 .. SavedTtl
                /\ delays[name] \in Nat /\ ages[name] # Unmade
                /\ ages[name] <= delays[name] + (SavedTtl - left)

PInv == CacheTypeOK /\ NamesMade /\ NameAge

LEMMA SavedTtlPositive ==
    ASSUME ttl \in Ttls PROVE ttl \in Nat /\ SavedTtl \in Nat \ {0}
  BY CacheAssumption DEF SavedTtl

LEMMA CacheStart == PInit => PInv
  BY CacheAssumption DEF PInit, PInv, CacheTypeOK, NamesMade, NameAge

LEMMA CacheStep == PInv /\ [PNext]_pvars => PInv'
<1> SUFFICES ASSUME PInv, [PNext]_pvars PROVE PInv'
  OBVIOUS
<1>t. CacheTypeOK /\ NamesMade /\ NameAge
  BY DEF PInv
<1>s. ttl \in Nat /\ SavedTtl \in Nat \ {0}
  BY <1>t, SavedTtlPositive DEF CacheTypeOK
<1>1. ASSUME NEW c \in Callers, lookupCache(c) PROVE PInv'
  <2>1. CacheTypeOK'
    BY <1>1, <1>t DEF lookupCache, Then, CacheTypeOK
  <2>2. NamesMade'
    BY <1>1, <1>t DEF lookupCache, Then, CacheTypeOK, NamesMade, NameAge
  <2>3. NameAge'
    BY <1>1, <1>t DEF lookupCache, NameAge, SavedTtl
  <2> QED
    BY <2>1, <2>2, <2>3 DEF PInv
<1>2. ASSUME NEW c \in Callers, createCachedContent(c) PROVE PInv'
  <2>1. CASE step' = [step EXCEPT ![c] = "call"] /\ UNCHANGED <<ages, uses, ttl, delays, name, left>>
    BY <1>t, <2>1 DEF CacheTypeOK, NamesMade, NameAge, SavedTtl, PInv
  <2>2. ASSUME NEW n \in Caches, ages[n] = Unmade, ages' = [ages EXCEPT ![n] = 0],
               uses' = [uses EXCEPT ![c] = n], step' = [step EXCEPT ![c] = "save"],
               UNCHANGED <<ttl, delays, name, left>>
        PROVE  PInv'
    <3>1. CacheTypeOK'
      BY <1>t, <1>s, <2>2 DEF CacheTypeOK
    <3>2. NamesMade'
      BY <1>t, <2>2 DEF CacheTypeOK, NamesMade, Caches, Unmade
    <3>3. NameAge'
      BY <1>t, <2>2 DEF CacheTypeOK, NameAge, SavedTtl
    <3> QED
      BY <3>1, <3>2, <3>3 DEF PInv
  <2> QED
    BY <1>2, <2>1, <2>2 DEF createCachedContent, Then
<1>3. ASSUME NEW c \in Callers, saveCache(c) PROVE PInv'
  <2>1. uses[c] \in Caches /\ ages[uses[c]] \in 0 .. ttl
    BY <1>3, <1>t DEF saveCache, CacheTypeOK, NamesMade
  <2>2. CacheTypeOK'
    BY <1>3, <1>t, <1>s, <2>1 DEF saveCache, Then, CacheTypeOK
  <2>3. NamesMade'
    BY <1>3, <1>t DEF saveCache, Then, CacheTypeOK, NamesMade
  <2>4. NameAge'
    <3>1. /\ name' = uses[c] /\ left' = SavedTtl /\ SavedTtl' = SavedTtl /\ ages' = ages
          /\ delays'[uses[c]] = ages[uses[c]]
      BY <1>3, <1>t, <2>1 DEF saveCache, SavedTtl, CacheTypeOK
    <3> QED
      BY <1>s, <2>1, <3>1 DEF NameAge, Unmade
  <2> QED
    BY <2>2, <2>3, <2>4 DEF PInv
<1>4. ASSUME NEW c \in Callers, Called(c) PROVE PInv'
  <2>1. CacheTypeOK' /\ NamesMade'
    BY <1>4, <1>t DEF Called, Then, CacheTypeOK, NamesMade
  <2>2. NameAge'
    BY <1>4, <1>t DEF Called, NameAge, SavedTtl
  <2> QED
    BY <2>1, <2>2 DEF PInv
<1>5. CASE TickCaches
  <2>1. \A n \in Caches : /\ ages[n] = Unmade => ages'[n] = Unmade
                          /\ ages[n] # Unmade => ages'[n] \in {ages[n], ages[n] + 1} /\ ages'[n] \in 0 .. ttl
    BY <1>5, <1>t, <1>s DEF TickCaches, CacheTypeOK, Unmade
  <2>2. CacheTypeOK'
    <3>1. ages' \in [Caches -> {Unmade} \cup 0 .. ttl]
      BY <1>5, <1>t, <2>1 DEF TickCaches, CacheTypeOK
    <3> QED
      BY <1>5, <1>t, <3>1 DEF TickCaches, CacheTypeOK
  <2>3. NamesMade'
    BY <1>5, <1>t, <2>1 DEF TickCaches, NamesMade, CacheTypeOK, Unmade
  <2>4. NameAge'
    <3> SUFFICES ASSUME name' # 0
                 PROVE  /\ left' \in 1 .. SavedTtl
                        /\ delays[name] \in Nat /\ ages'[name] # Unmade
                        /\ ages'[name] <= delays[name] + (SavedTtl - left')
      BY <1>5 DEF TickCaches, NameAge, SavedTtl
    <3>1. name' = name /\ name \in Caches /\ left > 1 /\ left' = left - 1
      BY <1>5, <1>t DEF TickCaches, CacheTypeOK
    <3>2. /\ left \in 1 .. SavedTtl /\ delays[name] \in Nat /\ ages[name] # Unmade
          /\ ages[name] <= delays[name] + (SavedTtl - left)
      BY <1>t, <3>1 DEF NameAge, Caches
    <3>3. ages[name] \in Nat /\ ages'[name] \in {ages[name], ages[name] + 1}
      BY <1>t, <2>1, <3>1, <3>2 DEF CacheTypeOK
    <3> QED
      BY <1>s, <3>1, <3>2, <3>3 DEF Unmade
  <2> QED
    BY <2>2, <2>3, <2>4 DEF PInv
<1>6. CASE UNCHANGED pvars
  BY <1>6 DEF pvars, PInv, CacheTypeOK, NamesMade, NameAge, SavedTtl
<1> QED
  BY <1>1, <1>2, <1>3, <1>4, <1>5, <1>6 DEF PNext

\* However many callers make caches of the same prefix and save and delete their
\* name: it outlives its cache only if Gemini took longer than the margin, or the
\* time to live is shorter than the least time of a name and the margin.
THEOREM NamesOutliveByDelay == PSpec => []NameOutlivedOnlyByDelay
<1>1. PInv => NameOutlivedOnlyByDelay
  <2> SUFFICES ASSUME PInv, name # 0, ages[name] >= ttl, ~(ttl < MinTtl + Margin)
               PROVE  delays[name] > Margin
    BY DEF NameOutlivedOnlyByDelay
  <2>1. ttl \in Nat /\ ages[name] \in Nat /\ delays[name] \in Nat /\ left \in 1 .. SavedTtl
        /\ ages[name] <= delays[name] + (SavedTtl - left)
    BY SavedTtlPositive DEF PInv, CacheTypeOK, NameAge
  <2>2. SavedTtl = ttl - Margin
    BY <2>1, CacheAssumption DEF SavedTtl
  <2> QED
    BY <2>1, <2>2, CacheAssumption
<1> QED
  BY <1>1, CacheStart, CacheStep, PTL DEF PSpec

-----------------------------------------------------------------------------
(* The web search.                                                         *)

Found == {"waiting", "results", "none", "failure"}

Answer == AllProviders \cup {"nothing", "timeout", "failure"}

\* One search: what its providers found and what the model was told of it.
SearchOK(found, what) ==
    /\ found \in [AllProviders -> Found] /\ what \in Answer
    /\ \A p \in AllProviders :
         what \notin {"nothing", "timeout"} /\ found[p] = "results" =>
            what \in AllProviders /\ found[what] = "results" /\ (what = p \/ Before(what, p))

WInv ==
    /\ searchUses \in Nat /\ (MaxUses > 0 => searchUses < MaxUses + MaxCalls)
    /\ pending = FALSE \/ searchUses >= MaxUses
    /\ told \in Seq(Answer) /\ settled \in Seq([AllProviders -> Found]) /\ Len(settled) = Len(told)
    /\ \A c \in 1 .. Len(told) : SearchOK(settled[c], told[c])

\* Of providers that found something one comes before all others.
LEMMA OneIsBest ==
    ASSUME NEW S \in SUBSET AllProviders, S # {}
    PROVE  \E p \in S : \A q \in S \ {p} : Before(p, q)
<1>1. AllProviders = {"brave", "tavily", "serpapi"}
  BY DEF AllProviders, Rank
<1>2. Rank["brave"] = 1 /\ Rank["tavily"] = 2 /\ Rank["serpapi"] = 3
  BY DEF Rank
<1>3. \A p, q \in AllProviders : p = q \/ Before(p, q) \/ Before(q, p)
  BY <1>1, <1>2 DEF Before
<1>4. \A p, q, r \in AllProviders : Before(p, q) /\ Before(q, r) => Before(p, r)
  BY <1>1, <1>2 DEF Before
<1>5. SUFFICES ASSUME \A p \in S : \E q \in S \ {p} : ~ Before(p, q) PROVE FALSE
  OBVIOUS
<1>6. \A p \in S : \E q \in S \ {p} : Before(q, p)
  BY <1>3, <1>5
<1>7. PICK p \in S : TRUE
  OBVIOUS
<1>8. PICK q \in S \ {p} : Before(q, p)
  BY <1>6
<1>9. PICK r \in S \ {q} : Before(r, q)
  BY <1>6
<1>10. r # p /\ S = {p, q, r}
  <2>1. ~ (Before(p, q) /\ Before(q, p))
    BY <1>1, <1>2, <1>8 DEF Before
  <2>2. r # p
    BY <1>8, <1>9, <2>1
  <2>3. AllProviders = {p, q, r}
    BY <1>1, <1>7, <1>8, <1>9, <2>2
  <2> QED
    BY <1>7, <1>8, <1>9, <2>2, <2>3
<1>11. PICK z \in S \ {r} : Before(z, r)
  BY <1>6
<1>12. ~ (Before(p, r) /\ Before(r, p)) /\ ~ (Before(q, r) /\ Before(r, q))
  BY <1>1, <1>2, <1>9, <1>10 DEF Before
<1> QED
  BY <1>4, <1>8, <1>9, <1>10, <1>11, <1>12

\* The length of a sequence is what its domain says.
LEMMA LenOfDomain ==
    ASSUME NEW s, NEW n \in Nat, DOMAIN s = 1 .. n
    PROVE  Len(s) = n
OBVIOUS

\* While no search of an answer is touched, all stay as they are.
LEMMA SearchesStay ==
    ASSUME WInv, UNCHANGED <<preferred, settled, told>>
    PROVE  \A c \in 1 .. Len(told') : SearchOK(settled[c], told[c])'
BY DEF WInv, SearchOK, Before

\* One search is told something, or a provider of it settles: the others stay.
LEMMA OneSearchMoves ==
    ASSUME WInv, UNCHANGED <<preferred, searchUses, pending>>,
           NEW c \in 1 .. Len(told), NEW found, NEW what,
           settled' = [settled EXCEPT ![c] = found], told' = [told EXCEPT ![c] = what],
           SearchOK(found, what)
    PROVE  WInv'
<1>1. DOMAIN told' = DOMAIN told /\ DOMAIN settled' = DOMAIN settled
  OBVIOUS
<1>2. Len(told') = Len(told)
  BY <1>1, LenOfDomain DEF WInv
<1>3. \A d \in 1 .. Len(told) : settled'[d] = IF d = c THEN found ELSE settled[d]
  BY DEF WInv
<1>4. \A d \in 1 .. Len(told) : told'[d] = IF d = c THEN what ELSE told[d]
  BY DEF WInv
<1>5. \A f, w : SearchOK(f, w)' <=> SearchOK(f, w)
  BY DEF SearchOK, Before
<1>6. \A d \in 1 .. Len(told) : SearchOK(settled'[d], told'[d])
  BY <1>3, <1>4 DEF WInv
<1>7. told' \in Seq(Answer) /\ settled' \in Seq([AllProviders -> Found])
  BY DEF WInv, SearchOK
<1>8. Len(settled') = Len(told')
  BY <1>1, <1>2, LenOfDomain DEF WInv
<1> QED
  BY <1>2, <1>5, <1>6, <1>7, <1>8 DEF WInv

LEMMA SearchStep == WInv /\ [WNext]_wvars => WInv'
<1> SUFFICES ASSUME WInv, [WNext]_wvars PROVE WInv'
  OBVIOUS
<1>0. MaxUses \in Nat /\ MaxCalls \in Nat \ {0}
  BY SearchAssumption
<1>1. CASE Ask
  <2>1. CASE \E asks \in BOOLEAN : Ends(asks) /\ (asks => searchUses >= MaxUses)
    BY <1>1, <2>1, SearchesStay DEF Ask, Ends, WInv
  <2>2. CASE searchUses < MaxUses /\ \E k \in 1 .. MaxCalls : Searches(k) /\ UNCHANGED pending
    <3>1. PICK k \in 1 .. MaxCalls : Searches(k) /\ UNCHANGED pending
      BY <2>2
    <3>2. searchUses' = searchUses + k /\ searchUses' \in Nat /\ searchUses' < MaxUses + MaxCalls
      BY <1>0, <2>2, <3>1 DEF Searches, WInv
    <3>3. /\ told' = [c \in 1 .. k |-> "nothing"] /\ Len(told') = k /\ Len(settled') = k
          /\ settled' = [c \in 1 .. k |-> [p \in AllProviders |-> "waiting"]]
      BY <1>0, <3>1, LenOfDomain DEF Searches
    <3>5. told' \in Seq(Answer) /\ settled' \in Seq([AllProviders -> Found])
      BY <1>0, <3>3 DEF Answer, Found
    <3>4. \A c \in 1 .. k : SearchOK(settled[c], told[c])'
      BY <3>3 DEF SearchOK, Found, Answer
    <3>6. pending' = FALSE
      BY <1>0, <2>2, <3>1 DEF WInv
    <3>7. \A c \in 1 .. Len(told') : SearchOK(settled[c], told[c])'
      BY <3>3, <3>4
    <3>8. Len(settled') = Len(told')
      BY <3>3
    <3> QED
      BY <3>2, <3>5, <3>6, <3>7, <3>8 DEF WInv
  <2> QED
    BY <1>0, <1>1, <2>1, <2>2 DEF Ask, WInv
<1>2. CASE NextTurn
  <2>1. told' = <<>> /\ settled' = <<>> /\ UNCHANGED <<searchUses, pending>>
    BY <1>2 DEF NextTurn
  <2> QED
    BY <2>1 DEF WInv
<1>3. CASE NextRequest
  <2>1. searchUses' = 0 /\ pending' = FALSE /\ UNCHANGED <<preferred, settled, told>>
    BY <1>3 DEF NextRequest
  <2>2. \A c \in 1 .. Len(told') : SearchOK(settled[c], told[c])'
    BY <2>1, SearchesStay
  <2>3. searchUses' \in Nat /\ searchUses' < MaxUses + MaxCalls
    BY <1>0, <2>1
  <2> QED
    BY <2>1, <2>2, <2>3 DEF WInv
<1>4. ASSUME NEW c \in 1 .. Len(told), NEW p \in AllProviders, Settle(c, p) PROVE WInv'
  <2>1. /\ told[c] = "nothing" /\ UNCHANGED <<preferred, searchUses, pending, told>>
        /\ \E found \in Found : settled' = [settled EXCEPT ![c][p] = found]
    BY <1>4 DEF Settle, Found
  <2>2. PICK found \in Found : settled' = [settled EXCEPT ![c][p] = found]
    BY <2>1
  <2> DEFINE now == [settled[c] EXCEPT ![p] = found]
  <2>3. SearchOK(settled[c], told[c])
    BY DEF WInv
  <2>4. SearchOK(now, "nothing")
    BY <2>3 DEF SearchOK, Answer
  <2>5. settled' = [settled EXCEPT ![c] = now]
    BY <2>2 DEF WInv
  <2>6. told' = [told EXCEPT ![c] = "nothing"]
    BY <2>1 DEF WInv
  <2> HIDE DEF now
  <2> QED
    BY <2>1, <2>4, <2>5, <2>6, OneSearchMoves
<1>5. ASSUME NEW c \in 1 .. Len(told), NEW what, Told(c, what), SearchOK(settled[c], what)
      PROVE  WInv'
  <2>1. /\ told' = [told EXCEPT ![c] = what] /\ settled' = [settled EXCEPT ![c] = settled[c]]
        /\ UNCHANGED <<preferred, searchUses, pending>>
    BY <1>5 DEF Told, WInv
  <2> QED
    BY <1>5, <2>1, OneSearchMoves
<1>6. ASSUME NEW c \in 1 .. Len(told), executeWebSearch(c) PROVE WInv'
  <2> DEFINE found == {p \in AllProviders : settled[c][p] = "results"}
             best  == CHOOSE p \in found : \A q \in found \ {p} : Before(p, q)
  <2>1. settled[c] \in [AllProviders -> Found]
    BY DEF WInv, SearchOK
  <2>2. CASE found = {}
    <3>1. SearchOK(settled[c], "failure")
      BY <2>1, <2>2 DEF SearchOK, Answer
    <3> QED
      BY <1>5, <1>6, <2>2, <3>1 DEF executeWebSearch
  <2>3. CASE found # {}
    <3>1. \E p \in found : \A q \in found \ {p} : Before(p, q)
      BY <2>3, OneIsBest
    <3>2. best \in found /\ \A q \in found \ {best} : Before(best, q)
      BY <3>1
    <3>3. SearchOK(settled[c], best)
      BY <2>1, <3>2 DEF SearchOK, Answer
    <3> QED
      BY <1>5, <1>6, <2>3, <3>3 DEF executeWebSearch
  <2> QED
    BY <2>2, <2>3
<1>7. ASSUME NEW c \in 1 .. Len(told), EmptyQuery(c) PROVE WInv'
  <2>1. SearchOK(settled[c], "failure")
    BY <1>7 DEF EmptyQuery, WInv, SearchOK, Answer
  <2> QED
    BY <1>5, <1>7, <2>1 DEF EmptyQuery
<1>8. ASSUME NEW c \in 1 .. Len(told), GlobalTimeout(c) PROVE WInv'
  <2>1. SearchOK(settled[c], "timeout")
    BY DEF WInv, SearchOK, Answer
  <2> QED
    BY <1>5, <1>8, <2>1 DEF GlobalTimeout
<1>9. CASE UNCHANGED wvars
  BY <1>9, SearchesStay DEF wvars, WInv
<1> QED
  BY <1>1, <1>2, <1>3, <1>4, <1>6, <1>7, <1>8, <1>9 DEF WNext

\* For any limits, providers with keys and answers of theirs: what a provider
\* found is told to the model, the best of it, unless the search ran out of time;
\* and no more searches are made than the limit and the rest of one answer.
THEOREM SearchesTold == WSpec => []SearchesAreTold
<1>1. WInit => WInv
  <2> SUFFICES ASSUME WInit PROVE WInv
    OBVIOUS
  <2>1. told = <<>> /\ settled = <<>> /\ searchUses = 0 /\ pending = FALSE
    BY DEF WInit
  <2> QED
    BY <2>1, SearchAssumption DEF WInv
<1>2. WInv => SearchesAreTold
  BY DEF WInv, SearchOK, SearchesAreTold
<1> QED
  BY <1>1, <1>2, SearchStep, PTL DEF WSpec

-----------------------------------------------------------------------------
(* What sessions remember for one another.                                 *)

Notes == [of : ProjectKeys \cup {<<s>> : s \in Runs},
          kind : {"fact", "progress", "objective"}, n : Nat]

FactsOf(key) == {x \in Notes : x.kind = "fact" /\ x.of = key /\ key \in ProjectKeys}

\* What may be in the memory of a session.
OwnNotes(s) == {x \in Notes : x.of = IF x.kind = "fact" THEN Kind(s) ELSE <<s>>}

\* What was learnt is under its project, what was done under the scope of all.
RecordOK(r) ==
    \/ r.note \in FactsOf(r.scope)
    \/ r.scope = SessionScope /\ r.note \in Notes /\ r.note.kind = "progress"

Records == vectors \cup saved \cup remembering

\* What a session remembered when it began.
Places(s) == {i \in 1 .. Len(memory[s]) : memory[s][i].kind # "progress"}
Known(s)  == {memory[s][i] : i \in Places(s)}

\* Places for its own notes, each once, and for others'.
Room(s) == IF Cardinality(Places(s)) > Limit THEN Cardinality(Places(s)) ELSE Limit

RetrievedOK(s) ==
    /\ \A x \in retrieved[s] : x.kind = "fact" => x.of = Kind(s)
    /\ memory[s] = <<>> => retrieved[s] = {}
    /\ Cardinality(retrieved[s] \ Known(s)) + Cardinality(Known(s)) <= Room(s)

MInv ==
    /\ DOMAIN projectMemory = ProjectKeys /\ \A k \in ProjectKeys : projectMemory[k] \in Seq(FactsOf(k))
    /\ memory \in [Runs -> Seq(Notes)] /\ \A s \in Runs : memory[s] \in Seq(OwnNotes(s))
    /\ IsFiniteSet(Records) /\ \A r \in Records : RecordOK(r)
    /\ DOMAIN retrieved = Runs /\ \A s \in Runs : RetrievedOK(s)

\* The last of some notes are among them.
LEMMA LastAreSome ==
    ASSUME NEW S, NEW q \in Seq(S), NEW n \in Nat
    PROVE  LastNotes(q, n) \in Seq(S)
<1>1. CASE Len(q) <= n
  BY <1>1 DEF LastNotes
<1>2. CASE ~ (Len(q) <= n)
  <2>1. Len(q) \in Nat /\ \A i \in Len(q) - n + 1 .. Len(q) : q[i] \in S
    BY <1>2
  <2>2. SubSeq(q, Len(q) - n + 1, Len(q)) \in Seq(S)
    BY <2>1, SubSeqProperties
  <2> QED
    BY <1>2, <2>2 DEF LastNotes
<1> QED
  BY <1>1, <1>2

\* A list has finitely many notes.
LEMMA ListedAreFinite ==
    ASSUME NEW S, NEW q \in Seq(S)
    PROVE  IsFiniteSet(ToSet(q)) /\ ToSet(q) \subseteq S
<1>1. Len(q) \in Nat /\ q \in [1 .. Len(q) -> ToSet(q)] /\ DOMAIN q = 1 .. Len(q)
  BY DEF ToSet
<1>2. q \in Surjection(1 .. Len(q), ToSet(q))
  BY <1>1 DEF Surjection, ToSet
<1>3. IsFiniteSet(1 .. Len(q))
  BY <1>1, FS_Interval
<1> QED
  BY <1>1, <1>2, <1>3, FS_Surjection DEF ToSet

\* A record per note: finitely many.
LEMMA RecordsAreFinite ==
    ASSUME NEW S, IsFiniteSet(S), NEW key
    PROVE  IsFiniteSet({[scope |-> key, note |-> x] : x \in S})
<1> DEFINE T == {[scope |-> key, note |-> x] : x \in S}
           f == [x \in S |-> [scope |-> key, note |-> x]]
<1>1. f \in Surjection(S, T)
  BY DEF Surjection
<1> QED
  BY <1>1, FS_Surjection

LEMMA LesserOf ==
    ASSUME NEW a \in Nat, NEW b \in Nat
    PROVE  Min({a, b}) \in {a, b} /\ Min({a, b}) <= a /\ Min({a, b}) <= b
<1>1. \E x \in {a, b} : \A y \in {a, b} : x <= y
  OBVIOUS
<1>2. Min({a, b}) \in {a, b} /\ \A y \in {a, b} : Min({a, b}) <= y
  BY <1>1 DEF Min
<1> QED
  BY <1>2

\* No key of a project is the scope of all sessions.
LEMMA ScopesDiffer == \A s \in Runs : projectKey(s) # SessionScope
<1> SUFFICES ASSUME NEW s \in Runs, projectKey(s) = SessionScope PROVE FALSE
  OBVIOUS
<1>1. Len(projectKey(s)) = 2 /\ Len(SessionScope) = 1
  BY DEF projectKey, SessionScope
<1> QED
  BY <1>1

LEMMA NoUpdates ==
    ASSUME NEW s \in Runs, memory[s] \in Seq(Notes), Updates(s) = 0
    PROVE  Places(s) = 1 .. Len(memory[s])
<1> DEFINE S == {i \in 1 .. Len(memory[s]) : memory[s][i].kind = "progress"}
<1>1. IsFiniteSet(1 .. Len(memory[s]))
  BY FS_Interval
<1>2. IsFiniteSet(S)
  BY <1>1, FS_Subset
<1>3. S = {}
  BY <1>2, FS_EmptySet DEF Updates
<1> QED
  BY <1>3 DEF Places

\* As many notes as places at most.
LEMMA NotesOfPlaces ==
    ASSUME NEW S, NEW q \in Seq(S), NEW I \in SUBSET (1 .. Len(q))
    PROVE  /\ IsFiniteSet(I) /\ IsFiniteSet({q[i] : i \in I})
           /\ Cardinality(I) \in Nat /\ Cardinality({q[i] : i \in I}) \in Nat
           /\ Cardinality({q[i] : i \in I}) <= Cardinality(I)
<1> DEFINE T == {q[i] : i \in I}
           f == [i \in I |-> q[i]]
<1>1. IsFiniteSet(1 .. Len(q))
  BY FS_Interval
<1>2. IsFiniteSet(I)
  BY <1>1, FS_Subset
<1>3. f \in Surjection(I, T)
  BY DEF Surjection
<1>4. IsFiniteSet(T) /\ Cardinality(T) <= Cardinality(I)
  BY <1>2, <1>3, FS_Surjection
<1> QED
  BY <1>2, <1>4, FS_CardinalityType

\* There is room for all that a session remembers when nothing is retrieved.
LEMMA RoomForOwn ==
    ASSUME NEW q \in Seq(Notes)
    PROVE  LET places == {i \in 1 .. Len(q) : q[i].kind # "progress"}
           IN  0 + Cardinality({q[i] : i \in places}) <=
                 IF Cardinality(places) > Limit THEN Cardinality(places) ELSE Limit
<1> DEFINE places == {i \in 1 .. Len(q) : q[i].kind # "progress"}
<1>1. /\ Cardinality(places) \in Nat /\ Cardinality({q[i] : i \in places}) \in Nat
      /\ Cardinality({q[i] : i \in places}) <= Cardinality(places)
  <2>1. places \in SUBSET (1 .. Len(q))
    OBVIOUS
  <2> HIDE DEF places
  <2> QED
    BY <2>1, NotesOfPlaces
<1> HIDE DEF places
<1>2. 0 + Cardinality({q[i] : i \in places}) <=
        IF Cardinality(places) > Limit THEN Cardinality(places) ELSE Limit
  BY <1>1, MemoryAssumption
<1> QED
  BY <1>2 DEF places

LEMMA MemoryStaysInOrder ==
    ASSUME MInv, NEW s \in Runs, initialize(s)
    PROVE  MInv'
<1> DEFINE key == projectKey(s)
           F   == FactsOf(key)
<1>1. key \in ProjectKeys /\ projectMemory[key] \in Seq(F) /\ key = Kind(s)
  BY DEF ProjectKeys, MInv, projectKey, Kind
<1>2. PICK first \in 1 .. Facts + 1, n \in 0 .. Facts :
         LET persisted == projectMemory[projectKey(s)]
             facts     == [i \in 1 .. n |-> Note(Kind(s), "fact", first + i - 1)]
             longTerm  == LastNotes(persisted, LongTerm)
             learnt    == facts \o longTerm
             records   == {[scope |-> projectKey(s), note |-> x] : x \in ToSet(learnt)}
         IN  /\ memory' = [memory EXCEPT ![s] = <<Note(<<s>>, "objective", 0)>> \o learnt]
             /\ projectMemory' = [projectMemory EXCEPT ![projectKey(s)] =
                                     LastNotes(persisted \o learnt, KeptNotes)]
             /\ vectors' = vectors \cup records /\ remembering' = remembering \cup records
  BY DEF initialize
<1>3. memory[s] = <<>> /\ UNCHANGED <<saved, retrieved>>
  BY DEF initialize
<1> DEFINE facts   == [i \in 1 .. n |-> Note(Kind(s), "fact", first + i - 1)]
           learnt  == facts \o LastNotes(projectMemory[key], LongTerm)
           last    == LastNotes(projectMemory[key] \o learnt, KeptNotes)
           own     == <<Note(<<s>>, "objective", 0)>> \o learnt
           records == {[scope |-> key, note |-> x] : x \in ToSet(learnt)}
<1>4. /\ memory' = [memory EXCEPT ![s] = own] /\ projectMemory' = [projectMemory EXCEPT ![key] = last]
      /\ vectors' = vectors \cup records /\ remembering' = remembering \cup records
  BY <1>2
<1>5. facts \in Seq(F)
  <2>1. \A i \in 1 .. n : Note(Kind(s), "fact", first + i - 1) \in F
    <3>1. \A i \in 1 .. n : first + i - 1 \in Nat
      BY MemoryAssumption
    <3> QED
      BY <1>1, <3>1 DEF Note, FactsOf, Notes
  <2> QED
    BY <2>1, MemoryAssumption
<1>6. learnt \in Seq(F)
  <2>1. LastNotes(projectMemory[key], LongTerm) \in Seq(F)
    BY <1>1, LastAreSome, MemoryAssumption
  <2> QED
    BY <1>5, <2>1, ConcatProperties
<1>7. last \in Seq(F)
  <2>1. projectMemory[key] \o learnt \in Seq(F)
    BY <1>1, <1>6, ConcatProperties
  <2> QED
    BY <2>1, LastAreSome, MemoryAssumption
<1>8. own \in Seq(OwnNotes(s)) /\ own # <<>>
  <2>1. F \subseteq OwnNotes(s)
    BY <1>1 DEF FactsOf, OwnNotes
  <2>2. <<Note(<<s>>, "objective", 0)>> \in Seq(OwnNotes(s))
    <3>1. Note(<<s>>, "objective", 0) \in OwnNotes(s)
      BY DEF Note, OwnNotes, Notes
    <3> QED
      BY <3>1
  <2>3. learnt \in Seq(OwnNotes(s))
    BY <1>6, <2>1, SeqMonotonic
  <2>4. own \in Seq(OwnNotes(s)) /\ Len(own) = Len(<<Note(<<s>>, "objective", 0)>>) + Len(learnt)
    BY <2>2, <2>3, ConcatProperties
  <2>5. Len(own) # 0
    BY <2>3, <2>4
  <2> QED
    BY <2>4, <2>5
<1>9. IsFiniteSet(records) /\ \A r \in records : r.note \in F /\ r.scope = key
  <2>1. IsFiniteSet(ToSet(learnt)) /\ ToSet(learnt) \subseteq F
    BY <1>6, ListedAreFinite
  <2>2. IsFiniteSet(records)
    BY <2>1, RecordsAreFinite
  <2>3. \A r \in records : \E x \in ToSet(learnt) : r = [scope |-> key, note |-> x]
    OBVIOUS
  <2> HIDE DEF records, learnt
  <2> QED
    BY <2>1, <2>2, <2>3
<1> HIDE DEF facts, learnt, last, own, records, F
<1>10. \A t \in Runs : memory'[t] = IF t = s THEN own ELSE memory[t]
  BY <1>4 DEF MInv
<1>11. memory' \in [Runs -> Seq(Notes)] /\ \A t \in Runs : memory'[t] \in Seq(OwnNotes(t))
  <2>1. own \in Seq(Notes)
    BY <1>8, SeqMonotonic DEF OwnNotes
  <2> QED
    BY <1>4, <1>8, <1>10, <2>1 DEF MInv
<1>12. DOMAIN projectMemory' = ProjectKeys
       /\ \A k \in ProjectKeys : projectMemory'[k] \in Seq(FactsOf(k))
  BY <1>1, <1>4, <1>7 DEF MInv, F
<1>13. IsFiniteSet(Records') /\ \A r \in Records' : RecordOK(r)
  <2>1. Records' = Records \cup records
    BY <1>3, <1>4 DEF Records
  <2>2. IsFiniteSet(Records')
    BY <1>9, <2>1, FS_Union DEF MInv
  <2>3. \A r \in records : RecordOK(r)
    BY <1>9 DEF RecordOK, F
  <2> QED
    BY <2>1, <2>2, <2>3 DEF MInv
<1>14. ASSUME NEW t \in Runs PROVE RetrievedOK(t)'
  <2>1. RetrievedOK(t)
    BY DEF MInv
  <2>2. CASE t = s
    <3>1. retrieved'[s] = {} /\ memory'[s] \in Seq(Notes)
      BY <1>3, <1>11, <2>1, <2>2 DEF RetrievedOK
    <3>2. Cardinality(retrieved'[s] \ Known(s)') = 0
      BY <3>1, FS_EmptySet
    <3>3. 0 + Cardinality(Known(s)') <= Room(s)'
      BY <3>1, RoomForOwn DEF Known, Places, Room
    <3> QED
      BY <2>2, <3>1, <3>2, <3>3 DEF RetrievedOK
  <2>3. CASE t # s
    BY <1>3, <1>10, <2>1, <2>3 DEF RetrievedOK, Room, Places, Known
  <2> QED
    BY <2>2, <2>3
<1> QED
  BY <1>3, <1>11, <1>12, <1>13, <1>14 DEF MInv

LEMMA UpdateKeepsOrder ==
    ASSUME MInv, NEW s \in Runs, update(s)
    PROVE  MInv'
<1>0. PICK x : x = Note(<<s>>, "progress", Updates(s) + 1)
  OBVIOUS
<1>1. /\ memory[s] # <<>> /\ memory' = [memory EXCEPT ![s] = Append(@, x)]
      /\ remembering' = remembering \cup {[scope |-> SessionScope, note |-> x]}
      /\ UNCHANGED <<projectMemory, vectors, saved, retrieved>>
  BY <1>0 DEF update
<1>2. Updates(s) \in Nat
  <2>1. IsFiniteSet(1 .. Len(memory[s]))
    BY FS_Interval DEF MInv
  <2>2. IsFiniteSet({i \in 1 .. Len(memory[s]) : memory[s][i].kind = "progress"})
    BY <2>1, FS_Subset
  <2> QED
    BY <2>2, FS_CardinalityType DEF Updates
<1>3. x \in OwnNotes(s) /\ x \in Notes /\ x.kind = "progress"
  BY <1>0, <1>2 DEF Note, OwnNotes, Notes
<1>4. \A t \in Runs : memory'[t] = IF t = s THEN Append(memory[s], x) ELSE memory[t]
  BY <1>1 DEF MInv
<1>5. memory[s] \in Seq(OwnNotes(s)) /\ memory[s] \in Seq(Notes)
  BY DEF MInv
<1>6. memory' \in [Runs -> Seq(Notes)] /\ \A t \in Runs : memory'[t] \in Seq(OwnNotes(t))
  BY <1>1, <1>3, <1>4, <1>5 DEF MInv
<1>7. /\ Len(memory[s]) \in Nat /\ Len(memory'[s]) = Len(memory[s]) + 1 
      /\ \A i \in 1 .. Len(memory[s]) + 1 :
           memory'[s][i] = IF i = Len(memory[s]) + 1 THEN x ELSE memory[s][i]
  <2>1. memory'[s] = Append(memory[s], x)
    BY <1>4
  <2> QED
    BY <1>3, <1>5, <2>1, AppendProperties
<1>8. IsFiniteSet(Records') /\ \A r \in Records' : RecordOK(r)
  <2> DEFINE new == [scope |-> SessionScope, note |-> x]
  <2>1. Records' = Records \cup {new}
    BY <1>1 DEF Records
  <2>2. RecordOK(new)
    BY <1>3 DEF RecordOK
  <2>3. IsFiniteSet(Records')
    BY <2>1, FS_AddElement DEF MInv
  <2> HIDE DEF new
  <2> QED
    BY <2>1, <2>2, <2>3 DEF MInv
<1>9. ASSUME NEW t \in Runs PROVE RetrievedOK(t)'
  <2>1. RetrievedOK(t)
    BY DEF MInv
  <2>2. CASE t = s
    <3>1. \A i : i \in 1 .. Len(memory[s]) + 1 <=> i \in 1 .. Len(memory[s]) \/ i = Len(memory[s]) + 1
      BY <1>7
    <3>2. \A i \in 1 .. Len(memory[s]) : memory'[s][i] = memory[s][i]
      BY <1>7
    <3>3. memory'[s][Len(memory[s]) + 1] = x
      BY <1>7
    <3>4. Places(s)' = Places(s)
      BY <1>3, <1>7, <3>1, <3>2, <3>3 DEF Places
    <3>5. Known(s)' = Known(s)
      BY <3>2, <3>4 DEF Known, Places
    <3> QED
      BY <1>1, <2>1, <2>2, <3>4, <3>5 DEF RetrievedOK, Room
  <2>3. CASE t # s
    BY <1>1, <1>4, <2>1, <2>3 DEF RetrievedOK, Room, Places, Known
  <2> QED
    BY <2>2, <2>3
<1> QED
  BY <1>1, <1>6, <1>8, <1>9 DEF MInv

\* When only what is on record changes, and nothing is added to it, memory and
\* what was retrieved are as before.
LEMMA FewerRecords ==
    ASSUME MInv, Records' \subseteq Records, UNCHANGED <<memory, retrieved>>,
           DOMAIN projectMemory' = ProjectKeys,
           \A k \in ProjectKeys : projectMemory'[k] \in Seq(FactsOf(k))
    PROVE  MInv'
<1>1. IsFiniteSet(Records')
  BY FS_Subset DEF MInv
<1>2. \A r \in Records' : RecordOK(r)
  BY DEF MInv
<1>3. ASSUME NEW s \in Runs PROVE RetrievedOK(s)'
  <2>1. Places(s)' = Places(s) /\ Known(s)' = Known(s) /\ Room(s)' = Room(s)
    BY DEF Places, Known, Room
  <2> QED
    BY <2>1 DEF MInv, RetrievedOK
<1> QED
  BY <1>1, <1>2, <1>3 DEF MInv

\* What a session is given: of its own memory first, and of what others learnt or
\* did only what there is room for beyond that.
LEMMA RetrievedInOrder ==
    ASSUME MInv, NEW s \in Runs, retrieve(s)
    PROVE  MInv'
<1> DEFINE found == In(projectKey(s)) \cup In(SessionScope)
           all_  == 1 .. Len(memory[s])
<1>1. Updates(s) = 0 /\ UNCHANGED <<projectMemory, vectors, saved, remembering, memory>>
      /\ memory[s] # <<>>
  BY DEF retrieve
<1>2. memory[s] \in Seq(OwnNotes(s)) /\ memory[s] \in Seq(Notes) /\ Len(memory[s]) \in Nat
  BY DEF MInv
<1>3. Places(s) = all_ /\ Cardinality(all_) = Len(memory[s]) /\ IsFiniteSet(all_)
  BY <1>1, <1>2, NoUpdates, FS_Interval
<1>4. PICK best \in SUBSET all_ :
        LET own == {memory[s][i] : i \in best}
        IN  /\ Cardinality(best) = Min({Limit, Len(memory[s])})
            /\ \E n \in 0 .. Min({Limit - Cardinality(own), Cardinality(found)}) :
               \E more \in kSubset(n, found) :
                 retrieved' = [retrieved EXCEPT ![s] = own \cup more]
  BY DEF retrieve, BestOfOwn, kSubset
<1> DEFINE own  == {memory[s][i] : i \in best}
           rest == {memory[s][i] : i \in all_ \ best}
           m    == Min({Limit, Len(memory[s])})
<1>5. PICK n \in 0 .. Min({Limit - Cardinality(own), Cardinality(found)}) :
        \E more \in kSubset(n, found) : retrieved' = [retrieved EXCEPT ![s] = own \cup more]
  BY <1>4
<1>6. PICK more \in SUBSET found : /\ Cardinality(more) = n
                                  /\ retrieved' = [retrieved EXCEPT ![s] = own \cup more]
  BY <1>5 DEF kSubset
<1>7. /\ IsFiniteSet(own) /\ IsFiniteSet(rest)
      /\ Cardinality(own) \in Nat /\ Cardinality(rest) \in Nat
      /\ Cardinality(own) <= m /\ Cardinality(rest) <= Len(memory[s]) - m
  <2>1. IsFiniteSet(own) /\ Cardinality(own) \in Nat /\ Cardinality(own) <= Cardinality(best)
        /\ Cardinality(best) \in Nat
    BY <1>2, NotesOfPlaces
  <2>2. all_ \ best \in SUBSET all_
    OBVIOUS
  <2>3. /\ IsFiniteSet(rest) /\ Cardinality(rest) \in Nat
        /\ Cardinality(rest) <= Cardinality(all_ \ best)
    <3> HIDE DEF all_
    <3>1. \A I \in SUBSET all_ : /\ IsFiniteSet({memory[s][i] : i \in I})
                                 /\ Cardinality({memory[s][i] : i \in I}) \in Nat
                                 /\ Cardinality({memory[s][i] : i \in I}) <= Cardinality(I)
      BY <1>2, NotesOfPlaces DEF all_
    <3> QED
      BY <2>2, <3>1
  <2>4. Cardinality(all_ \ best) = Cardinality(all_) - Cardinality(all_ \cap best)
    BY <1>3, FS_Difference
  <2>5. all_ \cap best = best
    OBVIOUS
  <2> HIDE DEF all_, rest, own
  <2> QED
    BY <1>3, <1>4, <2>1, <2>3, <2>4, <2>5
<1>8. m \in Nat /\ m <= Limit /\ m <= Len(memory[s]) /\ m \in {Limit, Len(memory[s])}
  BY <1>2, LesserOf, MemoryAssumption
<1>9. IsFiniteSet(found)
  <2>1. \A k : IsFiniteSet(In(k))
    <3> SUFFICES ASSUME NEW k PROVE IsFiniteSet(In(k))
      OBVIOUS
    <3> DEFINE S == {x \in vectors \cup saved : x.scope = k}
               f == [r \in S |-> r.note]
    <3>1. IsFiniteSet(S)
      <4>1. S \subseteq Records
        BY DEF Records
      <4> QED
        BY <4>1, FS_Subset DEF MInv
    <3>2. f \in Surjection(S, In(k))
      BY DEF Surjection, In
    <3> QED
      BY <3>1, <3>2, FS_Surjection
  <2> QED
    BY <2>1, FS_Union
<1>10. \A x \in found : x.kind = "fact" => x.of = Kind(s)
  <2> SUFFICES ASSUME NEW x \in found, x.kind = "fact" PROVE x.of = Kind(s)
    OBVIOUS
  <2>1. PICK r \in Records : r.note = x /\ r.scope \in {projectKey(s), SessionScope}
    BY DEF In, Records
  <2>2. RecordOK(r)
    BY DEF MInv
  <2>3. x.of = r.scope /\ r.scope \in ProjectKeys
    BY <2>1, <2>2 DEF RecordOK, FactsOf
  <2>4. SessionScope \notin ProjectKeys
    BY ScopesDiffer DEF ProjectKeys
  <2> QED
    BY <2>1, <2>3, <2>4 DEF projectKey, Kind
<1>11. \A x \in own : x.kind = "fact" => x.of = Kind(s)
  BY <1>2 DEF OwnNotes
<1>12. Known(s) = own \cup rest
  BY <1>3 DEF Known
<1> HIDE DEF own, rest, found, all_, m
<1>13. Cardinality((own \cup more) \ Known(s)) + Cardinality(Known(s)) <= Room(s)
  <2>1. IsFiniteSet(more) /\ (own \cup more) \ Known(s) \subseteq more
    BY <1>6, <1>9, <1>12, FS_Subset
  <2>2. /\ Cardinality((own \cup more) \ Known(s)) \in Nat
        /\ Cardinality((own \cup more) \ Known(s)) <= n
    BY <1>6, <2>1, FS_Subset, FS_CardinalityType
  <2>3. n \in Nat /\ n <= Limit - Cardinality(own)
    <3>1. Limit - Cardinality(own) \in Nat /\ Cardinality(found) \in Nat
      BY <1>7, <1>8, <1>9, FS_CardinalityType, MemoryAssumption
    <3> QED
      BY <1>5, <3>1, LesserOf
  <2>4. IsFiniteSet(own \cup rest) /\ Cardinality(own \cup rest) \in Nat
        /\ Cardinality(own \cup rest) <= Cardinality(own) + Cardinality(rest)
    <3>1. Cardinality(own \cup rest) = Cardinality(own) + Cardinality(rest) - Cardinality(own \cap rest)
          /\ IsFiniteSet(own \cup rest)
      BY <1>7, FS_Union
    <3>2. IsFiniteSet(own \cap rest) 
      BY <1>7, FS_Subset
    <3>3. Cardinality(own \cap rest) \in Nat /\ Cardinality(own \cup rest) \in Nat
      BY <3>1, <3>2, FS_CardinalityType
    <3> QED
      BY <1>7, <3>1, <3>3
  <2>5. Room(s) = IF Len(memory[s]) > Limit THEN Len(memory[s]) ELSE Limit
    BY <1>3 DEF Room
  <2> DEFINE f == Cardinality((own \cup more) \ Known(s))
             g == Cardinality(Known(s))
             o == Cardinality(own)
             r == Cardinality(rest)
             l == Len(memory[s])
  <2>6. f \in Nat /\ g \in Nat /\ o \in Nat /\ r \in Nat /\ l \in Nat /\ Limit \in Nat
    BY <1>2, <1>7, <1>12, <2>2, <2>4, MemoryAssumption
  <2>7. f <= n /\ n <= Limit - o /\ g <= o + r /\ r <= l - m
    BY <1>7, <1>12, <2>2, <2>3, <2>4
  <2> HIDE DEF f, g, o, r, l
  <2>8. f + g <= Limit + l - m
    BY <1>8, <2>3, <2>6, <2>7
  <2>9. m = IF l > Limit THEN Limit ELSE l
    BY <1>8, <2>6 DEF l
  <2>10. f + g <= IF l > Limit THEN l ELSE Limit
    BY <2>6, <2>8, <2>9
  <2> QED
    BY <2>5, <2>10 DEF f, g, l
<1>14. retrieved'[s] = own \cup more /\ \A t \in Runs : t # s => retrieved'[t] = retrieved[t]
  BY <1>6 DEF MInv
<1>15. ASSUME NEW t \in Runs PROVE RetrievedOK(t)'
  <2>0. Places(t)' = Places(t) /\ Known(t)' = Known(t) /\ Room(t)' = Room(t)
    BY <1>1 DEF Places, Known, Room
  <2>1. CASE t = s
    <3>1. \A x \in own \cup more : x.kind = "fact" => x.of = Kind(s)
      BY <1>6, <1>10, <1>11
    <3> QED
      BY <1>1, <1>13, <1>14, <2>0, <2>1, <3>1 DEF RetrievedOK
  <2>2. CASE t # s
    BY <1>1, <1>14, <2>0, <2>2 DEF RetrievedOK, MInv
  <2> QED
    BY <2>1, <2>2
<1>16. Records' = Records /\ DOMAIN retrieved' = Runs
  BY <1>1, <1>6 DEF Records, MInv
<1> QED
  BY <1>1, <1>15, <1>16 DEF MInv

LEMMA MemoryStep == MInv /\ [MNext]_mvars => MInv'
<1> SUFFICES ASSUME MInv, [MNext]_mvars PROVE MInv'
  OBVIOUS
<1>1. CASE Remembered
  <2>1. Records' \subseteq Records /\ UNCHANGED <<projectMemory, memory, retrieved>>
    BY <1>1 DEF Remembered, Records
  <2> QED
    BY <2>1, FewerRecords DEF MInv
<1>2. CASE ProcessRestarts
  <2>1. Records' \subseteq Records /\ UNCHANGED <<memory, retrieved>>
        /\ projectMemory' = [k \in ProjectKeys |-> <<>>]
    BY <1>2 DEF ProcessRestarts, Records
  <2> QED
    BY <2>1, FewerRecords
<1>3. CASE UNCHANGED mvars
  <2>1. Records' \subseteq Records /\ UNCHANGED <<projectMemory, memory, retrieved>>
    BY <1>3 DEF mvars, Records
  <2> QED
    BY <2>1, FewerRecords DEF MInv
<1> QED
  BY <1>1, <1>2, <1>3, MemoryStaysInOrder, UpdateKeepsOrder, RetrievedInOrder DEF MNext

\* For any sessions, projects, numbers of notes and restarts: what is learnt of a
\* project of one kind stays with that kind, and of what it did not remember itself a
\* session is given no more than what its own notes leave free of the limit, or are
\* more than the different ones among them.
THEOREM ForeignFillUp == MSpec => []ForeignNotesFillUp
<1>1. MInit => MInv
  <2> SUFFICES ASSUME MInit PROVE MInv
    OBVIOUS
  <2>1. Records = {} /\ IsFiniteSet(Records)
    BY FS_EmptySet DEF MInit, Records
  <2>2. memory \in [Runs -> Seq(Notes)] /\ \A s \in Runs : memory[s] \in Seq(OwnNotes(s))
    BY DEF MInit
  <2>3. ASSUME NEW s \in Runs PROVE RetrievedOK(s)
    <3>1. retrieved[s] = {} /\ memory[s] \in Seq(Notes)
      BY <2>2 DEF MInit
    <3>2. Cardinality(retrieved[s] \ Known(s)) = 0
      BY <3>1, FS_EmptySet
    <3>3. 0 + Cardinality(Known(s)) <= Room(s)
      BY <3>1, RoomForOwn DEF Known, Places, Room
    <3> QED
      BY <3>1, <3>2, <3>3 DEF RetrievedOK
  <2> QED
    BY <2>1, <2>2, <2>3 DEF MInit, MInv
<1>2. MInv => ForeignNotesFillUp
  <2> SUFFICES ASSUME MInv, NEW s \in Runs
               PROVE  /\ \A x \in retrieved[s] \cup ToSet(memory[s]) :
                           x.kind = "fact" => x.of = Kind(s)
                      /\ Cardinality(retrieved[s] \ Known(s)) + Cardinality(Known(s)) <= Room(s)
    BY DEF ForeignNotesFillUp, Kind, Room, Known, Places
  <2>1. RetrievedOK(s) /\ memory[s] \in Seq(OwnNotes(s))
    BY DEF MInv
  <2>2. ToSet(memory[s]) \subseteq OwnNotes(s)
    BY <2>1, ListedAreFinite
  <2> QED
    BY <2>1, <2>2 DEF RetrievedOK, OwnNotes
<1> QED
  BY <1>1, <1>2, MemoryStep, PTL DEF MSpec

-----------------------------------------------------------------------------
(* The merge of outputs.                                                   *)

Listing == ToSet(list)

Cyclic == \E t \in Listing : WaitsFor(t, t)

Frame == [task : Listing, dep : Nat \ {0}]

\* A visit under way: its task is to be sorted, and of what the task depends on
\* the visits before the next one are over, but for the one above it.
FrameOK(p, i) ==
    LET needs == Needs[p[i].task]
        next  == p[i].dep
    IN  /\ ToVisit(p[i].task) /\ next <= Len(needs) + 1
        /\ i = Len(p) => \A d \in 1 .. next - 1 : ~ToVisit(needs[d])
        /\ i < Len(p) => /\ next > 1 /\ p[i + 1].task = needs[next - 1]
                         /\ \A d \in 1 .. next - 2 : ~ToVisit(needs[d])

PathOK(p) == p \in Seq(Frame) /\ \A i \in 1 .. Len(p) : FrameOK(p, i)

InputInv ==
    /\ list \in Listed /\ outcomes \in [Listing -> Result] /\ Scheduled(list, outcomes)
    /\ position \in 0 .. Len(list) /\ walk \in {"sorting", "overflow", "merged"}

\* What was sorted comes after all it depends on, once.
SortedInv ==
    /\ sorted \in Seq(Listing)
    /\ \A i, j \in 1 .. Len(sorted) : sorted[i] = sorted[j] => i = j
    /\ \A i \in 1 .. Len(sorted) : \A u \in DependsOn(sorted[i]) \cap Listing :
         \E j \in 1 .. i - 1 : sorted[j] = u

\* What the loop has visited was sorted, but for what it visits.
LoopInv == \A i \in 1 .. position : ToVisit(list[i]) => path # <<>> /\ path[1].task = list[i]

\* The walk is over: there was a cycle, or everything was put in order and merged.
EndOfWalk ==
    /\ walk = "overflow" => Cyclic
    /\ walk = "merged" =>
         /\ path = <<>> /\ position = Len(list)
         /\ merge = [sources |-> Sources, valid |-> Valid,
                     output |-> FirstOfEach([i \in DOMAIN Sources |-> outcomes[Sources[i]].output])]

SortInv == InputInv /\ PathOK(path) /\ SortedInv /\ EndOfWalk /\ (walk # "overflow" => LoopInv)

LEMMA ListKnown ==
    ASSUME list \in Listed
    PROVE  /\ list \in Seq(DOMAIN Needs) /\ Len(list) \in Nat /\ DOMAIN list = 1 .. Len(list)
           /\ \A i, j \in 1 .. Len(list) : list[i] = list[j] => i = j
           /\ Len(list) <= MaxDepth /\ MaxDepth \in Nat
           /\ IsFiniteSet(Listing) /\ Listing \subseteq DOMAIN Needs /\ Cardinality(Listing) <= Len(list)
<1>1. list \in Seq(DOMAIN Needs)
  BY MergeAssumption
<1>2. Len(list) \in Nat /\ DOMAIN list = 1 .. Len(list)
  BY <1>1
<1>3. Len(list) <= MaxDepth /\ MaxDepth \in Nat /\ \A i, j \in DOMAIN list : list[i] = list[j] => i = j
  BY MergeAssumption
<1>4. IsFiniteSet(1 .. Len(list)) /\ Cardinality(1 .. Len(list)) = Len(list)
  <2>1. \A n \in Nat : IsFiniteSet(1 .. n) /\ Cardinality(1 .. n) = n
    BY FS_Interval
  <2> QED
    BY <1>2, <2>1
<1>5. list \in Surjection(1 .. Len(list), Listing)
  BY <1>1, <1>2 DEF Surjection, Listing, ToSet
<1>6. IsFiniteSet(Listing) /\ Cardinality(Listing) <= Cardinality(1 .. Len(list))
  BY <1>4, <1>5, FS_Surjection
<1>7. Listing \subseteq DOMAIN Needs
  BY <1>1 DEF Listing, ToSet
<1> QED
  BY <1>1, <1>2, <1>3, <1>4, <1>6, <1>7

LEMMA NeedsKnown ==
    ASSUME NEW t \in DOMAIN Needs
    PROVE  /\ Len(Needs[t]) \in Nat /\ DOMAIN Needs[t] = 1 .. Len(Needs[t])
           /\ DependsOn(t) = {Needs[t][d] : d \in 1 .. Len(Needs[t])}
<1>1. Needs[t] \in Seq(ToSet(Needs[t]))
  BY MergeAssumption
<1> QED
  BY <1>1 DEF DependsOn, ToSet

\* Some places have a first one.
LEMMA FirstOfSome ==
    ASSUME NEW S \in SUBSET Nat, S # {}
    PROVE  \E i \in S : \A j \in S : i <= j
<1>1. PICK i \in S : \A j \in S : ~(<<j, i>> \in OpToRel(<, Nat))
  BY NatLessThanWellFounded, WFMin
<1>2. \A j \in S : ~(j < i)
  BY <1>1 DEF OpToRel
<1> QED
  BY <1>2

\* A chain of tasks of the list, each waiting for the next, that is longer than the
\* list comes back to a task.
LEMMA LongChainsCycle ==
    ASSUME list \in Listed, NEW m \in Nat, m > Len(list), NEW p \in [1 .. m -> Listing],
           \A i \in 1 .. m - 1 : p[i + 1] \in DependsOn(p[i])
    PROVE  Cyclic
<1>1. IsFiniteSet(Listing) /\ Cardinality(Listing) <= Len(list) /\ Len(list) \in Nat
  BY ListKnown
<1>2. IsFiniteSet(1 .. m) /\ Cardinality(1 .. m) = m
  BY FS_Interval
<1>3. Cardinality(Listing) \in Nat
  BY <1>1, FS_CardinalityType
<1>4. Cardinality(Listing) < Cardinality(1 .. m)
  BY <1>1, <1>2, <1>3
<1>5. \E x, y \in 1 .. m : x # y /\ p[x] = p[y]
  BY <1>1, <1>2, <1>4, FS_PigeonHole
<1>6. PICK x \in 1 .. m, y \in 1 .. m : x < y /\ p[x] = p[y]
  BY <1>5
<1>7. WaitsFor(p[x], p[x])
  <2> SUFFICES ASSUME NEW S \in SUBSET Listing,
                      \A z \in S \cup {p[x]} : DependsOn(z) \cap Listing \subseteq S
               PROVE  p[x] \in S
    BY DEF WaitsFor, Listing
  <2> DEFINE out == {k \in x + 1 .. y : p[k] \notin S}
  <2>1. out = {}
    <3> SUFFICES ASSUME out # {} PROVE FALSE
      OBVIOUS
    <3>1. out \in SUBSET Nat
      OBVIOUS
    <3>2. PICK k \in out : \A j \in out : k <= j
      <4> HIDE DEF out
      <4> QED
        BY <3>1, FirstOfSome
    <3>3. k \in x + 1 .. y /\ k - 1 \in 1 .. m - 1 /\ (k - 1) + 1 = k /\ p[k] \notin S
      OBVIOUS
    <3>4. p[k - 1] \in S \cup {p[x]}
      <4>1. k - 1 = x \/ (k - 1 \in x + 1 .. y /\ k - 1 \notin out)
        BY <3>2
      <4> QED
        BY <4>1
    <3>5. p[k] \in DependsOn(p[k - 1]) \cap Listing
      BY <3>3
    <3> QED
      BY <3>3, <3>4, <3>5
  <2> QED
    BY <1>6, <2>1
<1> QED
  BY <1>7 DEF Cyclic

\* Whatever a sorted task waits for was sorted before it.
LEMMA SortedAfterNeeds ==
    ASSUME SortedInv, NEW i \in 1 .. Len(sorted), NEW u, WaitsFor(sorted[i], u)
    PROVE  \E j \in 1 .. i - 1 : sorted[j] = u
<1> DEFINE S == {sorted[j] : j \in 1 .. i - 1}
<1>1. S \in SUBSET Listing
  BY DEF SortedInv
<1>2. ASSUME NEW x \in S \cup {sorted[i]}, NEW v \in DependsOn(x) \cap Listing PROVE v \in S
  <2>1. PICK k \in 1 .. i : sorted[k] = x
    OBVIOUS
  <2>2. k \in 1 .. Len(sorted)
    OBVIOUS
  <2>3. PICK j \in 1 .. k - 1 : sorted[j] = v
    BY <1>2, <2>1, <2>2 DEF SortedInv
  <2> QED
    BY <2>3
<1>3. u \in S
  BY <1>1, <1>2 DEF WaitsFor, Listing
<1> QED
  BY <1>3

\* While nothing is sorted a path is as good as it was.
LEMMA PathsKeep ==
    ASSUME UNCHANGED <<list, sorted>>, NEW q, PathOK(q), path' = q
    PROVE  PathOK(path)'
<1>1. \A u : ToVisit(u)' <=> ToVisit(u)
  BY DEF ToVisit
<1>2. q \in Seq(Frame) /\ Frame' = Frame
  BY DEF PathOK, Frame, Listing
<1>3. ASSUME NEW i \in 1 .. Len(q) PROVE FrameOK(path, i)'
  <2>1. FrameOK(q, i)
    BY DEF PathOK
  <2> QED
    BY <1>1, <2>1 DEF FrameOK, ToVisit
<1> QED
  BY <1>2, <1>3 DEF PathOK

LEMMA VisitNextOK ==
    ASSUME SortInv, VisitNext
    PROVE  SortInv'
<1> DEFINE t == list[position + 1]
           new == [task |-> t, dep |-> 1]
<1>1. /\ walk = "sorting" /\ path = <<>> /\ position < Len(list) /\ position' = position + 1
      /\ UNCHANGED <<list, outcomes, sorted, merge>>
  BY DEF VisitNext
<1>2. /\ list \in Listed /\ Len(list) \in Nat /\ position \in 0 .. Len(list) /\ Len(list) <= MaxDepth
      /\ MaxDepth \in Nat /\ position' \in 0 .. Len(list)
  BY <1>1, ListKnown DEF SortInv, InputInv
<1>3. \A u : ToVisit(u)' <=> ToVisit(u)
  BY <1>1 DEF ToVisit
<1>4. \/ ~ToVisit(t) /\ path' = path /\ walk' = walk
      \/ ToVisit(t) /\ path' = <<new>> /\ walk' = walk
  <2>1. Append(path, new) = <<new>> /\ Len(path) < MaxDepth
    BY <1>1, <1>2
  <2>2. IF ToVisit(t) THEN Call(path, t) ELSE UNCHANGED <<path, walk>>
    BY DEF VisitNext
  <2>3. CASE ToVisit(t)
    <3>1. Call(path, t)
      BY <2>2, <2>3
    <3> QED
      BY <2>1, <2>3, <3>1 DEF Call
  <2>4. CASE ~ToVisit(t)
    BY <2>2, <2>4
  <2> QED
    BY <2>3, <2>4
<1>5. InputInv' /\ SortedInv' /\ EndOfWalk'
  <2>1. InputInv'
    BY <1>1, <1>2, <1>4 DEF SortInv, InputInv, Listing
  <2>2. SortedInv'
    BY <1>1 DEF SortInv, SortedInv, Listing
  <2>3. walk' = "sorting"
    BY <1>1, <1>4
  <2> QED
    BY <2>1, <2>2, <2>3 DEF EndOfWalk
<1>6. \A i \in 1 .. position : ~ToVisit(list[i])
  BY <1>1 DEF SortInv, LoopInv
<1>7. CASE ~ToVisit(t) /\ path' = path /\ walk' = walk
  <2>1. PathOK(path)'
    BY <1>1, <1>7, PathsKeep DEF SortInv
  <2>2. ASSUME NEW i \in 1 .. position', ToVisit(list'[i]) PROVE FALSE
    <3>1. CASE i = position + 1
      BY <1>1, <1>7, <2>2, <3>1
    <3>2. CASE i \in 1 .. position
      BY <1>1, <1>6, <2>2, <3>2
    <3> QED
      BY <1>1, <1>2, <3>1, <3>2
  <2>3. LoopInv'
    BY <1>1, <1>3, <2>2 DEF LoopInv, ToVisit
  <2> QED
    BY <1>5, <2>1, <2>3 DEF SortInv
<1>8. CASE ToVisit(t) /\ path' = <<new>> /\ walk' = walk
  <2> DEFINE q == <<new>>
  <2>1. Len(q) = 1 /\ q[1] = new /\ q # <<>>
    OBVIOUS
  <2>2. new.task = t /\ new.dep = 1 /\ t \in Listing /\ new \in Frame
    BY <1>8 DEF ToVisit, Listing, Frame
  <2>3. t \in DOMAIN Needs /\ Len(Needs[t]) \in Nat
    BY <1>2, <2>2, ListKnown, NeedsKnown
  <2>4. q \in Seq(Frame)
    BY <2>2
  <2> HIDE DEF new, q
  <2>5. FrameOK(q, 1)
    BY <1>8, <2>1, <2>2, <2>3 DEF FrameOK
  <2>6. PathOK(path)'
    <3>1. PathOK(q)
      BY <2>1, <2>4, <2>5 DEF PathOK
    <3> QED
      BY <1>1, <1>8, <3>1, PathsKeep DEF q
  <2>7. ASSUME NEW i \in 1 .. position', ToVisit(list[i])' PROVE path' # <<>> /\ path'[1].task = list'[i]
    <3>1. i = position + 1
      <4>1. i \notin 1 .. position
        BY <1>1, <1>6, <2>7 DEF ToVisit
      <4> QED
        BY <1>1, <1>2, <4>1
    <3> QED
      BY <1>1, <1>8, <2>1, <2>2, <3>1 DEF q
  <2>8. LoopInv'
    BY <2>7 DEF LoopInv
  <2> QED
    BY <1>5, <2>6, <2>8 DEF SortInv
<1> QED
  BY <1>4, <1>7, <1>8

LEMMA VisitDependencyOK ==
    ASSUME SortInv, VisitDependency
    PROVE  SortInv'
<1> DEFINE n      == Len(path)
           top    == path[n]
           needs  == Needs[top.task]
           need   == needs[top.dep]
           frames == [path EXCEPT ![n].dep = @ + 1]
           new    == [task |-> need, dep |-> 1]
<1>1. /\ walk = "sorting" /\ path # <<>> /\ top.dep <= Len(needs)
      /\ UNCHANGED <<list, outcomes, position, sorted, merge>>
      /\ IF ToVisit(need) THEN Call(frames, need) ELSE path' = frames /\ UNCHANGED walk
  BY DEF VisitDependency, Top
<1>2. list \in Listed /\ Len(list) \in Nat /\ Len(list) <= MaxDepth /\ MaxDepth \in Nat
  BY ListKnown DEF SortInv, InputInv
<1>3. path \in Seq(Frame) /\ n \in Nat \ {0} /\ \A i \in 1 .. n : path[i] \in Frame /\ FrameOK(path, i)
  BY <1>1 DEF SortInv, PathOK
<1>4. /\ top.task \in Listing /\ top.task \in DOMAIN Needs /\ top.dep \in Nat \ {0}
      /\ Len(needs) \in Nat /\ need \in DependsOn(top.task)
  <2>1. top.task \in Listing /\ top.dep \in Nat \ {0}
    BY <1>3 DEF Frame
  <2>2. top.task \in DOMAIN Needs
    BY <1>2, <2>1, ListKnown
  <2>3. Len(needs) \in Nat /\ DependsOn(top.task) = {needs[d] : d \in 1 .. Len(needs)}
    BY <2>2, NeedsKnown
  <2> QED
    BY <1>1, <2>1, <2>2, <2>3
<1>5. /\ frames \in Seq(Frame) /\ Len(frames) = n
      /\ \A i \in 1 .. n : frames[i].task = path[i].task
      /\ \A i \in 1 .. n : i # n => frames[i] = path[i]
      /\ frames[n].dep = top.dep + 1
  <2> DEFINE e == [top EXCEPT !.dep = @ + 1]
  <2>1. e \in Frame /\ e.task = top.task /\ e.dep = top.dep + 1
    BY <1>3, <1>4 DEF Frame
  <2>2. frames = [path EXCEPT ![n] = e]
    OBVIOUS
  <2> HIDE DEF e, frames
  <2>3. /\ frames \in Seq(Frame) /\ Len(frames) = n
        /\ \A i \in 1 .. n : frames[i] = IF i = n THEN e ELSE path[i]
    BY <1>3, <2>1, <2>2, ExceptSeq
  <2> QED
    BY <1>3, <2>1, <2>3
<1>6. \A u : ToVisit(u)' <=> ToVisit(u)
  BY <1>1 DEF ToVisit
<1> HIDE DEF frames
<1>7. ASSUME NEW i \in 1 .. n - 1
      PROVE  /\ ToVisit(path[i].task) /\ path[i].dep <= Len(Needs[path[i].task]) + 1 /\ path[i].dep > 1
             /\ path[i + 1].task = Needs[path[i].task][path[i].dep - 1]
             /\ \A d \in 1 .. path[i].dep - 2 : ~ToVisit(Needs[path[i].task][d])
  <2>1. i \in 1 .. n /\ i < n
    BY <1>3
  <2> QED
    BY <1>3, <2>1 DEF FrameOK
<1>8. ToVisit(top.task) /\ \A d \in 1 .. top.dep - 1 : ~ToVisit(needs[d])
  BY <1>3 DEF FrameOK
<1>9. SortedInv' /\ (walk' \in {"sorting", "overflow"} => InputInv')
  BY <1>1 DEF SortInv, SortedInv, InputInv, Listing
<1>10. CASE ToVisit(need) /\ path' = Append(frames, new) /\ walk' = walk
  <2> DEFINE q == Append(frames, new)
  <2>1. /\ need \in Listing /\ new \in Frame /\ need \in DOMAIN Needs
        /\ new.task = need /\ new.dep = 1
    BY <1>2, <1>10, ListKnown DEF ToVisit, Listing, Frame
  <2>2. Len(Needs[need]) \in Nat
    BY <2>1, NeedsKnown
  <2> HIDE DEF new
  <2>3. /\ q \in Seq(Frame) /\ Len(q) = n + 1 /\ q[n + 1] = new
        /\ \A i \in 1 .. n : q[i] = frames[i]
    BY <1>5, <2>1, AppendProperties
  <2> HIDE DEF q
  <2>4. ASSUME NEW i \in 1 .. n + 1 PROVE FrameOK(q, i)
    <3>1. CASE i = n + 1
      BY <1>3, <1>10, <2>1, <2>2, <2>3, <3>1 DEF FrameOK
    <3>2. CASE i = n
      <4>1. q[n].task = top.task /\ q[n].dep = top.dep + 1 /\ q[n + 1].task = need
        BY <1>3, <1>5, <2>1, <2>3
      <4>2. (top.dep + 1) - 2 = top.dep - 1 /\ (top.dep + 1) - 1 = top.dep /\ top.dep + 1 > 1
            /\ top.dep + 1 <= Len(needs) + 1 /\ i < Len(q)
        BY <1>1, <1>3, <1>4, <2>3, <3>2
      <4> QED
        BY <1>8, <3>2, <4>1, <4>2 DEF FrameOK
    <3>3. CASE i \in 1 .. n - 1
      <4>1. q[i] = path[i] /\ q[i + 1].task = path[i + 1].task /\ i < Len(q)
        BY <1>3, <1>5, <2>3, <3>3
      <4> QED
        BY <1>7, <3>3, <4>1 DEF FrameOK
    <3> QED
      BY <1>3, <3>1, <3>2, <3>3
  <2>5. PathOK(path)'
    <3>1. PathOK(q)
      BY <2>3, <2>4 DEF PathOK
    <3> QED
      BY <1>1, <1>10, <3>1, PathsKeep DEF q
  <2>6. LoopInv'
    <3>1. path' # <<>> /\ path'[1].task = path[1].task
      <4>1. path' = q /\ q[1].task = path[1].task /\ Len(q) # 0
        BY <1>3, <1>5, <1>10, <2>3 DEF q
      <4> QED
        BY <4>1
    <3> QED
      BY <1>1, <1>6, <3>1 DEF SortInv, LoopInv, ToVisit
  <2> QED
    BY <1>1, <1>9, <1>10, <2>5, <2>6 DEF SortInv, EndOfWalk
<1>11. CASE ~ToVisit(need) /\ path' = frames /\ walk' = walk
  <2>1. ASSUME NEW i \in 1 .. n PROVE FrameOK(frames, i)
    <3>1. CASE i = n
      <4>1. (top.dep + 1) - 1 = top.dep /\ top.dep + 1 <= Len(needs) + 1 /\ ~(i < Len(frames))
        BY <1>1, <1>3, <1>4, <1>5, <3>1
      <4>2. \A d \in 1 .. top.dep : ~ToVisit(needs[d])
        <5>1. \A d \in 1 .. top.dep : d = top.dep \/ d \in 1 .. top.dep - 1
          BY <1>4
        <5> QED
          BY <1>8, <1>11, <5>1
      <4> QED
        BY <1>5, <1>8, <3>1, <4>1, <4>2 DEF FrameOK
    <3>2. CASE i \in 1 .. n - 1
      <4>1. frames[i] = path[i] /\ frames[i + 1].task = path[i + 1].task /\ i < Len(frames)
        BY <1>3, <1>5, <3>2
      <4> QED
        BY <1>7, <3>2, <4>1 DEF FrameOK
    <3> QED
      BY <1>3, <3>1, <3>2
  <2>2. PathOK(path)'
    <3>1. PathOK(frames)
      BY <1>5, <2>1 DEF PathOK
    <3> QED
      BY <1>1, <1>11, <3>1, PathsKeep
  <2>3. LoopInv'
    <3>1. path' # <<>> /\ path'[1].task = path[1].task
      <4>1. path' = frames /\ frames[1].task = path[1].task /\ Len(frames) # 0
        BY <1>3, <1>5, <1>11
      <4> QED
        BY <4>1
    <3> QED
      BY <1>1, <1>6, <3>1 DEF SortInv, LoopInv, ToVisit
  <2> QED
    BY <1>1, <1>9, <1>11, <2>2, <2>3 DEF SortInv, EndOfWalk
<1>12. CASE ToVisit(need) /\ ~(n < MaxDepth) /\ walk' = "overflow" /\ path' = path
  <2> DEFINE p == [i \in 1 .. n + 1 |-> IF i = n + 1 THEN need ELSE path[i].task]
  <2>1. p \in [1 .. n + 1 -> Listing]
    BY <1>3, <1>12 DEF ToVisit, Listing, Frame
  <2>2. ASSUME NEW i \in 1 .. n PROVE p[i + 1] \in DependsOn(p[i])
    <3>1. CASE i = n
      BY <1>3, <1>4, <3>1
    <3>2. CASE i # n
      <4>1. p[i] = path[i].task /\ p[i + 1] = path[i + 1].task /\ i \in 1 .. n - 1
        BY <1>3, <3>2
      <4>2. path[i].task \in Listing /\ path[i].dep \in Nat \ {0}
        BY <1>3 DEF Frame
      <4>3. path[i].task \in DOMAIN Needs
        BY <1>2, <4>2, ListKnown
      <4>4. /\ Len(Needs[path[i].task]) \in Nat
            /\ DependsOn(path[i].task) = {Needs[path[i].task][d] : d \in 1 .. Len(Needs[path[i].task])}
        BY <4>3, NeedsKnown
      <4>5. path[i].dep - 1 \in 1 .. Len(Needs[path[i].task])
            /\ path[i + 1].task = Needs[path[i].task][path[i].dep - 1]
        BY <1>7, <4>1, <4>2, <4>4
      <4> HIDE DEF p
      <4> QED
        BY <4>1, <4>4, <4>5
    <3> QED
      BY <3>1, <3>2
  <2> HIDE DEF p
  <2>3. Cyclic
    <3>1. n + 1 \in Nat /\ n + 1 > Len(list) /\ (n + 1) - 1 = n
      BY <1>2, <1>3, <1>12
    <3> QED
      BY <1>2, <2>1, <2>2, <3>1, LongChainsCycle
  <2>4. PathOK(path)'
    BY <1>1, <1>12, PathsKeep DEF SortInv
  <2>5. EndOfWalk'
    BY <1>1, <1>12, <2>3 DEF EndOfWalk, Cyclic, WaitsFor, Listing
  <2> QED
    BY <1>9, <1>12, <2>4, <2>5 DEF SortInv
<1>13. \/ ToVisit(need) /\ path' = Append(frames, new) /\ walk' = walk
       \/ ~ToVisit(need) /\ path' = frames /\ walk' = walk
       \/ ToVisit(need) /\ ~(n < MaxDepth) /\ walk' = "overflow" /\ path' = path
  <2>1. CASE ToVisit(need)
    <3>1. Call(frames, need)
      BY <1>1, <2>1
    <3> QED
      BY <1>5, <2>1, <3>1 DEF Call
  <2>2. CASE ~ToVisit(need)
    BY <1>1, <2>2
  <2> QED
    BY <2>1, <2>2
<1> QED
  BY <1>10, <1>11, <1>12, <1>13

LEMMA SortOK ==
    ASSUME SortInv, Sort
    PROVE  SortInv'
<1>1. /\ walk = "sorting" /\ path # <<>> /\ Top.dep > Len(Needs[Top.task])
      /\ sorted' = Append(sorted, Top.task) /\ path' = Front(path)
      /\ UNCHANGED <<list, outcomes, position, walk, merge>>
  BY DEF Sort
<1>2. PICK n, t, q : n = Len(path) /\ t = Top.task /\ q = Front(path)
  OBVIOUS
<1>3. /\ path \in Seq(Frame) /\ n \in Nat \ {0} /\ path[n].task = t
      /\ \A i \in 1 .. n : path[i] \in Frame /\ FrameOK(path, i)
  BY <1>1, <1>2 DEF SortInv, PathOK, Top
<1>4. list \in Listed
  BY DEF SortInv, InputInv
<1>5. t \in Listing /\ ToVisit(t) /\ t \in DOMAIN Needs /\ path[n].dep \in Nat \ {0}
  BY <1>3, <1>4, ListKnown DEF FrameOK, Frame
<1>6. Len(Needs[t]) \in Nat /\ DependsOn(t) = {Needs[t][d] : d \in 1 .. Len(Needs[t])}
  BY <1>5, NeedsKnown
<1>7. \A u \in DependsOn(t) : ~ToVisit(u)
  <2>1. path[n].dep = Len(Needs[t]) + 1
    BY <1>1, <1>2, <1>3, <1>5, <1>6 DEF FrameOK, Top
  <2>2. \A d \in 1 .. path[n].dep - 1 : ~ToVisit(Needs[t][d])
    BY <1>2, <1>3 DEF FrameOK
  <2> QED
    BY <1>6, <2>1, <2>2
<1>8. q \in Seq(Frame) /\ Len(q) = n - 1 /\ \A i \in 1 .. n - 1 : q[i] = path[i]
  <2>1. q = SubSeq(path, 1, n - 1)
    BY <1>2 DEF Front
  <2> QED
    BY <1>2, <1>3, <2>1, SubSeqProperties
<1>9. \A u : ToVisit(u)' <=> ToVisit(u) /\ u # t
  <2>1. sorted \in Seq(Listing)
    BY DEF SortInv, SortedInv
  <2>2. sorted' \in Seq(Listing) /\ Len(sorted') = Len(sorted) + 1 /\ Len(sorted) \in Nat
        /\ (\A i \in 1 .. Len(sorted) : sorted'[i] = sorted[i]) /\ sorted'[Len(sorted) + 1] = t
    BY <1>1, <1>2, <1>5, <2>1, AppendProperties
  <2>3. ToSet(sorted') = {sorted'[i] : i \in 1 .. Len(sorted) + 1}
        /\ ToSet(sorted) = {sorted[i] : i \in 1 .. Len(sorted)}
    BY <2>1, <2>2 DEF ToSet
  <2>4. \A i : i \in 1 .. Len(sorted) + 1 <=> i \in 1 .. Len(sorted) \/ i = Len(sorted) + 1
    BY <2>2
  <2>5. ToSet(sorted') = ToSet(sorted) \cup {t}
    BY <2>2, <2>3, <2>4
  <2> QED
    BY <1>1, <2>5 DEF ToVisit
<1>10. SortedInv'
  <2>1. sorted \in Seq(Listing) /\ Len(sorted) \in Nat
    BY DEF SortInv, SortedInv
  <2>2. sorted' \in Seq(Listing) /\ Len(sorted') = Len(sorted) + 1
        /\ (\A i \in 1 .. Len(sorted) : sorted'[i] = sorted[i]) /\ sorted'[Len(sorted) + 1] = t
    BY <1>1, <1>2, <1>5, <2>1, AppendProperties
  <2>3. ToSet(sorted) = {sorted[i] : i \in 1 .. Len(sorted)}
    BY <2>1 DEF ToSet
  <2>4. \A i \in 1 .. Len(sorted) : sorted[i] # t
    BY <1>5, <2>3 DEF ToVisit
  <2>5. \A u \in DependsOn(t) \cap Listing : \E j \in 1 .. Len(sorted) : sorted[j] = u
    BY <1>7, <2>3 DEF ToVisit, Listing
  <2>6. /\ \A i, j \in 1 .. Len(sorted) : sorted[i] = sorted[j] => i = j
        /\ \A i \in 1 .. Len(sorted) : \A u \in DependsOn(sorted[i]) \cap Listing :
             \E j \in 1 .. i - 1 : sorted[j] = u
    BY DEF SortInv, SortedInv
  <2>7. \A i, j \in 1 .. Len(sorted) + 1 : sorted'[i] = sorted'[j] => i = j
    BY <2>1, <2>2, <2>4, <2>6
  <2>8. ASSUME NEW i \in 1 .. Len(sorted) + 1, NEW u \in DependsOn(sorted'[i]) \cap Listing
        PROVE  \E j \in 1 .. i - 1 : sorted'[j] = u
    <3>1. CASE i = Len(sorted) + 1
      <4>1. PICK j \in 1 .. Len(sorted) : sorted[j] = u
        BY <2>2, <2>5, <2>8, <3>1
      <4> QED
        BY <2>1, <2>2, <3>1, <4>1
    <3>2. CASE i \in 1 .. Len(sorted)
      <4>1. PICK j \in 1 .. i - 1 : sorted[j] = u
        BY <2>2, <2>6, <2>8, <3>2
      <4> QED
        BY <2>1, <2>2, <3>2, <4>1
    <3> QED
      BY <2>1, <3>1, <3>2
  <2>9. Listing' = Listing
    BY <1>1 DEF Listing
  <2> QED
    BY <2>2, <2>7, <2>8, <2>9 DEF SortedInv
<1>11. ASSUME NEW i \in 1 .. n - 1
       PROVE  /\ ToVisit(path[i].task) /\ path[i].dep <= Len(Needs[path[i].task]) + 1 /\ path[i].dep > 1
              /\ path[i + 1].task = Needs[path[i].task][path[i].dep - 1]
              /\ \A d \in 1 .. path[i].dep - 2 : ~ToVisit(Needs[path[i].task][d])
              /\ path[i].dep \in Nat /\ path[i].task # t
  <2>1. i \in 1 .. n /\ i < n /\ i + 1 \in 1 .. n
    BY <1>3
  <2>2. /\ ToVisit(path[i].task) /\ path[i].dep <= Len(Needs[path[i].task]) + 1 /\ path[i].dep > 1
        /\ path[i + 1].task = Needs[path[i].task][path[i].dep - 1]
        /\ \A d \in 1 .. path[i].dep - 2 : ~ToVisit(Needs[path[i].task][d])
    BY <1>2, <1>3, <2>1 DEF FrameOK
  <2>3. path[i].dep \in Nat /\ ToVisit(path[i + 1].task)
    BY <1>3, <2>1 DEF FrameOK, Frame
  <2>4. ASSUME path[i].task = t PROVE FALSE
    <3>1. path[i].dep - 1 \in 1 .. Len(Needs[t])
      BY <1>6, <2>2, <2>3, <2>4
    <3> QED
      BY <1>6, <1>7, <2>2, <2>3, <2>4, <3>1
  <2> QED
    BY <2>2, <2>3, <2>4
<1>12. ASSUME NEW i \in 1 .. n - 1 PROVE FrameOK(path, i)'
  <2>1. q[i] = path[i] /\ Len(q) = n - 1 /\ path' = q
    BY <1>1, <1>2, <1>8
  <2>2. ToVisit(q[i].task)' /\ q[i].dep <= Len(Needs[q[i].task]) + 1
        /\ \A d \in 1 .. q[i].dep - 2 : ~ToVisit(Needs[q[i].task][d])'
    BY <1>9, <1>11, <2>1
  <2>3. CASE i = n - 1
    <3>1. \A d \in 1 .. q[i].dep - 1 : ~ToVisit(Needs[q[i].task][d])'
      <4>1. \A d \in 1 .. q[i].dep - 1 : d = q[i].dep - 1 \/ d \in 1 .. q[i].dep - 2
        BY <1>11, <2>1
      <4>2. Needs[q[i].task][q[i].dep - 1] = t
        BY <1>3, <1>11, <2>1, <2>3
      <4> QED
        BY <1>9, <2>2, <4>1, <4>2
    <3>2. ~(i < Len(path'))
      BY <1>3, <2>1, <2>3
    <3> QED
      BY <2>1, <2>2, <3>1, <3>2 DEF FrameOK, ToVisit
  <2>4. CASE i # n - 1
    <3>1. i + 1 \in 1 .. n - 1 /\ q[i + 1] = path[i + 1] /\ i < n - 1
      BY <1>3, <1>8, <2>4
    <3> QED
      BY <1>11, <2>1, <2>2, <3>1 DEF FrameOK, ToVisit
  <2> QED
    BY <2>3, <2>4
<1>13. PathOK(path)'
  <2>1. Frame' = Frame /\ path' = q
    BY <1>1, <1>2 DEF Frame, Listing
  <2> QED
    BY <1>8, <1>12, <2>1 DEF PathOK
<1>14. LoopInv'
  <2> SUFFICES ASSUME NEW i \in 1 .. position', ToVisit(list[i])'
               PROVE  path' # <<>> /\ path'[1].task = list'[i]
    BY DEF LoopInv
  <2>1. PICK x : x = list[i]
    OBVIOUS
  <2>2. ToVisit(x) /\ x # t
    BY <1>1, <1>9, <2>1 DEF ToVisit
  <2>3. path[1].task = x
    BY <1>1, <2>1, <2>2 DEF SortInv, LoopInv
  <2>4. n # 1
    BY <1>3, <2>2, <2>3
  <2>5. path' = q /\ Len(q) # 0 /\ q[1] = path[1]
    BY <1>1, <1>2, <1>3, <1>8, <2>4
  <2> QED
    BY <1>1, <2>1, <2>3, <2>5
<1>15. InputInv' /\ walk' = "sorting"
  BY <1>1 DEF SortInv, InputInv, Listing
<1> QED
  BY <1>10, <1>13, <1>14, <1>15 DEF SortInv, EndOfWalk

\* The walk keeps its invariant.
LEMMA WalkStep == SortInv /\ [GNext]_gvars => SortInv'
<1> SUFFICES ASSUME SortInv, [GNext]_gvars PROVE SortInv'
  OBVIOUS
<1>1. CASE Merge
  <2>1. /\ UNCHANGED <<list, outcomes, position, path, sorted>> /\ walk' = "merged"
        /\ path = <<>> /\ position = Len(list) /\ walk = "sorting"
        /\ merge' = [sources |-> Sources, valid |-> Valid,
                     output |-> FirstOfEach([i \in DOMAIN Sources |-> outcomes[Sources[i]].output])]
    BY <1>1 DEF Merge
  <2>2. Sources' = Sources /\ Valid' = Valid
    BY <2>1 DEF Sources, Valid, Succeeded
  <2>3. EndOfWalk'
    BY <2>1, <2>2 DEF EndOfWalk
  <2>4. PathOK(path)'
    BY <2>1, PathsKeep DEF SortInv
  <2>5. InputInv' /\ SortedInv' /\ LoopInv'
    BY <2>1 DEF SortInv, InputInv, SortedInv, LoopInv, Listing, ToVisit
  <2> QED
    BY <2>3, <2>4, <2>5 DEF SortInv
<1>2. CASE UNCHANGED gvars
  <2>1. UNCHANGED <<list, outcomes, position, path, sorted, walk, merge>>
    BY <1>2 DEF gvars
  <2>2. Sources' = Sources /\ Valid' = Valid
    BY <2>1 DEF Sources, Valid, Succeeded
  <2>3. EndOfWalk'
    BY <2>1, <2>2 DEF SortInv, EndOfWalk, Cyclic, WaitsFor, Listing
  <2>4. PathOK(path)'
    BY <2>1, PathsKeep DEF SortInv
  <2>5. InputInv' /\ SortedInv' /\ (LoopInv => LoopInv')
    BY <2>1 DEF SortInv, InputInv, SortedInv, LoopInv, Listing, ToVisit
  <2> QED
    BY <2>1, <2>3, <2>4, <2>5 DEF SortInv
<1>3. CASE Returned
  BY <1>2, <1>3 DEF Returned
<1> QED
  BY <1>1, <1>2, <1>3, VisitNextOK, VisitDependencyOK, SortOK DEF GNext

LEMMA WalkStart == GInit => SortInv
<1> SUFFICES ASSUME GInit PROVE SortInv
  OBVIOUS
<1>1. PICK l \in Listed : \E r \in [ToSet(l) -> Result] : Scheduled(l, r) /\ SomeRun(l, r) /\ Start(l, r)
  BY DEF GInit
<1>2. PICK r \in [ToSet(l) -> Result] : Scheduled(l, r) /\ Start(l, r)
  BY <1>1
<1>3. /\ list = l /\ outcomes = r /\ position = 0 /\ path = <<>> /\ sorted = <<>> /\ walk = "sorting"
  BY <1>2 DEF Start
<1>4. Len(list) \in Nat
  BY <1>3, ListKnown
<1>5. InputInv
  BY <1>2, <1>3, <1>4 DEF InputInv, Listing
<1>6. PathOK(path) /\ SortedInv /\ LoopInv /\ EndOfWalk
  BY <1>3 DEF PathOK, SortedInv, LoopInv, EndOfWalk
<1> QED
  BY <1>5, <1>6 DEF SortInv

\* Induction up to a number, on the set of those a fact holds of.
LEMMA UpTo ==
    ASSUME NEW n \in Nat, NEW T \in SUBSET (0 .. n), 0 \in T, \A i \in 1 .. n : i - 1 \in T => i \in T
    PROVE  T = 0 .. n
<1> DEFINE bad == {k \in 0 .. n : k \notin T}
<1>1. bad = {}
  <2> SUFFICES ASSUME bad # {} PROVE FALSE
    OBVIOUS
  <2>1. bad \in SUBSET Nat
    OBVIOUS
  <2>2. PICK k \in bad : \A j \in bad : k <= j
    <3> HIDE DEF bad
    <3> QED
      BY <2>1, FirstOfSome
  <2>3. k \in 1 .. n /\ k \notin T
    OBVIOUS
  <2>4. k - 1 \in T
    BY <2>2, <2>3
  <2> QED
    BY <2>3, <2>4
<1> QED
  BY <1>1

\* n steps, and what they give, from x, when each is made from what the one before
\* has given.
Steps(n, X) == [1 .. n -> [X -> X]]

Made(n, X, x, f) == {g \in [0 .. n -> X] : g[0] = x /\ \A i \in 1 .. n : g[i] = f[i][g[i - 1]]}

\* Steps can be made in turn.
LEMMA Iterates ==
    ASSUME NEW n \in Nat, NEW X, NEW x \in X, NEW f \in Steps(n, X)
    PROVE  Made(n, X, x, f) # {}
<1> DEFINE Upto(k) == \E g \in [0 .. k -> X] : g[0] = x /\ \A i \in 1 .. k : g[i] = f[i][g[i - 1]]
           T == {k \in 0 .. n : Upto(k)}
<1>1. 0 \in T
  <2> DEFINE g == [i \in 0 .. 0 |-> x]
  <2>1. g \in [0 .. 0 -> X] /\ g[0] = x /\ \A i \in 1 .. 0 : FALSE
    OBVIOUS
  <2>2. Upto(0)
    <3> HIDE DEF g
    <3> QED
      BY <2>1
  <2> QED
    BY <2>2
<1>2. ASSUME NEW k \in 1 .. n, k - 1 \in T PROVE k \in T
  <2>1. PICK g \in [0 .. k - 1 -> X] : g[0] = x /\ \A i \in 1 .. k - 1 : g[i] = f[i][g[i - 1]]
    BY <1>2
  <2>2. PICK e : e = f[k][g[k - 1]]
    OBVIOUS
  <2> DEFINE h == [i \in 0 .. k |-> IF i = k THEN e ELSE g[i]]
  <2>3. e \in X
    <3>1. g[k - 1] \in X
      BY <2>1
    <3>2. f[k] \in [X -> X]
      BY DEF Steps
    <3> QED
      BY <2>2, <3>1, <3>2
  <2>4. \A i \in 0 .. k : i = k \/ i \in 0 .. k - 1
    OBVIOUS
  <2>5. h \in [0 .. k -> X]
    BY <2>1, <2>3, <2>4
  <2>6. /\ h[0] = g[0] /\ h[k] = e /\ h[k - 1] = g[k - 1]
        /\ \A i \in 1 .. k - 1 : h[i] = g[i] /\ h[i - 1] = g[i - 1]
    OBVIOUS
  <2> HIDE DEF h
  <2>7. ASSUME NEW i \in 1 .. k PROVE h[i] = f[i][h[i - 1]]
    <3>1. CASE i = k
      BY <2>2, <2>6, <3>1
    <3>2. CASE i # k
      <4>1. i \in 1 .. k - 1
        BY <3>2
      <4> QED
        BY <2>1, <2>6, <4>1
    <3> QED
      BY <3>1, <3>2
  <2>8. Upto(k)
    BY <2>1, <2>5, <2>6, <2>7
  <2> HIDE DEF Upto
  <2> QED
    BY <2>8
<1>3. T = 0 .. n
  <2> HIDE DEF T
  <2>1. T \in SUBSET (0 .. n)
    BY DEF T
  <2> QED
    BY <1>1, <1>2, <2>1, UpTo
<1>4. Upto(n)
  <2>1. n \in T
    <3> HIDE DEF T
    <3> QED
      BY <1>3
  <2> HIDE DEF Upto
  <2> QED
    BY <2>1
<1> QED
  BY <1>4 DEF Made

\* x has, of the first n sorted, those that succeeded, in their order.
TakenOf(x, n) ==
    /\ x \in Seq(Listing)
    /\ \A k \in 1 .. n : Succeeded(sorted[k]) => \E i \in 1 .. Len(x) : x[i] = sorted[k]
    /\ \A i \in 1 .. Len(x) : \E k \in 1 .. n : x[i] = sorted[k] /\ Succeeded(sorted[k])
    /\ \A i, j \in 1 .. Len(x) : i < j => \E k, l \in 1 .. n : k < l /\ x[i] = sorted[k] /\ x[j] = sorted[l]

LEMMA SourcesTaken ==
    ASSUME sorted \in Seq(Listing)
    PROVE  TakenOf(Sources, Len(sorted))
<1> DEFINE n == Len(sorted)
           X == Seq(Listing)
           f == [i \in 1 .. n |-> [x \in X |-> IF Succeeded(sorted[i]) THEN Append(x, sorted[i]) ELSE x]]
           Def(g) == [i \in 0 .. n |-> IF i = 0 THEN <<>>
                        ELSE IF Succeeded(sorted[i]) THEN Append(g[i - 1], sorted[i]) ELSE g[i - 1]]
           taken == CHOOSE g : g = Def(g)
<1>1. n \in Nat /\ \A i \in 1 .. n : sorted[i] \in Listing
  OBVIOUS
<1>2. Sources = taken[n]
  BY DEF Sources
<1>3. \E g : g = Def(g)
  <2>1. <<>> \in X /\ f \in Steps(n, X)
    <3>1. ASSUME NEW i \in 1 .. n, NEW x \in X PROVE Append(x, sorted[i]) \in X
      BY <1>1, AppendProperties
    <3> QED
      BY <3>1 DEF Steps
  <2>2. PICK g \in [0 .. n -> X] : g[0] = <<>> /\ \A i \in 1 .. n : g[i] = f[i][g[i - 1]]
    <3> HIDE DEF f, n, X
    <3>1. Made(n, X, <<>>, f) # {}
      BY <1>1, <2>1, Iterates
    <3> QED
      BY <3>1 DEF Made
  <2>3. ASSUME NEW i \in 1 .. n
        PROVE  g[i] = IF Succeeded(sorted[i]) THEN Append(g[i - 1], sorted[i]) ELSE g[i - 1]
    <3>1. g[i - 1] \in X /\ g[i] = f[i][g[i - 1]]
      <4> HIDE DEF f, X, n
      <4>1. i - 1 \in 0 .. n
        BY <1>1
      <4> QED
        BY <2>2, <4>1
    <3>2. f[i] = [x \in X |-> IF Succeeded(sorted[i]) THEN Append(x, sorted[i]) ELSE x]
      OBVIOUS
    <3> HIDE DEF f, X
    <3> QED
      BY <3>1, <3>2
  <2>4. g = Def(g)
    <3>1. \A i \in 0 .. n : i = 0 \/ i \in 1 .. n
      BY <1>1
    <3>2. \A i \in 0 .. n : g[i] = Def(g)[i]
      BY <2>2, <2>3, <3>1
    <3>3. DOMAIN g = 0 .. n /\ g = [i \in DOMAIN g |-> g[i]]
      BY <2>2
    <3> QED
      BY <3>2, <3>3
  <2> QED
    BY <2>4
<1>4. taken = Def(taken)
  <2> HIDE DEF Def
  <2> QED
    BY <1>3
<1> HIDE DEF taken
<1>5. /\ taken[0] = <<>>
      /\ \A i \in 1 .. n : taken[i] = IF Succeeded(sorted[i]) THEN Append(taken[i - 1], sorted[i]) ELSE taken[i - 1]
  <2>1. \A i \in 0 .. n : taken[i] = Def(taken)[i]
    <3> HIDE DEF Def
    <3> QED
      BY <1>4
  <2>2. 0 \in 0 .. n /\ \A i \in 1 .. n : i \in 0 .. n /\ i # 0
    BY <1>1
  <2> HIDE DEF n
  <2> QED
    BY <2>1, <2>2
<1> DEFINE T == {i \in 0 .. n : TakenOf(taken[i], i)}
<1>6. 0 \in T
  <2>1. TakenOf(<<>>, 0)
    BY DEF TakenOf
  <2> HIDE DEF n
  <2> QED
    BY <1>1, <1>5, <2>1
<1>7. ASSUME NEW i \in 1 .. n, i - 1 \in T PROVE i \in T
  <2>1. PICK x, y : x = taken[i - 1] /\ y = taken[i]
    OBVIOUS
  <2>2. TakenOf(x, i - 1)
    BY <1>7, <2>1
  <2>3. \A k \in 1 .. i : k = i \/ k \in 1 .. i - 1
    OBVIOUS
  <2>4. CASE Succeeded(sorted[i])
    <3>1. y = Append(x, sorted[i])
      BY <1>5, <2>1, <2>4
    <3>2. /\ y \in Seq(Listing) /\ Len(y) = Len(x) + 1 /\ Len(x) \in Nat
          /\ y[Len(x) + 1] = sorted[i] /\ \A j \in 1 .. Len(x) : y[j] = x[j]
      BY <1>1, <2>2, <3>1, AppendProperties DEF TakenOf
    <3>3. \A j \in 1 .. Len(y) : j = Len(x) + 1 \/ j \in 1 .. Len(x)
      BY <3>2
    <3>4. ASSUME NEW k \in 1 .. i, Succeeded(sorted[k]) PROVE \E j \in 1 .. Len(y) : y[j] = sorted[k]
      <4>1. CASE k = i
        BY <3>2, <4>1
      <4>2. CASE k \in 1 .. i - 1
        BY <2>2, <3>2, <3>4, <4>2 DEF TakenOf
      <4> QED
        BY <2>3, <4>1, <4>2
    <3>5. ASSUME NEW j \in 1 .. Len(y) PROVE \E k \in 1 .. i : y[j] = sorted[k] /\ Succeeded(sorted[k])
      <4>1. CASE j = Len(x) + 1
        BY <2>4, <3>2, <4>1
      <4>2. CASE j \in 1 .. Len(x)
        <5>1. PICK k \in 1 .. i - 1 : x[j] = sorted[k] /\ Succeeded(sorted[k])
          BY <2>2, <4>2 DEF TakenOf
        <5> QED
          BY <3>2, <4>2, <5>1
      <4> QED
        BY <3>3, <4>1, <4>2
    <3>6. ASSUME NEW a \in 1 .. Len(y), NEW b \in 1 .. Len(y), a < b
          PROVE  \E k, l \in 1 .. i : k < l /\ y[a] = sorted[k] /\ y[b] = sorted[l]
      <4>1. a \in 1 .. Len(x)
        BY <3>2, <3>6
      <4>2. CASE b = Len(x) + 1
        <5>1. PICK k \in 1 .. i - 1 : x[a] = sorted[k]
          BY <2>2, <4>1 DEF TakenOf
        <5> QED
          BY <3>2, <4>1, <4>2, <5>1
      <4>3. CASE b \in 1 .. Len(x)
        <5>1. PICK k \in 1 .. i - 1, l \in 1 .. i - 1 : k < l /\ x[a] = sorted[k] /\ x[b] = sorted[l]
          BY <2>2, <3>6, <4>1, <4>3 DEF TakenOf
        <5> QED
          BY <3>2, <4>1, <4>3, <5>1
      <4> QED
        BY <3>3, <4>2, <4>3
    <3> QED
      BY <2>1, <3>2, <3>4, <3>5, <3>6 DEF TakenOf
  <2>5. CASE ~Succeeded(sorted[i])
    <3>1. y = x
      BY <1>5, <2>1, <2>5
    <3>2. \A k \in 1 .. i - 1 : k \in 1 .. i
      OBVIOUS
    <3>3. TakenOf(x, i)
      <4>1. \A k \in 1 .. i : Succeeded(sorted[k]) => k \in 1 .. i - 1
        BY <2>3, <2>5
      <4>2. \A k \in 1 .. i : Succeeded(sorted[k]) => \E j \in 1 .. Len(x) : x[j] = sorted[k]
        BY <2>2, <4>1 DEF TakenOf
      <4>3. \A j \in 1 .. Len(x) : \E k \in 1 .. i : x[j] = sorted[k] /\ Succeeded(sorted[k])
        BY <2>2, <3>2 DEF TakenOf
      <4>4. ASSUME NEW a \in 1 .. Len(x), NEW b \in 1 .. Len(x), a < b
            PROVE  \E k, l \in 1 .. i : k < l /\ x[a] = sorted[k] /\ x[b] = sorted[l]
        BY <2>2, <3>2, <4>4 DEF TakenOf
      <4>5. x \in Seq(Listing)
        BY <2>2 DEF TakenOf
      <4> QED
        BY <4>2, <4>3, <4>4, <4>5 DEF TakenOf
    <3>4. taken[i] = x /\ i \in 0 .. n
      BY <1>1, <2>1, <3>1
    <3> QED
      BY <3>3, <3>4
  <2> QED
    BY <2>4, <2>5
<1>8. T = 0 .. n
  <2> HIDE DEF T, n
  <2>1. T \in SUBSET (0 .. n)
    BY DEF T
  <2> QED
    BY <1>1, <1>6, <1>7, <2>1, UpTo
<1>9. n \in T
  BY <1>1, <1>8
<1> QED
  BY <1>2, <1>9

\* Of the first n texts those that are not there before.
Firsts(texts, n) == {i \in 1 .. n : \A j \in 1 .. i - 1 : texts[j] # texts[i]}

LEMMA FirstsGrow ==
    ASSUME NEW texts, NEW n \in Nat
    PROVE  /\ Firsts(texts, 0) = {} /\ IsFiniteSet(Firsts(texts, n)) /\ Cardinality(Firsts(texts, n)) \in Nat
           /\ \A i \in Firsts(texts, n) : /\ Firsts(texts, n) \cap 1 .. i = Firsts(texts, i)
                                          /\ Cardinality(Firsts(texts, i)) \in 1 .. Cardinality(Firsts(texts, n))
<1>1. \A k \in Nat : IsFiniteSet(Firsts(texts, k)) /\ Cardinality(Firsts(texts, k)) \in Nat
  <2> SUFFICES ASSUME NEW k \in Nat
               PROVE  IsFiniteSet(Firsts(texts, k)) /\ Cardinality(Firsts(texts, k)) \in Nat
    OBVIOUS
  <2>1. Firsts(texts, k) \subseteq 1 .. k
    BY DEF Firsts
  <2>2. IsFiniteSet(1 .. k)
    <3>1. \A m \in Nat : IsFiniteSet(1 .. m)
      BY FS_Interval
    <3> QED
      BY <3>1
  <2> QED
    BY <2>1, <2>2, FS_Subset, FS_CardinalityType
<1>2. ASSUME NEW i \in Firsts(texts, n)
      PROVE  /\ Firsts(texts, n) \cap 1 .. i = Firsts(texts, i)
             /\ Cardinality(Firsts(texts, i)) \in 1 .. Cardinality(Firsts(texts, n))
  <2>1. i \in 1 .. n /\ i \in Firsts(texts, i) /\ Firsts(texts, i) \subseteq Firsts(texts, n)
    BY DEF Firsts
  <2>2. Firsts(texts, n) \cap 1 .. i = Firsts(texts, i)
    BY <2>1 DEF Firsts
  <2>3. Cardinality(Firsts(texts, i)) <= Cardinality(Firsts(texts, n))
    BY <1>1, <2>1, FS_Subset
  <2>4. Cardinality(Firsts(texts, i)) # 0
    BY <1>1, <2>1, FS_EmptySet
  <2> QED
    BY <1>1, <2>1, <2>2, <2>3, <2>4
<1>3. Firsts(texts, 0) = {}
  BY DEF Firsts
<1> QED
  BY <1>1, <1>2, <1>3

\* x has each of the first n texts once, where it was there first.
KeptOf(x, texts, n) ==
    /\ Len(x) = Cardinality(Firsts(texts, n))
    /\ \A v : (\E j \in 1 .. Len(x) : x[j] = v) <=> (\E i \in 1 .. n : texts[i] = v)
    /\ \A i \in Firsts(texts, n) : x[Cardinality(Firsts(texts, i))] = texts[i]

LEMMA EachIsKept ==
    ASSUME NEW V, NEW texts \in Seq(V)
    PROVE  KeptOf(FirstOfEach(texts), texts, Len(texts))
<1> DEFINE n == Len(texts)
           X == Seq(V)
           Has(x, v) == \E j \in DOMAIN x : x[j] = v
           f == [i \in 1 .. n |-> [x \in X |-> IF Has(x, texts[i]) THEN x ELSE Append(x, texts[i])]]
           Def(g) == [i \in 0 .. n |-> IF i = 0 THEN <<>>
                        ELSE IF Has(g[i - 1], texts[i]) THEN g[i - 1] ELSE Append(g[i - 1], texts[i])]
           each == CHOOSE g : g = Def(g)
<1>1. n \in Nat /\ \A i \in 1 .. n : texts[i] \in V
  OBVIOUS
<1>2. FirstOfEach(texts) = each[n]
  BY DEF FirstOfEach
<1>3. \E g : g = Def(g)
  <2>1. <<>> \in X /\ f \in Steps(n, X)
    <3>1. ASSUME NEW i \in 1 .. n, NEW x \in X PROVE Append(x, texts[i]) \in X
      BY <1>1, AppendProperties
    <3> HIDE DEF Has
    <3> QED
      BY <3>1 DEF Steps
  <2>2. PICK g \in [0 .. n -> X] : g[0] = <<>> /\ \A i \in 1 .. n : g[i] = f[i][g[i - 1]]
    <3> HIDE DEF f, n, X
    <3>1. Made(n, X, <<>>, f) # {}
      BY <1>1, <2>1, Iterates
    <3> QED
      BY <3>1 DEF Made
  <2>3. ASSUME NEW i \in 1 .. n
        PROVE  g[i] = IF Has(g[i - 1], texts[i]) THEN g[i - 1] ELSE Append(g[i - 1], texts[i])
    <3>1. g[i - 1] \in X /\ g[i] = f[i][g[i - 1]]
      <4> HIDE DEF f, X, n
      <4>1. i - 1 \in 0 .. n
        BY <1>1
      <4> QED
        BY <2>2, <4>1
    <3>2. f[i] = [x \in X |-> IF Has(x, texts[i]) THEN x ELSE Append(x, texts[i])]
      <4> HIDE DEF Has
      <4> QED
        OBVIOUS
    <3> HIDE DEF f, X, Has
    <3> QED
      BY <3>1, <3>2
  <2>4. g = Def(g)
    <3> HIDE DEF Has
    <3>1. \A i \in 0 .. n : i = 0 \/ i \in 1 .. n
      BY <1>1
    <3>2. \A i \in 0 .. n : g[i] = Def(g)[i]
      BY <2>2, <2>3, <3>1
    <3>3. DOMAIN g = 0 .. n /\ g = [i \in DOMAIN g |-> g[i]]
      BY <2>2
    <3> QED
      BY <3>2, <3>3
  <2> QED
    BY <2>4
<1>4. each = Def(each)
  <2> HIDE DEF Def
  <2> QED
    BY <1>3
<1> HIDE DEF each, Has
<1>5. /\ each[0] = <<>>
      /\ \A i \in 1 .. n : each[i] = IF Has(each[i - 1], texts[i]) THEN each[i - 1] ELSE Append(each[i - 1], texts[i])
  <2>1. \A i \in 0 .. n : each[i] = Def(each)[i]
    <3> HIDE DEF Def
    <3> QED
      BY <1>4
  <2>2. 0 \in 0 .. n /\ \A i \in 1 .. n : i \in 0 .. n /\ i # 0
    BY <1>1
  <2> HIDE DEF n
  <2> QED
    BY <2>1, <2>2
<1> DEFINE T == {i \in 0 .. n : each[i] \in X /\ KeptOf(each[i], texts, i)}
<1>6. 0 \in T
  <2>1. <<>> \in X /\ KeptOf(<<>>, texts, 0)
    BY FirstsGrow, FS_EmptySet DEF KeptOf
  <2> HIDE DEF n, X
  <2> QED
    BY <1>1, <1>5, <2>1
<1>7. ASSUME NEW i \in 1 .. n, i - 1 \in T PROVE i \in T
  <2>1. PICK x, y, v : x = each[i - 1] /\ y = each[i] /\ v = texts[i]
    OBVIOUS
  <2>2. x \in X /\ KeptOf(x, texts, i - 1) /\ v \in V
    BY <1>1, <1>7, <2>1
  <2>3. /\ i \in Nat /\ i - 1 \in Nat /\ i \in 0 .. n
        /\ \A k \in 1 .. i : k = i \/ k \in 1 .. i - 1
    BY <1>1
  <2>4. /\ x \in Seq(V) /\ Len(x) \in Nat /\ DOMAIN x = 1 .. Len(x)
    BY <2>2
  <2>5. Has(x, v) <=> \E k \in 1 .. i - 1 : texts[k] = v
    BY <2>2, <2>4 DEF KeptOf, Has
  <2>6. CASE Has(x, v)
    <3>1. y = x
      <4> HIDE DEF n
      <4> QED
        BY <1>5, <2>1, <2>6
    <3>2. Firsts(texts, i) = Firsts(texts, i - 1)
      BY <2>1, <2>3, <2>5, <2>6 DEF Firsts
    <3>3. \A u : (\E k \in 1 .. i : texts[k] = u) <=> (\E k \in 1 .. i - 1 : texts[k] = u)
      BY <2>1, <2>3, <2>5, <2>6
    <3>4. KeptOf(x, texts, i)
      BY <2>2, <3>2, <3>3 DEF KeptOf
    <3>5. each[i] = x
      BY <2>1, <3>1
    <3> QED
      BY <2>2, <2>3, <3>4, <3>5
  <2>7. CASE ~Has(x, v)
    <3>1. y = Append(x, v)
      <4> HIDE DEF n
      <4> QED
        BY <1>5, <2>1, <2>7
    <3>2. /\ y \in Seq(V) /\ Len(y) = Len(x) + 1 /\ y[Len(x) + 1] = v
          /\ \A j \in 1 .. Len(x) : y[j] = x[j]
      BY <2>2, <2>4, <3>1, AppendProperties
    <3>3. Firsts(texts, i) = Firsts(texts, i - 1) \cup {i} /\ i \notin Firsts(texts, i - 1)
      BY <2>1, <2>3, <2>5, <2>7 DEF Firsts
    <3>4. Cardinality(Firsts(texts, i)) = Len(y)
      <4>1. /\ IsFiniteSet(Firsts(texts, i - 1))
            /\ Cardinality(Firsts(texts, i - 1)) = Len(x)
        BY <2>2, <2>3, FirstsGrow DEF KeptOf
      <4>2. Cardinality(Firsts(texts, i - 1) \cup {i}) = Cardinality(Firsts(texts, i - 1)) + 1
        BY <3>3, <4>1, FS_AddElement
      <4> QED
        BY <3>2, <3>3, <4>1, <4>2
    <3>5. \A j \in 1 .. Len(y) : j = Len(x) + 1 \/ j \in 1 .. Len(x)
      BY <2>4, <3>2
    <3>6. \A u : (\E j \in 1 .. Len(y) : y[j] = u) <=> u = v \/ (\E j \in 1 .. Len(x) : x[j] = u)
      BY <2>4, <3>2, <3>5
    <3>7. \A u : (\E k \in 1 .. i : texts[k] = u) <=> u = v \/ (\E k \in 1 .. i - 1 : texts[k] = u)
      BY <2>1, <2>3
    <3>8. \A u : (\E j \in 1 .. Len(y) : y[j] = u) <=> (\E k \in 1 .. i : texts[k] = u)
      BY <2>2, <3>6, <3>7 DEF KeptOf
    <3>9. ASSUME NEW k \in Firsts(texts, i) PROVE y[Cardinality(Firsts(texts, k))] = texts[k]
      <4>1. CASE k = i
        BY <2>1, <3>2, <3>4, <4>1
      <4>2. CASE k \in Firsts(texts, i - 1)
        <5>1. Cardinality(Firsts(texts, k)) \in 1 .. Len(x)
          <6>1. Cardinality(Firsts(texts, k)) \in 1 .. Cardinality(Firsts(texts, i - 1))
            BY <2>3, <4>2, FirstsGrow
          <6> QED
            BY <2>2, <6>1 DEF KeptOf
        <5>2. x[Cardinality(Firsts(texts, k))] = texts[k]
          BY <2>2, <4>2 DEF KeptOf
        <5> QED
          BY <3>2, <5>1, <5>2
      <4> QED
        BY <3>3, <4>1, <4>2
    <3>10. KeptOf(y, texts, i)
      BY <3>4, <3>8, <3>9 DEF KeptOf
    <3> QED
      BY <2>1, <2>3, <3>2, <3>10
  <2> QED
    BY <2>6, <2>7
<1>8. T = 0 .. n
  <2> HIDE DEF T, n
  <2>1. T \in SUBSET (0 .. n)
    BY DEF T
  <2> QED
    BY <1>1, <1>6, <1>7, <2>1, UpTo
<1>9. n \in T
  BY <1>1, <1>8
<1> QED
  BY <1>2, <1>9

\* At the end of the walk the list is sorted.
LEMMA AllSorted ==
    ASSUME SortInv, Merged
    PROVE  \A t \in Listing : \E i \in 1 .. Len(sorted) : sorted[i] = t
<1>1. list \in Listed /\ position = Len(list) /\ path = <<>>
  BY DEF SortInv, InputInv, EndOfWalk, Merged
<1>2. Listing = {list[i] : i \in 1 .. Len(list)}
  BY <1>1, ListKnown DEF Listing, ToSet
<1>3. \A i \in 1 .. Len(list) : ~ToVisit(list[i])
  BY <1>1 DEF SortInv, LoopInv, Merged
<1>4. sorted \in Seq(Listing)
  BY DEF SortInv, SortedInv
<1>5. ToSet(sorted) = {sorted[i] : i \in 1 .. Len(sorted)}
  BY <1>4 DEF ToSet
<1> QED
  BY <1>2, <1>3, <1>5 DEF ToVisit, Listing

LEMMA EndsSo ==
    ASSUME SortInv
    PROVE  OverflowsInCircle
BY DEF SortInv, EndOfWalk, Cyclic, Listing, OverflowsInCircle

LEMMA MergesInOrder ==
    ASSUME SortInv
    PROVE  MergedInOrder
<1> SUFFICES ASSUME Merged PROVE MergedInOrder
  BY DEF MergedInOrder
<1> DEFINE n       == Len(Sources)
           texts   == [i \in DOMAIN Sources |-> outcomes[Sources[i]].output]
           text(i) == outcomes[Sources[i]].output
           first   == {i \in DOMAIN Sources : \A j \in 1 .. i - 1 : text(j) # text(i)}
<1>1. merge.sources = Sources /\ merge.output = FirstOfEach(texts)
  BY DEF SortInv, EndOfWalk, Merged
<1>2. SortedInv /\ sorted \in Seq(Listing)
  BY DEF SortInv, SortedInv
<1>3. TakenOf(Sources, Len(sorted)) /\ Sources \in Seq(Listing) /\ n \in Nat /\ DOMAIN Sources = 1 .. n
  <2>1. TakenOf(Sources, Len(sorted))
    BY <1>2, SourcesTaken
  <2>2. Sources \in Seq(Listing)
    BY <2>1 DEF TakenOf
  <2>3. n \in Nat /\ DOMAIN Sources = 1 .. n
    BY ONLY <2>2
  <2> QED
    BY <2>1, <2>2, <2>3
<1>4. ToSet(Sources) = {t \in ToSet(list) : Succeeded(t)}
  <2>1. ToSet(Sources) = {Sources[i] : i \in 1 .. n}
    BY <1>3 DEF ToSet
  <2>2. \A i \in 1 .. n : Sources[i] \in ToSet(list) /\ Succeeded(Sources[i])
    <3>1. \A i \in 1 .. n : Sources[i] \in Listing
      BY <1>3
    <3>2. \A i \in 1 .. n : Succeeded(Sources[i])
      BY <1>3 DEF TakenOf
    <3> QED
      BY <3>1, <3>2 DEF Listing
  <2>3. ASSUME NEW t \in ToSet(list), Succeeded(t) PROVE \E i \in 1 .. n : Sources[i] = t
    <3>1. PICK k \in 1 .. Len(sorted) : sorted[k] = t
      BY AllSorted DEF Listing
    <3> QED
      BY <1>3, <2>3, <3>1 DEF TakenOf
  <2> QED
    BY <2>1, <2>2, <2>3
<1>5. ASSUME NEW i \in 1 .. n, NEW j \in 1 .. n, i < j
      PROVE  Sources[i] # Sources[j] /\ ~WaitsFor(Sources[i], Sources[j])
  <2>1. PICK k \in 1 .. Len(sorted), l \in 1 .. Len(sorted) :
           k < l /\ Sources[i] = sorted[k] /\ Sources[j] = sorted[l]
    BY <1>3, <1>5 DEF TakenOf
  <2>2. sorted[k] # sorted[l]
    BY <1>2, <2>1 DEF SortedInv
  <2>3. ASSUME WaitsFor(sorted[k], sorted[l]) PROVE FALSE
    <3>1. PICK m \in 1 .. k - 1 : sorted[m] = sorted[l]
      BY <1>2, <2>3, SortedAfterNeeds
    <3>2. m \in 1 .. Len(sorted) /\ m # l
      BY <1>2, <2>1
    <3> QED
      BY <1>2, <3>1, <3>2 DEF SortedInv
  <2> QED
    BY <2>1, <2>2, <2>3
<1>6. Len(merge.output) = Cardinality(first)
      /\ \A i \in first : merge.output[Cardinality(first \cap 1 .. i)] = text(i)
  <2> DEFINE V == {text(i) : i \in 1 .. n}
  <2>1. texts \in Seq(V) /\ Len(texts) = n /\ \A i \in 1 .. n : texts[i] = text(i)
    BY <1>3
  <2>2. first = Firsts(texts, n)
    <3>1. \A i \in 1 .. n : \A j \in 1 .. i - 1 : j \in 1 .. n
      BY <1>3
    <3> HIDE DEF texts, text
    <3> QED
      BY <1>3, <2>1, <3>1 DEF Firsts
  <2> HIDE DEF texts, first, V
  <2>3. KeptOf(FirstOfEach(texts), texts, n)
    BY <2>1, EachIsKept
  <2>4. ASSUME NEW i \in first PROVE merge.output[Cardinality(first \cap 1 .. i)] = text(i)
    <3>1. first \cap 1 .. i = Firsts(texts, i)
      BY <1>3, <2>2, FirstsGrow
    <3>2. i \in 1 .. n
      BY <2>2 DEF Firsts
    <3> HIDE DEF text
    <3> QED
      BY <1>1, <2>1, <2>2, <2>3, <3>1, <3>2 DEF KeptOf
  <2> QED
    BY <1>1, <2>2, <2>3, <2>4 DEF KeptOf
<1> QED
  BY <1>1, <1>3, <1>4, <1>5, <1>6 DEF MergedInOrder

LEMMA ValidSo ==
    ASSUME SortInv
    PROVE  ValidUnlessCutOff
<1> SUFFICES ASSUME Merged, merge.valid, ~CutOff, NEW t \in Listing, outcomes[t].outcome # "completed"
             PROVE  FALSE
  BY DEF ValidUnlessCutOff, Listing
<1>1. \A u \in Listing : outcomes[u].outcome \in {"completed", "skipped"}
  BY DEF SortInv, EndOfWalk, Merged, Valid, Listing
<1>2. \A u \in Listing : DependsOn(u) \subseteq Listing
  BY DEF CutOff, Listing
<1>3. \A u \in Listing : outcomes[u].outcome = "skipped" =>
         ~ \A w \in DependsOn(u) : w \in Listing /\ outcomes[w].outcome = "completed"
  BY DEF SortInv, InputInv, Scheduled, Listing
<1>4. SortedInv /\ Len(sorted) \in Nat /\ \A i \in 1 .. Len(sorted) : sorted[i] \in Listing
  BY DEF SortInv, SortedInv
<1> DEFINE skipped == {i \in 1 .. Len(sorted) : outcomes[sorted[i]].outcome = "skipped"}
<1>5. skipped # {} /\ skipped \in SUBSET Nat
  BY <1>1, AllSorted
<1>6. PICK i \in skipped : \A j \in skipped : i <= j
  <2> HIDE DEF skipped
  <2> QED
    BY <1>5, FirstOfSome
<1>7. PICK w \in DependsOn(sorted[i]) : outcomes[w].outcome # "completed"
  BY <1>2, <1>3, <1>4
<1>8. w \in Listing /\ outcomes[w].outcome = "skipped"
  BY <1>1, <1>2, <1>4, <1>7
<1>9. PICK j \in 1 .. i - 1 : sorted[j] = w
  BY <1>4, <1>7, <1>8 DEF SortedInv
<1>10. j \in skipped /\ j < i
  BY <1>4, <1>8, <1>9
<1> QED
  BY <1>6, <1>10

\* For any lists of tasks and what they depend on, cycles and tasks that are not
\* listed included: the walk runs out of stack only where tasks wait for each other,
\* and puts the others in order; what is merged, and in which order, is as the
\* dependencies and the outcomes say; and a merge is not said to be valid when a
\* task that could have been run has not completed.
THEOREM MergesSoundly == GSpec => []MergeIsSound
<1>1. SortInv => MergeIsSound
  BY EndsSo, MergesInOrder, ValidSo DEF MergeIsSound
<1> QED
  BY <1>1, WalkStart, WalkStep, PTL DEF GSpec

-----------------------------------------------------------------------------
(* The chain of a request.                                                 *)

\* x has, of the first n names of s, those in the pool, each once, the first of them first.
ChainOf(x, s, n) ==
    /\ x \in Seq(ALLOWED_MODEL_POOL)
    /\ \A i, j \in 1 .. Len(x) : x[i] = x[j] => i = j
    /\ \A i \in 1 .. n : s[i] \in ALLOWED_MODEL_POOL => Len(x) # 0
    /\ Len(x) # 0 => \E i \in 1 .. n : x[1] = s[i] /\ \A j \in 1 .. i - 1 : s[j] \notin ALLOWED_MODEL_POOL

LEMMA ChainIsPools ==
    ASSUME NEW V, NEW s \in Seq(V)
    PROVE  ChainOf(poolChain(s), s, Len(s))
<1> DEFINE n == Len(s)
           X == Seq(ALLOWED_MODEL_POOL)
           New(x, m) == m \in ALLOWED_MODEL_POOL /\ \A j \in DOMAIN x : x[j] # m
           f == [i \in 1 .. n |-> [x \in X |-> IF New(x, s[i]) THEN Append(x, s[i]) ELSE x]]
           Def(g) == [i \in 0 .. n |-> IF i = 0 THEN <<>>
                        ELSE IF New(g[i - 1], s[i]) THEN Append(g[i - 1], s[i]) ELSE g[i - 1]]
           chain == CHOOSE g : g = Def(g)
<1>1. n \in Nat
  OBVIOUS
<1>2. poolChain(s) = chain[n]
  BY DEF poolChain
<1>3. \E g : g = Def(g)
  <2>1. <<>> \in X /\ f \in Steps(n, X)
    <3>1. ASSUME NEW i \in 1 .. n, NEW x \in X, New(x, s[i]) PROVE Append(x, s[i]) \in X
      BY <3>1, AppendProperties
    <3> HIDE DEF New
    <3> QED
      BY <3>1 DEF Steps
  <2>2. PICK g \in [0 .. n -> X] : g[0] = <<>> /\ \A i \in 1 .. n : g[i] = f[i][g[i - 1]]
    <3> HIDE DEF f, n, X
    <3>1. Made(n, X, <<>>, f) # {}
      BY <1>1, <2>1, Iterates
    <3> QED
      BY <3>1 DEF Made
  <2>3. ASSUME NEW i \in 1 .. n
        PROVE  g[i] = IF New(g[i - 1], s[i]) THEN Append(g[i - 1], s[i]) ELSE g[i - 1]
    <3>1. g[i - 1] \in X /\ g[i] = f[i][g[i - 1]]
      <4> HIDE DEF f, X, n
      <4>1. i - 1 \in 0 .. n
        BY <1>1
      <4> QED
        BY <2>2, <4>1
    <3>2. f[i] = [x \in X |-> IF New(x, s[i]) THEN Append(x, s[i]) ELSE x]
      <4> HIDE DEF New
      <4> QED
        OBVIOUS
    <3> HIDE DEF f, X, New
    <3> QED
      BY <3>1, <3>2
  <2>4. g = Def(g)
    <3> HIDE DEF New
    <3>1. \A i \in 0 .. n : i = 0 \/ i \in 1 .. n
      BY <1>1
    <3>2. \A i \in 0 .. n : g[i] = Def(g)[i]
      BY <2>2, <2>3, <3>1
    <3>3. DOMAIN g = 0 .. n /\ g = [i \in DOMAIN g |-> g[i]]
      BY <2>2
    <3> QED
      BY <3>2, <3>3
  <2> QED
    BY <2>4
<1>4. chain = Def(chain)
  <2> HIDE DEF Def
  <2> QED
    BY <1>3
<1> HIDE DEF chain, New
<1>5. /\ chain[0] = <<>>
      /\ \A i \in 1 .. n : chain[i] = IF New(chain[i - 1], s[i]) THEN Append(chain[i - 1], s[i]) ELSE chain[i - 1]
  <2>1. \A i \in 0 .. n : chain[i] = Def(chain)[i]
    <3> HIDE DEF Def
    <3> QED
      BY <1>4
  <2>2. 0 \in 0 .. n /\ \A i \in 1 .. n : i \in 0 .. n /\ i # 0
    BY <1>1
  <2> HIDE DEF n
  <2> QED
    BY <2>1, <2>2
<1> DEFINE T == {i \in 0 .. n : ChainOf(chain[i], s, i)}
<1>6. 0 \in T
  <2>1. ChainOf(<<>>, s, 0)
    BY DEF ChainOf
  <2> HIDE DEF n, X
  <2> QED
    BY <1>1, <1>5, <2>1
<1>7. ASSUME NEW i \in 1 .. n, i - 1 \in T PROVE i \in T
  <2>1. PICK x, y, m : x = chain[i - 1] /\ y = chain[i] /\ m = s[i]
    OBVIOUS
  <2>2. ChainOf(x, s, i - 1)
    BY <1>7, <2>1
  <2>3. i \in 0 .. n /\ \A k \in 1 .. i : k = i \/ k \in 1 .. i - 1
    BY <1>1
  <2>4. x \in Seq(ALLOWED_MODEL_POOL) /\ Len(x) \in Nat /\ DOMAIN x = 1 .. Len(x)
    BY <2>2 DEF ChainOf
  <2>5. CASE New(x, m)
    <3>1. y = Append(x, m)
      <4> HIDE DEF n
      <4> QED
        BY <1>5, <2>1, <2>5
    <3>2. m \in ALLOWED_MODEL_POOL /\ \A j \in 1 .. Len(x) : x[j] # m
      BY <2>4, <2>5 DEF New
    <3>3. /\ y \in Seq(ALLOWED_MODEL_POOL) /\ Len(y) = Len(x) + 1 /\ y[Len(x) + 1] = m
          /\ \A j \in 1 .. Len(x) : y[j] = x[j]
      BY <2>4, <3>1, <3>2, AppendProperties
    <3>4. \A j \in 1 .. Len(y) : j = Len(x) + 1 \/ j \in 1 .. Len(x)
      BY <2>4, <3>3
    <3>5. \A a, b \in 1 .. Len(y) : y[a] = y[b] => a = b
      BY <2>2, <3>2, <3>3, <3>4 DEF ChainOf
    <3>6. \E k \in 1 .. i : y[1] = s[k] /\ \A j \in 1 .. k - 1 : s[j] \notin ALLOWED_MODEL_POOL
      <4>1. CASE Len(x) = 0
        BY <2>1, <2>2, <2>3, <3>3, <4>1 DEF ChainOf
      <4>2. CASE Len(x) # 0
        <5>1. PICK k \in 1 .. i - 1 : x[1] = s[k] /\ \A j \in 1 .. k - 1 : s[j] \notin ALLOWED_MODEL_POOL
          BY <2>2, <4>2 DEF ChainOf
        <5> QED
          BY <2>4, <3>3, <4>2, <5>1
      <4> QED
        BY <4>1, <4>2
    <3>7. Len(y) # 0
      BY <2>4, <3>3
    <3>8. ChainOf(y, s, i)
      BY <3>3, <3>5, <3>6, <3>7 DEF ChainOf
    <3> QED
      BY <2>1, <2>3, <3>8
  <2>6. CASE ~New(x, m)
    <3>1. y = x
      <4> HIDE DEF n
      <4> QED
        BY <1>5, <2>1, <2>6
    <3>2. m \in ALLOWED_MODEL_POOL => Len(x) # 0
      BY <2>4, <2>6 DEF New
    <3>3. \A k \in 1 .. i : s[k] \in ALLOWED_MODEL_POOL => Len(x) # 0
      BY <2>1, <2>2, <2>3, <3>2 DEF ChainOf
    <3>4. Len(x) # 0 => \E k \in 1 .. i : x[1] = s[k] /\ \A j \in 1 .. k - 1 : s[j] \notin ALLOWED_MODEL_POOL
      BY <2>2 DEF ChainOf
    <3>5. \A a, b \in 1 .. Len(x) : x[a] = x[b] => a = b
      BY <2>2 DEF ChainOf
    <3>6. ChainOf(x, s, i)
      BY <2>4, <3>3, <3>4, <3>5 DEF ChainOf
    <3> QED
      BY <2>1, <2>3, <3>1, <3>6
  <2> QED
    BY <2>5, <2>6
<1>8. T = 0 .. n
  <2> HIDE DEF T, n
  <2>1. T \in SUBSET (0 .. n)
    BY DEF T
  <2> QED
    BY <1>1, <1>6, <1>7, <2>1, UpTo
<1>9. n \in T
  BY <1>1, <1>8
<1> QED
  BY <1>2, <1>9

ModelNames == ALLOWED_MODEL_POOL \cup Others

\* A request under way has the chain that the registry and the last model make.
RoutingInv ==
    /\ alias \in Aliases
    /\ sticky = <<>> \/ \E m \in ALLOWED_MODEL_POOL : sticky = <<m>>
    /\ \/ asked = <<>> /\ route = <<>>
       \/ \E a \in Requests : asked = <<a>> /\ route = getModelMapping(a)

\* What leads p leads p and what follows it.
LEMMA LeadsJoined ==
    ASSUME NEW p \in Seq(ModelNames), NEW q \in Seq(ModelNames), NEW r \in Seq(ModelNames)
    PROVE  /\ p \o q \o r \in Seq(ModelNames) /\ Len(p \o q \o r) = Len(p) + Len(q) + Len(r)
           /\ \A i \in 1 .. Len(p) : (p \o q \o r)[i] = p[i]
<1>1. /\ p \o q \in Seq(ModelNames) /\ Len(p \o q) = Len(p) + Len(q)
      /\ \A i \in 1 .. Len(p) + Len(q) : (p \o q)[i] = IF i <= Len(p) THEN p[i] ELSE q[i - Len(p)]
  BY ConcatProperties
<1>a. PICK s : s = p \o q
  OBVIOUS
<1>2. s \in Seq(ModelNames) /\ Len(s) = Len(p) + Len(q) /\ \A i \in 1 .. Len(p) : s[i] = p[i]
  BY <1>1, <1>a
<1>3. /\ s \o r \in Seq(ModelNames) /\ Len(s \o r) = Len(s) + Len(r)
      /\ \A i \in 1 .. Len(s) + Len(r) : (s \o r)[i] = IF i <= Len(s) THEN s[i] ELSE r[i - Len(s)]
  <2>1. \A u \in Seq(ModelNames) :
           /\ u \o r \in Seq(ModelNames) /\ Len(u \o r) = Len(u) + Len(r)
           /\ \A i \in 1 .. Len(u) + Len(r) : (u \o r)[i] = IF i <= Len(u) THEN u[i] ELSE r[i - Len(u)]
    BY ConcatProperties
  <2> QED
    BY <1>2, <2>1
<1>4. \A i \in 1 .. Len(p) : i \in 1 .. Len(s) + Len(r) /\ i <= Len(s)
  BY <1>2
<1> QED
  BY <1>2, <1>3, <1>4, <1>a

\* When the first of a chain's names is in the pool, or none before it is, it leads the chain.
LEMMA FirstLeads ==
    ASSUME NEW s \in Seq(ModelNames), NEW i \in 1 .. Len(s), s[i] \in ALLOWED_MODEL_POOL
    PROVE  /\ poolChain(s) \in Seq(ALLOWED_MODEL_POOL) /\ poolChain(s) # <<>>
           /\ \A j, k \in 1 .. Len(poolChain(s)) : poolChain(s)[j] = poolChain(s)[k] => j = k
           /\ \E j \in 1 .. i : /\ Head(poolChain(s)) = s[j]
                                /\ \A k \in 1 .. j - 1 : s[k] \notin ALLOWED_MODEL_POOL
<1>1. PICK x : x = poolChain(s)
  OBVIOUS
<1>2. ChainOf(x, s, Len(s))
  BY <1>1, ChainIsPools
<1>3. x \in Seq(ALLOWED_MODEL_POOL) /\ Len(x) # 0
  BY <1>2 DEF ChainOf
<1>4. x # <<>> /\ Head(x) = x[1]
  BY <1>3
<1>5. PICK j \in 1 .. Len(s) : x[1] = s[j] /\ \A k \in 1 .. j - 1 : s[k] \notin ALLOWED_MODEL_POOL
  BY <1>2, <1>3 DEF ChainOf
<1>6. j <= i
  <2> SUFFICES ASSUME i < j PROVE FALSE
    OBVIOUS
  <2>1. i \in 1 .. j - 1
    OBVIOUS
  <2> QED
    BY <1>5, <2>1
<1>7. \A l, k \in 1 .. Len(x) : x[l] = x[k] => l = k
  BY <1>2 DEF ChainOf
<1>8. j \in 1 .. i
  BY <1>6
<1> QED
  BY <1>1, <1>3, <1>4, <1>5, <1>7, <1>8

LEMMA PoolNames ==
    /\ Coding \in Seq(ModelNames) /\ Len(Coding) = 3 /\ Coding[1] = "gemini-3.5-flash"
    /\ Gemma \in Seq(ModelNames) /\ Len(Gemma) = 3 /\ Gemma[1] = "gemma-4-31b-it"
    /\ Lite \in Seq(ModelNames) /\ Len(Lite) = 2 /\ Lite[1] = "gemini-2.5-flash-lite"
    /\ GlobalDefault \in Seq(ModelNames) /\ Len(GlobalDefault) = 2 /\ GlobalDefault[1] = "gemini-3.5-flash"
    /\ Tail(GlobalDefault) \in Seq(ModelNames)
    /\ {"gemini-3.5-flash", "gemma-4-31b-it", "gemini-2.5-flash-lite"} \subseteq ALLOWED_MODEL_POOL
    /\ "gemini-3.5-flash" \notin ToSet(Lite) /\ "gemma-4-31b-it" \notin ToSet(Lite)
<1>1. ALLOWED_MODEL_POOL \subseteq ModelNames
  BY DEF ModelNames
<1>2. Coding \in Seq(ALLOWED_MODEL_POOL) /\ Gemma \in Seq(ALLOWED_MODEL_POOL) /\ Lite \in Seq(ALLOWED_MODEL_POOL)
      /\ GlobalDefault \in Seq(ALLOWED_MODEL_POOL)
  BY DEF Coding, Gemma, Lite, GlobalDefault, ALLOWED_MODEL_POOL
<1>3. Coding \in Seq(ModelNames) /\ Gemma \in Seq(ModelNames) /\ Lite \in Seq(ModelNames)
      /\ GlobalDefault \in Seq(ModelNames)
  BY <1>1, <1>2, SeqMonotonic
<1>4. Len(Coding) = 3 /\ Len(Gemma) = 3 /\ Len(Lite) = 2 /\ Len(GlobalDefault) = 2
  BY DEF Coding, Gemma, Lite, GlobalDefault
<1>5. Tail(GlobalDefault) \in Seq(ModelNames)
  <2>1. \A q \in Seq(ModelNames) : q # <<>> => Tail(q) \in Seq(ModelNames)
    BY HeadTailProperties
  <2>2. GlobalDefault # <<>>
    BY <1>4
  <2> QED
    BY <1>3, <2>1, <2>2
<1>6. ToSet(Lite) = {"gemini-2.5-flash-lite", "gemini-3.1-flash-lite-preview"}
  <2>1. DOMAIN Lite = {1, 2} /\ Lite[1] = "gemini-2.5-flash-lite" /\ Lite[2] = "gemini-3.1-flash-lite-preview"
    BY DEF Lite
  <2> QED
    BY <2>1 DEF ToSet
<1>7. Coding[1] = "gemini-3.5-flash" /\ Gemma[1] = "gemma-4-31b-it" /\ Lite[1] = "gemini-2.5-flash-lite"
      /\ GlobalDefault[1] = "gemini-3.5-flash"
  BY DEF Coding, Gemma, Lite, GlobalDefault
<1>8. {"gemini-3.5-flash", "gemma-4-31b-it", "gemini-2.5-flash-lite"} \subseteq ALLOWED_MODEL_POOL
  BY DEF ALLOWED_MODEL_POOL
<1> QED
  BY <1>3, <1>4, <1>5, <1>6, <1>7, <1>8

\* What a request is given, for any registry and any last model.
LEMMA MappingFits ==
    ASSUME alias \in Aliases, sticky = <<>> \/ \E m \in ALLOWED_MODEL_POOL : sticky = <<m>>, NEW a
    PROVE  /\ getModelMapping(a) \in Seq(ALLOWED_MODEL_POOL)
           /\ \A j, k \in 1 .. Len(getModelMapping(a)) : getModelMapping(a)[j] = getModelMapping(a)[k] => j = k
           /\ Head(getModelMapping(a)) \in ToSet(Lite) =>
                \/ \E i \in DOMAIN alias : /\ alias[i] \in ToSet(Lite)
                                           /\ \A j \in 1 .. i - 1 : alias[j] \notin ALLOWED_MODEL_POOL
                \/ a.text \in {"none", "greeting", "word"}
                \/ a.topics \cap {"health", "compaction", "web"} # {}
                \/ a.text = "go on" /\ ~hasActiveAgentContext(a)
<1> DEFINE task == classifyTaskType(a)
           taskChain == getTaskModelChain(task)
           last == Tail(GlobalDefault)
           coding == task \in {"HEAVY_CODING", "LIGHT_CODING"}
<1>1. alias \in Seq(ModelNames) /\ sticky \in Seq(ModelNames) /\ last \in Seq(ModelNames)
  <2>1. alias \in Seq(ModelNames)
    BY RoutingAssumption DEF ModelNames
  <2>2. sticky \in Seq(ModelNames)
    <3>1. \A m \in ALLOWED_MODEL_POOL : m \in ModelNames
      BY DEF ModelNames
    <3>2. \A m \in ModelNames : <<m>> \in Seq(ModelNames)
      OBVIOUS
    <3>3. <<>> \in Seq(ModelNames)
      OBVIOUS
    <3> QED
      BY <3>1, <3>2, <3>3
  <2> QED
    BY <2>1, <2>2, PoolNames
<1>2. resolveBaseRoute \in Seq(ModelNames)
  BY <1>1, PoolNames DEF resolveBaseRoute
<1> HIDE DEF last
<1>3. CASE coding
  <2>1. taskChain = Coding
    BY <1>3 DEF getTaskModelChain
  <2>2. PICK s : s = (resolveBaseRoute \o Coding) \o sticky \o last
    OBVIOUS
  <2>3. getModelMapping(a) = poolChain(s)
    BY <1>3, <2>1, <2>2 DEF getModelMapping, last
  <2>4. PICK p : p = resolveBaseRoute \o Coding
    OBVIOUS
  <2>5. /\ p \in Seq(ModelNames) /\ Len(p) = Len(resolveBaseRoute) + 3
        /\ \A i \in 1 .. Len(resolveBaseRoute) : p[i] = resolveBaseRoute[i]
        /\ p[Len(resolveBaseRoute) + 1] = "gemini-3.5-flash"
    <3>1. /\ p \in Seq(ModelNames) /\ Len(p) = Len(resolveBaseRoute) + Len(Coding)
          /\ \A i \in 1 .. Len(resolveBaseRoute) + Len(Coding) :
               p[i] = IF i <= Len(resolveBaseRoute) THEN resolveBaseRoute[i]
                      ELSE Coding[i - Len(resolveBaseRoute)]
      BY <1>2, <2>4, PoolNames, ConcatProperties
    <3>2. Len(resolveBaseRoute) \in Nat /\ Len(Coding) = 3 /\ Coding[1] = "gemini-3.5-flash"
      BY <1>2, PoolNames
    <3> QED
      BY <3>1, <3>2
  <2>6. s \in Seq(ModelNames) /\ Len(s) >= Len(p) /\ \A i \in 1 .. Len(p) : s[i] = p[i]
    BY <1>1, <2>2, <2>4, <2>5, LeadsJoined
  <2>7. PICK n \in Nat : n = Len(resolveBaseRoute) + 1
    BY <1>2
  <2>8. n \in 1 .. Len(s) /\ n \in 1 .. Len(p) /\ s[n] = "gemini-3.5-flash"
    BY <1>2, <2>5, <2>6, <2>7
  <2>9. s[n] \in ALLOWED_MODEL_POOL
    BY <2>8, PoolNames
  <2>10. /\ poolChain(s) \in Seq(ALLOWED_MODEL_POOL)
         /\ \A j, k \in 1 .. Len(poolChain(s)) : poolChain(s)[j] = poolChain(s)[k] => j = k
         /\ \E j \in 1 .. n : /\ Head(poolChain(s)) = s[j]
                              /\ \A k \in 1 .. j - 1 : s[k] \notin ALLOWED_MODEL_POOL
    BY <2>6, <2>8, <2>9, FirstLeads
  <2>11. PICK j \in 1 .. n : /\ Head(poolChain(s)) = s[j]
                             /\ \A k \in 1 .. j - 1 : s[k] \notin ALLOWED_MODEL_POOL
    BY <2>10
  <2>12. ASSUME Head(poolChain(s)) \in ToSet(Lite)
         PROVE  \E i \in DOMAIN alias : /\ alias[i] \in ToSet(Lite)
                                        /\ \A k \in 1 .. i - 1 : alias[k] \notin ALLOWED_MODEL_POOL
    <3>1. j # n
      BY <2>8, <2>11, <2>12, PoolNames
    <3>2. j \in 1 .. Len(resolveBaseRoute) /\ \A k \in 1 .. j - 1 : k \in 1 .. Len(resolveBaseRoute)
      BY <1>2, <2>7, <3>1
    <3>3. /\ resolveBaseRoute[j] \in ToSet(Lite)
          /\ \A k \in 1 .. j - 1 : resolveBaseRoute[k] \notin ALLOWED_MODEL_POOL
      BY <1>2, <2>5, <2>6, <2>11, <2>12, <3>2
    <3>4. CASE alias = <<>>
      <4>1. resolveBaseRoute = GlobalDefault
        BY <3>4 DEF resolveBaseRoute
      <4>2. j \in {1, 2} /\ (j = 2 => GlobalDefault[1] \notin ALLOWED_MODEL_POOL)
        BY <3>2, <3>3, <4>1, PoolNames
      <4>3. GlobalDefault[1] \in ToSet(Lite)
        BY <3>3, <4>1, <4>2, PoolNames
      <4> QED
        BY <4>3, PoolNames
    <3>5. CASE alias # <<>>
      <4>1. resolveBaseRoute = alias /\ DOMAIN alias = 1 .. Len(alias)
        BY <1>1, <3>5 DEF resolveBaseRoute
      <4> QED
        BY <3>2, <3>3, <4>1
    <3> QED
      BY <3>4, <3>5
  <2> HIDE DEF task
  <2> QED
    BY <2>3, <2>10, <2>12
<1>4. CASE ~coding
  <2>1. taskChain = Gemma \/ taskChain = Lite
    BY <1>4 DEF getTaskModelChain
  <2>2. taskChain \in Seq(ModelNames) /\ Len(taskChain) \in {2, 3} /\ taskChain[1] \in ALLOWED_MODEL_POOL
    BY <2>1, PoolNames
  <2>3. PICK c, s : c = taskChain /\ s = (c \o resolveBaseRoute) \o sticky \o last
    OBVIOUS
  <2>4. getModelMapping(a) = poolChain(s)
    BY <1>4, <2>3 DEF getModelMapping, last
  <2>5. PICK p : p = c \o resolveBaseRoute
    OBVIOUS
  <2>6. p \in Seq(ModelNames) /\ Len(p) >= 2 /\ p[1] = c[1]
    <3>1. /\ p \in Seq(ModelNames) /\ Len(p) = Len(c) + Len(resolveBaseRoute)
          /\ \A i \in 1 .. Len(c) + Len(resolveBaseRoute) :
               p[i] = IF i <= Len(c) THEN c[i] ELSE resolveBaseRoute[i - Len(c)]
      BY <1>2, <2>2, <2>3, <2>5, ConcatProperties
    <3>2. Len(resolveBaseRoute) \in Nat /\ Len(c) \in {2, 3}
      BY <1>2, <2>2, <2>3
    <3>3. 1 \in 1 .. Len(c) + Len(resolveBaseRoute) /\ 1 <= Len(c) /\ Len(c) + Len(resolveBaseRoute) >= 2
      BY <3>2
    <3> QED
      BY <3>1, <3>3
  <2>7. s \in Seq(ModelNames) /\ Len(s) >= Len(p) /\ s[1] = p[1]
    <3>1. 1 \in 1 .. Len(p)
      BY <2>6
    <3> QED
      BY <1>1, <2>3, <2>5, <2>6, <3>1, LeadsJoined
  <2>8. 1 \in 1 .. Len(s) /\ s[1] \in ALLOWED_MODEL_POOL
    BY <2>2, <2>3, <2>6, <2>7
  <2>9. /\ poolChain(s) \in Seq(ALLOWED_MODEL_POOL)
        /\ \A j, k \in 1 .. Len(poolChain(s)) : poolChain(s)[j] = poolChain(s)[k] => j = k
        /\ Head(poolChain(s)) = s[1]
    BY <2>7, <2>8, FirstLeads
  <2>10. ASSUME Head(poolChain(s)) \in ToSet(Lite)
         PROVE  \/ a.text \in {"none", "greeting", "word"}
                \/ a.topics \cap {"health", "compaction", "web"} # {}
                \/ a.text = "go on" /\ ~hasActiveAgentContext(a)
    <3>1. taskChain # Gemma
      BY <2>3, <2>6, <2>7, <2>9, <2>10, PoolNames
    <3>2. task \notin {"REASONING", "PLANNING", "VERIFICATION", "HEAVY_CODING", "LIGHT_CODING"}
      BY <1>4, <3>1 DEF getTaskModelChain
    <3>3. task \in {"CHAT", "HEALTH_CHECK", "COMPACTION"} \/ task = classifyFromBehavior(a)
      BY <3>2 DEF classifyTaskType
    <3> QED
      BY <3>2, <3>3 DEF classifyTaskType, classifyFromBehavior, detectIntent
  <2> HIDE DEF task
  <2> QED
    BY <2>4, <2>9, <2>10
<1> QED
  BY <1>3, <1>4

\* For any requests, registries and names outside the pool: a chain has models of the
\* pool, each once, and the least models lead it only for the least work.
THEOREM LeastForLeast == TSpec => []LeastModelsForLeastWork
<1>1. TInit => RoutingInv
  BY DEF TInit, RoutingInv
<1>2. RoutingInv /\ [TNext]_tvars => RoutingInv'
  <2> SUFFICES ASSUME RoutingInv, [TNext]_tvars PROVE RoutingInv'
    OBVIOUS
  <2>1. ASSUME NEW a \in Requests, Route(a) PROVE RoutingInv'
    <3>1. asked' = <<a>> /\ route' = getModelMapping(a) /\ UNCHANGED <<alias, sticky>>
      BY <2>1 DEF Route
    <3>2. getModelMapping(a)' = getModelMapping(a)
      BY <3>1 DEF getModelMapping, resolveBaseRoute
    <3> QED
      BY <3>1, <3>2 DEF RoutingInv
  <2>2. CASE RequestServed
    <3>1. PICK a \in Requests : route = getModelMapping(a)
      BY <2>2 DEF RequestServed, RoutingInv
    <3>2. route \in Seq(ALLOWED_MODEL_POOL)
      BY <3>1, MappingFits DEF RoutingInv
    <3>3. ToSet(route) \subseteq ALLOWED_MODEL_POOL
      BY <3>2 DEF ToSet
    <3> QED
      BY <2>2, <3>3 DEF RequestServed, RoutingInv
  <2>3. CASE EditAlias
    BY <2>3 DEF EditAlias, RoutingInv
  <2>4. CASE UNCHANGED tvars
    <3>1. UNCHANGED <<alias, sticky, asked, route>>
      BY <2>4 DEF tvars
    <3>2. \A a : getModelMapping(a)' = getModelMapping(a)
      BY <3>1 DEF getModelMapping, resolveBaseRoute
    <3> QED
      BY <3>1, <3>2 DEF RoutingInv
  <2> QED
    BY <2>1, <2>2, <2>3, <2>4 DEF TNext
<1>3. RoutingInv => LeastModelsForLeastWork
  <2> SUFFICES ASSUME RoutingInv, route # <<>> PROVE LeastModelsForLeastWork
    BY DEF LeastModelsForLeastWork
  <2>1. PICK a \in Requests : asked = <<a>> /\ route = getModelMapping(a)
    BY DEF RoutingInv
  <2>2. /\ route \in Seq(ALLOWED_MODEL_POOL)
        /\ \A j, k \in 1 .. Len(route) : route[j] = route[k] => j = k
        /\ Head(route) \in ToSet(Lite) =>
             \/ \E i \in DOMAIN alias : /\ alias[i] \in ToSet(Lite)
                                        /\ \A j \in 1 .. i - 1 : alias[j] \notin ALLOWED_MODEL_POOL
             \/ a.text \in {"none", "greeting", "word"}
             \/ a.topics \cap {"health", "compaction", "web"} # {}
             \/ a.text = "go on" /\ ~hasActiveAgentContext(a)
    BY <2>1, MappingFits DEF RoutingInv
  <2>3. ToSet(route) \subseteq ALLOWED_MODEL_POOL /\ Cardinality(ToSet(route)) = Len(route)
    <3>1. ExistsBijection(1 .. Len(route), ToSet(route)) /\ Len(route) \in Nat
      <4>1. Len(route) \in Nat /\ DOMAIN route = 1 .. Len(route) /\ route \in [1 .. Len(route) -> ToSet(route)]
        <5>1. route \in Seq(ALLOWED_MODEL_POOL)
          BY <2>2
        <5> QED
          BY <5>1 DEF ToSet
      <4>2. route \in Injection(1 .. Len(route), ToSet(route))
        BY <2>2, <4>1 DEF Injection, IsInjective
      <4>3. route \in Surjection(1 .. Len(route), ToSet(route))
        BY <4>1 DEF Surjection, ToSet
      <4> QED
        BY <4>1, <4>2, <4>3 DEF ExistsBijection, Bijection
    <3>2. IsFiniteSet(1 .. Len(route)) /\ Cardinality(1 .. Len(route)) = Len(route)
      <4>1. \A n \in Nat : IsFiniteSet(1 .. n) /\ Cardinality(1 .. n) = n
        BY FS_Interval
      <4> QED
        BY <3>1, <4>1
    <3>3. Cardinality(ToSet(route)) = Len(route)
      BY <3>1, <3>2, FS_Bijection
    <3>4. ToSet(route) \subseteq ALLOWED_MODEL_POOL
      <4>1. route \in Seq(ALLOWED_MODEL_POOL)
        BY <2>2
      <4> QED
        BY <4>1 DEF ToSet
    <3> QED
      BY <3>3, <3>4
  <2>4. Head(asked) = a
    BY <2>1
  <2> QED
    BY <2>2, <2>3, <2>4 DEF LeastModelsForLeastWork
<1> QED
  BY <1>1, <1>2, <1>3, PTL DEF TSpec
===============================================================================
