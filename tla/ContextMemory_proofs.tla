------------------------- MODULE ContextMemory_proofs -------------------------
(***************************************************************************)
(* Proofs about ContextMemory, for any terminals, workspaces, slots and    *)
(* ids, and any number of requests.                                        *)
(*                                                                         *)
(* MemoryStaysInWorkspace rests on Owned: whatever way a request came to   *)
(* its id, the id is one of its workspace's own, and so is what is stored  *)
(* under it, by each who stored it; and on Judged: who was approved under  *)
(* a binding still is of the workspace it names.  OneCompactionAtATime     *)
(* rests on Ranked: those that asked to compact one conversation can be    *)
(* put in a line in which everyone is directly behind the one whose gate   *)
(* it awaits, and the queue names the last.                                *)
(***************************************************************************)
EXTENDS ContextMemory, FiniteSetTheorems, TLAPS

Spaces == Workspaces \cup {Unknown}
States == [workspace_root : Spaces, from : SUBSET Spaces]
Verdicts == {"CLEAR_RESET", "NULL_WORKSPACE", "WORKSPACE_MISMATCH", "BINDING_MISMATCH", "APPROVED",
             "FRESH_SESSION", "LOW_CONTINUITY"}
Sights == [emergency : Spaces \cup {NoId}, summary : Spaces \cup {NoId}, operational : SUBSET Spaces]

ContextTypes ==
    /\ cast \in Casts
    /\ lastId \in [Workspaces -> Ids \cup {NoId}]
    /\ nonce \in [Slots -> Nat] /\ nonces \in Nat
    /\ emergency \in [Ids -> [from : Spaces \cup {NoId},
                              compactionCount : 0 .. MAX_EMERGENCY_COMPACTIONS]]
    /\ summary \in [SummaryKeys -> Spaces \cup {NoId}]
    /\ queue \in [Ids -> Terminals \cup {Nobody}]
    /\ behind \in [Terminals -> Terminals \cup {Nobody}]
    /\ at \in [Terminals -> Steps] /\ turn \in [Terminals -> Nat]
    /\ id \in [Terminals -> Ids \cup {NoId}]
    /\ count \in [Terminals -> 0 .. MAX_EMERGENCY_COMPACTIONS]
    /\ binding \in [Ids -> Spaces \cup {NoId}]
    /\ opstate \in [Ids -> States] /\ updated \in [Terminals -> States]
    /\ verdict \in [Terminals -> [says : Verdicts, binds : BOOLEAN]]
    /\ seen \in [Terminals -> Sights]

\* A compaction that goes on was one of the two that are enough.
OneLeft == \A t \in Terminals : at[t] = "summarize" => count[t] < MAX_EMERGENCY_COMPACTIONS

\* Those that may still make a nonce: each makes one at most.
Nonceless == {t \in Terminals : at[t] = "nonce" \/ nonce[Slot(t)] = 0}

NoncesBounded ==
    /\ nonces + Cardinality(Nonceless) <= Cardinality(Terminals)
    /\ \A x \in Slots : nonce[x] <= nonces

\* The ids the terminals of a workspace name, and those made for it.
OwnIds(w) ==
    {i \in ExplicitIds : \E u \in Terminals : ExplicitId(u) = i /\ Workspace(u) = w}
    \cup {deriveHardSessionId(w, n) : n \in 0 .. Cardinality(Terminals)}

HasId(t) == at[t] \notin {"idle", "identify", "nonce"}

Owned ==
    /\ \A t \in Terminals : HasId(t) =>
          /\ id[t] \in OwnIds(Workspace(t))
          /\ ExplicitId(t) # NoId => id[t] = ExplicitId(t)
    /\ \A t \in Terminals : at[t] = "nonce" => ExplicitId(t) = NoId
    /\ \A t \in Terminals : at[t] = "save" => \A w \in updated[t].from : id[t] \in OwnIds(w)
    /\ \A c \in Ids : \A w \in opstate[c].from : c \in OwnIds(w)
    /\ \A w \in Workspaces : lastId[w] # NoId => lastId[w] \in OwnIds(w)
    /\ \A c \in Ids : emergency[c].from # NoId => c \in OwnIds(emergency[c].from)
    /\ \A k \in SummaryKeys : summary[k] # NoId =>
          \E u \in Terminals : SummaryKey(u) = k /\ Workspace(u) = summary[k]

\* Who was approved under a binding.
Judged ==
    \A t \in Terminals :
        at[t] \in {"clean", "hydrate", "compact", "operate", "save"}
        /\ verdict[t].says = "APPROVED" /\ ~verdict[t].binds =>
            binding[id[t]] # NoId /\ (Workspace(t) = Unknown \/ binding[id[t]] \in {Workspace(t), Unknown})

Viewing(t) == at[t] \in {"compact", "operate", "save"}

\* What a request was told was stored under its id and its key.
View(t) ==
    /\ ~Viewing(t) => seen[t] = Unseen
    /\ seen[t].emergency # NoId => verdict[t].says = "APPROVED" /\ id[t] \in OwnIds(seen[t].emergency)
    /\ seen[t].summary # NoId =>
          /\ verdict[t].says = "APPROVED"
          /\ \E u \in Terminals : SummaryKey(u) = SummaryKey(t) /\ Workspace(u) = seen[t].summary
    /\ \A w \in seen[t].operational : id[t] \in OwnIds(w)

Views == Judged /\ \A t \in Terminals : View(t)

InLock(t) == at[t] \in {"await", "summarize", "leave"}

\* Those that asked to compact the conversation and have not left.
Line(c) == {t \in Terminals : InLock(t) /\ id[t] = c}

\* The line is that of the ranks: the queue names the last, who awaits nobody is
\* the first, and nobody is between any other and the one it awaits.
RankedLine(c, rank) ==
    /\ queue[c] = Nobody => Line(c) = {}
    /\ queue[c] # Nobody =>
          queue[c] \in Line(c) /\ \A v \in Line(c) \ {queue[c]} : rank[v] < rank[queue[c]]
    /\ \A u \in Line(c) : behind[u] = Nobody => \A v \in Line(c) \ {u} : rank[u] < rank[v]
    /\ \A u \in Line(c) : behind[u] # Nobody =>
          /\ behind[u] \in Line(c) /\ rank[behind[u]] < rank[u]
          /\ \A v \in Line(c) \ {u} : rank[v] <= rank[behind[u]] \/ rank[u] < rank[v]

Ranked ==
    /\ \E rank \in [Terminals -> Nat] : \A c \in Ids : RankedLine(c, rank)
    /\ \A t \in Terminals : behind[t] # Nobody => at[t] = "await"

CInv == ContextTypes /\ OneLeft /\ NoncesBounded /\ Owned /\ Views /\ Ranked

-----------------------------------------------------------------------------
LEMMA CastKnown ==
    ASSUME cast \in Casts, NEW t \in Terminals
    PROVE  /\ Workspace(t) \in Spaces /\ Slot(t) \in Slots
           /\ ExplicitId(t) \in ExplicitIds \cup {NoId} /\ SummaryKey(t) \in SummaryKeys
<1>1. cast \in [Terminals -> [workspace : Workspaces \cup {Unknown}, slot : Slots,
                              id : ExplicitIds \cup {NoId}]]
  BY ContextAssumption
<1> QED
  BY <1>1 DEF Workspace, Slot, ExplicitId, SummaryKey, SummaryKeys, Spaces

LEMMA OwnIdsKnown ==
    ASSUME NEW w \in Spaces
    PROVE  OwnIds(w) \subseteq Ids
  BY DEF OwnIds, Ids, Spaces

LEMMA OwnIdsApart ==
    ASSUME NEW w \in Spaces, NEW v \in Spaces, NEW c \in OwnIds(w) \cap OwnIds(v), ~Shared(c)
    PROVE  w = v
<1>1. CASE c \in ExplicitIds
  <2>1. \A n \in 0 .. Cardinality(Terminals) :
           deriveHardSessionId(w, n) # c /\ deriveHardSessionId(v, n) # c
    BY <1>1, IdAssumption DEF Spaces
  <2>2. PICK t \in Terminals : ExplicitId(t) = c /\ Workspace(t) = w
    BY <2>1 DEF OwnIds
  <2>3. PICK u \in Terminals : ExplicitId(u) = c /\ Workspace(u) = v
    BY <2>1 DEF OwnIds
  <2> QED
    BY <1>1, <2>2, <2>3, ContextAssumption DEF Shared
<1>2. CASE c \notin ExplicitIds
  <2>1. PICK n \in 0 .. Cardinality(Terminals) : c = deriveHardSessionId(w, n)
    BY <1>2 DEF OwnIds
  <2>2. PICK m \in 0 .. Cardinality(Terminals) : c = deriveHardSessionId(v, m)
    BY <1>2 DEF OwnIds
  <2>3. c.workspace = w /\ c.workspace = v
    BY <2>1, <2>2 DEF deriveHardSessionId
  <2> QED
    BY <2>3
<1> QED
  BY <1>1, <1>2

LEMMA SmallerNonceless ==
    ASSUME NEW S \in SUBSET Terminals, NEW T \in SUBSET S
    PROVE  /\ Cardinality(S) \in Nat /\ Cardinality(T) \in Nat /\ Cardinality(T) <= Cardinality(S)
           /\ S # T => Cardinality(T) < Cardinality(S)
           /\ Cardinality(Terminals) \in Nat /\ Cardinality(S) <= Cardinality(Terminals)
<1>1. IsFiniteSet(S) /\ IsFiniteSet(Terminals)
  BY ContextAssumption, FS_Subset
<1> QED
  BY <1>1, FS_Subset, FS_CardinalityType

-----------------------------------------------------------------------------
LEMMA ContextStart == Init => CInv
<1> SUFFICES ASSUME Init PROVE CInv
  OBVIOUS
<1>1. ContextTypes
  BY DEF Init, ContextTypes, Nothing, Unseen, MAX_EMERGENCY_COMPACTIONS, Steps, Nobody, NoState, States,
         Sights, Spaces, NoVerdict, Verdicts
<1>2. OneLeft
  BY DEF Init, OneLeft
<1>3. NoncesBounded
  <2>1. Nonceless \in SUBSET Terminals
    BY DEF Nonceless
  <2> QED
    BY <2>1, SmallerNonceless DEF Init, NoncesBounded
<1>4. Owned
  BY DEF Init, Owned, HasId, Nothing, NoState
<1>v. Views
  BY DEF Init, Views, Judged, View, Viewing, Unseen
<1>5. Ranked
  <2>1. \A c \in Ids : Line(c) = {} /\ queue[c] = Nobody
    BY DEF Init, Line, InLock
  <2>2. [t \in Terminals |-> 0] \in [Terminals -> Nat]
    OBVIOUS
  <2> QED
    BY <2>1, <2>2 DEF Init, Ranked, RankedLine
<1> QED
  BY <1>1, <1>2, <1>3, <1>4, <1>5, <1>v DEF CInv

\* A step without the lock: the lines are what they were.
LEMMA LinesUntouched ==
    ASSUME CInv, UNCHANGED lock,
           \A t \in Terminals : /\ InLock(t)' <=> InLock(t)
                                /\ InLock(t) => id'[t] = id[t]
                                /\ at[t] = "await" /\ behind[t] # Nobody => at'[t] = "await"
    PROVE  Ranked'
<1>1. \A c \in Ids : Line(c)' = Line(c)
  BY DEF Line
<1>2. PICK rank \in [Terminals -> Nat] : \A c \in Ids : RankedLine(c, rank)
  BY DEF CInv, Ranked
<1>3. \A c \in Ids : RankedLine(c, rank)'
  BY <1>1, <1>2 DEF RankedLine, lock
<1>4. \A t \in Terminals : behind'[t] # Nobody => at'[t] = "await"
  BY DEF CInv, Ranked, lock
<1> QED
  BY <1>3, <1>4 DEF Ranked

\* A step that makes no nonce.
LEMMA NoNonceMade ==
    ASSUME CInv, UNCHANGED <<cast, nonce, nonces>>,
           \A t \in Terminals : at'[t] = "nonce" => at[t] = "nonce" \/ nonce[Slot(t)] = 0
    PROVE  NoncesBounded'
<1>1. Nonceless' \in SUBSET Nonceless /\ Nonceless \in SUBSET Terminals
  BY DEF Nonceless, Slot
<1>2. /\ Cardinality(Nonceless) \in Nat /\ Cardinality(Nonceless') \in Nat
      /\ Cardinality(Nonceless') <= Cardinality(Nonceless) /\ Cardinality(Terminals) \in Nat
  BY <1>1, SmallerNonceless
<1> QED
  BY <1>2 DEF CInv, ContextTypes, NoncesBounded

\* A step that tells nothing, judges nothing and binds nothing.
LEMMA ViewsUntouched ==
    ASSUME CInv, UNCHANGED <<cast, seen, verdict, binding>>,
           \A t \in Terminals :
              /\ Viewing(t) => Viewing(t)' /\ id'[t] = id[t]
              /\ at'[t] \in {"clean", "hydrate", "compact", "operate", "save"} =>
                    at[t] \in {"clean", "hydrate", "compact", "operate", "save"} /\ id'[t] = id[t]
    PROVE  Views'
<1>1. Judged'
  BY DEF CInv, Views, Judged, Workspace
<1>2. ASSUME NEW t \in Terminals PROVE View(t)'
  <2>1. View(t)
    BY DEF CInv, Views
  <2>2. CASE Viewing(t)
    BY <2>1, <2>2 DEF View, OwnIds, Workspace, ExplicitId, SummaryKey, Slot
  <2>3. CASE ~Viewing(t)
    <3>1. seen'[t] = Unseen
      BY <2>1, <2>3 DEF View
    <3> QED
      BY <3>1 DEF View, Unseen
  <2> QED
    BY <2>2, <2>3
<1> QED
  BY <1>1, <1>2 DEF Views

-----------------------------------------------------------------------------
(* The client, and the id its request gets.                                *)

LEMMA SendStep ==
    ASSUME CInv, NEW t \in Terminals, Send(t)
    PROVE  CInv'
<1> USE DEF CInv
<1>0. at[t] = "idle" /\ Goes(t, "identify") /\ turn' = [turn EXCEPT ![t] = @ + 1]
      /\ UNCHANGED <<redis, lock, id, verdict, updated, count, seen>>
  BY DEF Send
<1>1. ContextTypes'
  BY <1>0 DEF ContextTypes, Goes, redis, lock, Steps
<1>2. OneLeft'
  BY <1>0 DEF ContextTypes, OneLeft, Goes
<1>3. NoncesBounded'
  BY <1>0, NoNonceMade DEF Goes, redis, ContextTypes
<1>4. Owned'
  BY <1>0 DEF Owned, HasId, Goes, redis, ContextTypes, OwnIds, Workspace, ExplicitId, SummaryKey, Slot
<1>5. Ranked'
  BY <1>0, LinesUntouched DEF InLock, Goes, ContextTypes
<1>v. Views'
  BY <1>0, ViewsUntouched DEF Viewing, Goes, redis, ContextTypes
<1> QED
  BY <1>1, <1>2, <1>3, <1>4, <1>5, <1>v

LEMMA IdentifyStep ==
    ASSUME CInv, NEW t \in Terminals, Identify(t)
    PROVE  CInv'
<1> USE DEF CInv
<1>0. at[t] = "identify" /\ UNCHANGED <<redis, lock, turn, kind, verdict, updated, count, seen>>
  BY DEF Identify
<1>a. /\ Workspace(t) \in Spaces /\ Slot(t) \in Slots
      /\ ExplicitId(t) \in ExplicitIds \cup {NoId}
  BY CastKnown DEF ContextTypes
<1>b. \/ Goes(t, "nonce") /\ id' = id /\ nonce[Slot(t)] = 0 /\ ExplicitId(t) = NoId
      \/ \E i \in OwnIds(Workspace(t)) :
            (ExplicitId(t) # NoId => i = ExplicitId(t)) /\ Identified(t, i)
  <2>1. CASE ExplicitId(t) # NoId
    <3>1. ExplicitId(t) \in OwnIds(Workspace(t))
      BY <1>a, <2>1 DEF OwnIds
    <3> QED
      BY <2>1, <3>1 DEF Identify
  <2>2. CASE ExplicitId(t) = NoId /\ Workspace(t) # Unknown /\ lastId[Workspace(t)] # NoId
    <3>1. lastId[Workspace(t)] \in OwnIds(Workspace(t))
      BY <1>a, <2>2 DEF Owned, Spaces
    <3> QED
      BY <2>2, <3>1 DEF Identify
  <2>3. CASE ExplicitId(t) = NoId /\ ~(Workspace(t) # Unknown /\ lastId[Workspace(t)] # NoId)
             /\ nonce[Slot(t)] # 0
    <3>1. nonces \in 0 .. Cardinality(Terminals)
      <4>1. Nonceless \in SUBSET Terminals
        BY DEF Nonceless
      <4> QED
        BY <4>1, SmallerNonceless DEF NoncesBounded, ContextTypes
    <3>2. nonce[Slot(t)] \in Nat /\ nonce[Slot(t)] <= nonces
      BY <1>a DEF NoncesBounded, ContextTypes
    <3>3. deriveHardSessionId(Workspace(t), nonce[Slot(t)]) \in OwnIds(Workspace(t))
      <4>1. Cardinality(Terminals) \in Nat
        BY ContextAssumption, FS_CardinalityType
      <4>2. nonce[Slot(t)] \in 0 .. Cardinality(Terminals)
        BY <3>1, <3>2, <4>1
      <4> QED
        BY <4>2 DEF OwnIds
    <3> QED
      BY <2>3, <3>3 DEF Identify
  <2> QED
    BY <2>1, <2>2, <2>3 DEF Identify
<1>c. \/ at' = [at EXCEPT ![t] = "nonce"] /\ id' = id /\ nonce[Slot(t)] = 0 /\ ExplicitId(t) = NoId
      \/ \E i \in OwnIds(Workspace(t)) :
            /\ ExplicitId(t) # NoId => i = ExplicitId(t)
            /\ at' = [at EXCEPT ![t] = "bind"] /\ id' = [id EXCEPT ![t] = i]
  BY <1>b DEF Identified, Goes
<1>d. OwnIds(Workspace(t)) \subseteq Ids
  BY <1>a, OwnIdsKnown
<1>1. ContextTypes'
  BY <1>0, <1>c, <1>d DEF ContextTypes, redis, lock, Steps
<1>2. OneLeft'
  BY <1>0, <1>c DEF ContextTypes, OneLeft
<1>3. NoncesBounded'
  BY <1>0, <1>c, NoNonceMade DEF redis, ContextTypes
<1>4. Owned'
  <2>1. \A u \in Terminals : HasId(u)' =>
           id'[u] \in OwnIds(Workspace(u)) /\ (ExplicitId(u) # NoId => id'[u] = ExplicitId(u))
    BY <1>0, <1>c DEF Owned, HasId, ContextTypes
  <2>2. \A u \in Terminals :
           /\ at'[u] = "save" => at[u] = "save" /\ id'[u] = id[u]
           /\ at'[u] = "nonce" => ExplicitId(u) = NoId
    BY <1>0, <1>c DEF ContextTypes, Owned
  <2> QED
    BY <1>0, <2>1, <2>2 DEF Owned, redis, OwnIds, Workspace, ExplicitId, SummaryKey, Slot
<1>5. Ranked'
  BY <1>0, <1>c, LinesUntouched DEF InLock, ContextTypes
<1>v. Views'
  BY <1>0, <1>c, ViewsUntouched DEF Viewing, Goes, redis, ContextTypes
<1> QED
  BY <1>1, <1>2, <1>3, <1>4, <1>5, <1>v

LEMMA MakeNonceStep ==
    ASSUME CInv, NEW t \in Terminals, MakeNonce(t)
    PROVE  CInv'
<1> USE DEF CInv
<1>0. /\ at[t] = "nonce" /\ nonces' = nonces + 1 /\ nonce' = [nonce EXCEPT ![Slot(t)] = nonces + 1]
      /\ at' = [at EXCEPT ![t] = "bind"]
      /\ id' = [id EXCEPT ![t] = deriveHardSessionId(Workspace(t), nonces + 1)]
      /\ UNCHANGED <<cast, lastId, binding, root, emergency, opstate, summary, lock, turn, kind, verdict, updated,
                     count, seen>>
  BY DEF MakeNonce, Identified, Goes
<1>a. Workspace(t) \in Spaces /\ Slot(t) \in Slots
  BY CastKnown DEF ContextTypes
<1>b. /\ Nonceless' \in SUBSET Nonceless /\ t \in Nonceless \ Nonceless'
      /\ Nonceless \in SUBSET Terminals
  BY <1>0, <1>a DEF Nonceless, Slot, ContextTypes
<1>c. /\ Cardinality(Nonceless) \in Nat /\ Cardinality(Nonceless') \in Nat
      /\ Cardinality(Nonceless') < Cardinality(Nonceless) /\ Cardinality(Terminals) \in Nat
  BY <1>b, SmallerNonceless
<1>d. nonces' \in Nat /\ nonces' + Cardinality(Nonceless') <= Cardinality(Terminals)
  BY <1>0, <1>c DEF NoncesBounded, ContextTypes
<1>e. deriveHardSessionId(Workspace(t), nonces + 1) \in OwnIds(Workspace(t))
  BY <1>0, <1>c, <1>d DEF OwnIds
<1>f. OwnIds(Workspace(t)) \subseteq Ids
  BY <1>a, OwnIdsKnown
<1>1. ContextTypes'
  BY <1>0, <1>d, <1>e, <1>f DEF ContextTypes, lock, Steps
<1>2. OneLeft'
  BY <1>0 DEF ContextTypes, OneLeft
<1>3. NoncesBounded'
  <2>1. \A x \in Slots : nonce'[x] <= nonces'
    BY <1>0, <1>a DEF NoncesBounded, ContextTypes
  <2> QED
    BY <1>d, <2>1 DEF NoncesBounded
<1>4. Owned'
  <2>1. \A u \in Terminals : HasId(u)' =>
           id'[u] \in OwnIds(Workspace(u)) /\ (ExplicitId(u) # NoId => id'[u] = ExplicitId(u))
    BY <1>0, <1>e DEF Owned, HasId, ContextTypes
  <2>2. \A u \in Terminals :
           /\ at'[u] = "save" => at[u] = "save" /\ id'[u] = id[u]
           /\ at'[u] = "nonce" => at[u] = "nonce"
    BY <1>0 DEF ContextTypes
  <2> QED
    BY <1>0, <2>1, <2>2 DEF Owned, OwnIds, Workspace, ExplicitId, SummaryKey, Slot
<1>5. Ranked'
  BY <1>0, LinesUntouched DEF InLock, ContextTypes
<1>v. Views'
  BY <1>0, ViewsUntouched DEF Viewing, Goes, redis, ContextTypes
<1> QED
  BY <1>1, <1>2, <1>3, <1>4, <1>5, <1>v

-----------------------------------------------------------------------------
(* The guard, and what is stored.                                          *)

LEMMA VerdictKnown ==
    ASSUME NEW t \in Terminals, NEW stored, NEW explicit, NEW bound
    PROVE  evaluateHydration(t, stored, explicit, bound) \in Verdicts
  BY DEF evaluateHydration, Verdicts

LEMMA JudgeStep ==
    ASSUME CInv, NEW t \in Terminals, Judge(t)
    PROVE  CInv'
<1> USE DEF CInv
<1>0. /\ at[t] = "bind" /\ at' = [at EXCEPT ![t] = "clean"]
      /\ verdict' = [verdict EXCEPT ![t] =
            [says  |-> evaluateHydration(t, storedWorkspaceRoot(id[t]), ExplicitId(t) # NoId, validateBinding(t)),
             binds |-> validateBinding(t) = "new"]]
      /\ UNCHANGED <<redis, lock, turn, kind, id, updated, count, seen>>
  BY DEF Judge, Goes
<1>1. ContextTypes'
  BY <1>0, VerdictKnown DEF ContextTypes, redis, lock, Steps
<1>2. OneLeft'
  BY <1>0 DEF ContextTypes, OneLeft
<1>3. NoncesBounded'
  BY <1>0, NoNonceMade DEF redis, ContextTypes
<1>4. Owned'
  BY <1>0 DEF Owned, HasId, redis, ContextTypes, OwnIds, Workspace, ExplicitId, SummaryKey, Slot
<1>5. Ranked'
  BY <1>0, LinesUntouched DEF InLock, ContextTypes
<1>v. Views'
  <2>1. verdict'[t].says = "APPROVED" /\ ~verdict'[t].binds =>
           binding[id[t]] # NoId /\ (Workspace(t) = Unknown \/ binding[id[t]] \in {Workspace(t), Unknown})
    BY <1>0 DEF ContextTypes, evaluateHydration, validateBinding
  <2>2. Judged'
    BY <1>0, <2>1 DEF Views, Judged, ContextTypes, redis, Workspace
  <2>3. \A u \in Terminals : View(u)'
    <3> SUFFICES ASSUME NEW u \in Terminals PROVE View(u)'
      OBVIOUS
    <3>1. View(u) /\ (u = t => seen[u] = Unseen)
      BY <1>0 DEF Views, View, Viewing
    <3>2. CASE u = t
      BY <1>0, <3>1, <3>2 DEF View, Unseen
    <3>3. CASE u # t
      BY <1>0, <3>1, <3>3 DEF View, Viewing, ContextTypes, redis, OwnIds, Workspace, ExplicitId, SummaryKey, Slot
    <3> QED
      BY <3>2, <3>3
  <2> QED
    BY <2>2, <2>3 DEF Views
<1> QED
  BY <1>1, <1>2, <1>3, <1>4, <1>5, <1>v

LEMMA CleanStep ==
    ASSUME CInv, NEW t \in Terminals, Clean(t)
    PROVE  CInv'
<1> USE DEF CInv
<1>0. /\ at[t] = "clean" /\ at' = [at EXCEPT ![t] = "hydrate"]
      /\ emergency' = [emergency EXCEPT ![id[t]] = Nothing] \/ emergency' = emergency
      /\ summary' = [summary EXCEPT ![SummaryKey(t)] = NoId] \/ summary' = summary
      /\ opstate' = [opstate EXCEPT ![id[t]] = NoState] \/ opstate' = opstate
      /\ \/ binding' = binding
         \/ binding[id[t]] = NoId /\ binding' = [binding EXCEPT ![id[t]] = Workspace(t)]
      /\ UNCHANGED <<cast, lastId, nonce, nonces, lock, turn, kind, id, verdict, updated, count, seen>>
  BY DEF Clean, Goes
<1>1. ContextTypes'
  <2>1. emergency' \in [Ids -> [from : Spaces \cup {NoId},
                                compactionCount : 0 .. MAX_EMERGENCY_COMPACTIONS]]
    BY <1>0 DEF ContextTypes, Nothing, MAX_EMERGENCY_COMPACTIONS
  <2>2. summary' \in [SummaryKeys -> Spaces \cup {NoId}]
    BY <1>0 DEF ContextTypes
  <2>3. opstate' \in [Ids -> States]
    <3>1. NoState \in States
      BY DEF NoState, States, Spaces
    <3> QED
      BY <1>0, <3>1 DEF ContextTypes
  <2>4. binding' \in [Ids -> Spaces \cup {NoId}]
    BY <1>0, CastKnown DEF ContextTypes
  <2> QED
    BY <1>0, <2>1, <2>2, <2>3, <2>4 DEF ContextTypes, lock, Steps
<1>2. OneLeft'
  BY <1>0 DEF ContextTypes, OneLeft
<1>3. NoncesBounded'
  BY <1>0, NoNonceMade DEF ContextTypes
<1>4. Owned'
  <2>1. \A c \in Ids : emergency'[c].from # NoId => emergency'[c] = emergency[c]
    BY <1>0 DEF ContextTypes, Nothing
  <2>2. \A k \in SummaryKeys : summary'[k] # NoId => summary'[k] = summary[k]
    BY <1>0 DEF ContextTypes
  <2>3. \A u \in Terminals :
           /\ HasId(u)' => id'[u] \in OwnIds(Workspace(u)) /\ (ExplicitId(u) # NoId => id'[u] = ExplicitId(u))
           /\ at'[u] = "save" => at[u] = "save"
           /\ at'[u] = "nonce" => at[u] = "nonce"
    BY <1>0 DEF ContextTypes, Owned, HasId
  <2>5. \A c \in Ids : opstate'[c].from # {} => opstate'[c] = opstate[c]
    BY <1>0 DEF ContextTypes, NoState
  <2>6. \A c \in Ids : \A w \in opstate'[c].from : c \in OwnIds(w)
    BY <2>5 DEF Owned
  <2>4. \A c \in Ids : emergency'[c].from # NoId => c \in OwnIds(emergency'[c].from)
    BY <2>1 DEF Owned
  <2> QED
    BY <1>0, <2>2, <2>3, <2>4, <2>6 DEF Owned, OwnIds, Workspace, ExplicitId, SummaryKey, Slot
<1>5. Ranked'
  BY <1>0, LinesUntouched DEF InLock, ContextTypes
<1>v. Views'
  <2>1. \A c \in Ids : binding[c] # NoId => binding'[c] = binding[c]
    BY <1>0 DEF ContextTypes
  <2>2. Judged'
    <3> SUFFICES ASSUME NEW u \in Terminals, verdict[u].says = "APPROVED", ~verdict[u].binds,
                        at'[u] \in {"clean", "hydrate", "compact", "operate", "save"}
                 PROVE  binding'[id[u]] # NoId
                        /\ (Workspace(u) = Unknown \/ binding'[id[u]] \in {Workspace(u), Unknown})
      BY <1>0 DEF Judged, Workspace
    <3>1. at[u] \in {"clean", "hydrate", "compact", "operate", "save"}
      BY <1>0 DEF ContextTypes
    <3>2. id[u] \in OwnIds(Workspace(u))
      BY <3>1 DEF Owned, HasId
    <3>3. id[u] \in Ids
      BY <3>2, CastKnown, OwnIdsKnown DEF ContextTypes
    <3> QED
      BY <2>1, <3>1, <3>3 DEF Views, Judged
  <2>3. \A u \in Terminals : View(u)'
    BY <1>0 DEF Views, View, Viewing, ContextTypes, OwnIds, Workspace, ExplicitId, SummaryKey, Slot
  <2> QED
    BY <2>2, <2>3 DEF Views
<1> QED
  BY <1>1, <1>2, <1>3, <1>4, <1>5, <1>v

LEMMA HydrateStep ==
    ASSUME CInv, NEW t \in Terminals, Hydrate(t)
    PROVE  CInv'
<1> USE DEF CInv
<1>0. /\ at[t] = "hydrate" /\ at' = [at EXCEPT ![t] = "compact"]
      /\ \/ seen' = seen
         \/ /\ verdict[t].says = "APPROVED"
            /\ seen' = [seen EXCEPT ![t].emergency = emergency[id[t]].from, ![t].summary = summary[SummaryKey(t)]]
      /\ UNCHANGED <<redis, lock, turn, kind, id, verdict, updated, count>>
  BY DEF Hydrate, Goes
<1>a. id[t] \in Ids /\ SummaryKey(t) \in SummaryKeys
  <2>1. id[t] \in OwnIds(Workspace(t))
    BY <1>0 DEF Owned, HasId
  <2> QED
    BY <2>1, CastKnown, OwnIdsKnown DEF ContextTypes
<1>1. ContextTypes'
  <2>1. seen' \in [Terminals -> Sights]
    <3> DEFINE sight == [seen[t] EXCEPT !.emergency = emergency[id[t]].from, !.summary = summary[SummaryKey(t)]]
    <3>1. sight \in Sights
      BY <1>a DEF ContextTypes, Sights
    <3>2. seen' = seen \/ seen' = [seen EXCEPT ![t] = sight]
      BY <1>0 DEF ContextTypes, Sights
    <3> HIDE DEF sight
    <3> QED
      BY <3>1, <3>2 DEF ContextTypes
  <2> QED
    BY <1>0, <2>1 DEF ContextTypes, redis, lock, Steps
<1>2. OneLeft'
  BY <1>0 DEF ContextTypes, OneLeft
<1>3. NoncesBounded'
  BY <1>0, NoNonceMade DEF redis, ContextTypes
<1>4. Owned'
  BY <1>0 DEF Owned, HasId, redis, ContextTypes, OwnIds, Workspace, ExplicitId, SummaryKey, Slot
<1>5. Ranked'
  BY <1>0, LinesUntouched DEF InLock, ContextTypes
<1>v. Views'
  <2>1. Judged'
    BY <1>0 DEF Views, Judged, ContextTypes, redis, Workspace
  <2>2. \A u \in Terminals : View(u)'
    <3> SUFFICES ASSUME NEW u \in Terminals PROVE View(u)'
      OBVIOUS
    <3>1. View(u)
      BY DEF Views
    <3>2. CASE seen'[u] = seen[u]
      BY <1>0, <3>1, <3>2 DEF View, Viewing, ContextTypes, redis, OwnIds, Workspace, ExplicitId, SummaryKey, Slot
    <3>3. CASE u = t /\ seen' # seen
      <4>1. /\ verdict[t].says = "APPROVED" /\ seen'[t].emergency = emergency[id[t]].from
            /\ seen'[t].summary = summary[SummaryKey(t)] /\ seen'[t].operational = seen[t].operational
        BY <1>0, <3>3 DEF ContextTypes, Sights
      <4>2. seen[t].operational = {}
        BY <1>0, <3>1, <3>3 DEF View, Viewing, Unseen
      <4>3. seen'[t].emergency # NoId => id[t] \in OwnIds(seen'[t].emergency)
        BY <1>a, <4>1 DEF Owned
      <4>4. seen'[t].summary # NoId =>
               \E v \in Terminals : SummaryKey(v) = SummaryKey(t) /\ Workspace(v) = seen'[t].summary
        BY <1>a, <4>1 DEF Owned
      <4>5. Viewing(t)'
        BY <1>0 DEF ContextTypes, Viewing
      <4> QED
        BY <1>0, <3>3, <4>1, <4>2, <4>3, <4>4, <4>5
           DEF View, redis, OwnIds, Workspace, ExplicitId, SummaryKey, Slot
    <3> QED
      BY <1>0, <3>2, <3>3 DEF ContextTypes
  <2> QED
    BY <2>1, <2>2 DEF Views
<1> QED
  BY <1>1, <1>2, <1>3, <1>4, <1>5, <1>v

LEMMA CompactStep ==
    ASSUME CInv, NEW t \in Terminals, Compact(t)
    PROVE  CInv'
<1> USE DEF CInv
<1>0. /\ at[t] = "compact" /\ at' = [at EXCEPT ![t] = "operate"]
      /\ summary' = [summary EXCEPT ![SummaryKey(t)] = Workspace(t)] \/ summary' = summary
      /\ \/ lastId' = lastId
         \/ Workspace(t) # Unknown /\ lastId' = [lastId EXCEPT ![Workspace(t)] = id[t]]
      /\ UNCHANGED <<cast, nonce, nonces, binding, emergency, opstate, lock, turn, kind, id, verdict, updated,
                     count, seen>>
  BY DEF Compact, Goes
<1>a. id[t] \in OwnIds(Workspace(t))
  BY <1>0 DEF Owned, HasId
<1>b. id[t] \in Ids /\ SummaryKey(t) \in SummaryKeys /\ Workspace(t) \in Spaces
  BY <1>a, CastKnown, OwnIdsKnown DEF ContextTypes
<1>1. ContextTypes'
  <2>2. summary' \in [SummaryKeys -> Spaces \cup {NoId}] /\ lastId' \in [Workspaces -> Ids \cup {NoId}]
    BY <1>0, <1>b DEF ContextTypes
  <2> QED
    BY <1>0, <2>2 DEF ContextTypes, lock, Steps
<1>2. OneLeft'
  BY <1>0 DEF ContextTypes, OneLeft
<1>3. NoncesBounded'
  BY <1>0, NoNonceMade DEF ContextTypes
<1>4. Owned'
  <2>1. \A k \in SummaryKeys : summary'[k] # NoId =>
           \E u \in Terminals : SummaryKey(u) = k /\ Workspace(u) = summary'[k]
    BY <1>0 DEF ContextTypes, Owned
  <2>2. \A w \in Workspaces : lastId'[w] # NoId => lastId'[w] \in OwnIds(w)
    BY <1>0, <1>a DEF ContextTypes, Owned
  <2>3. \A u \in Terminals :
           /\ HasId(u)' => id'[u] \in OwnIds(Workspace(u)) /\ (ExplicitId(u) # NoId => id'[u] = ExplicitId(u))
           /\ at'[u] = "save" => at[u] = "save"
           /\ at'[u] = "nonce" => at[u] = "nonce"
    BY <1>0 DEF ContextTypes, Owned, HasId
  <2> QED
    BY <1>0, <2>1, <2>2, <2>3 DEF Owned, OwnIds, Workspace, ExplicitId, SummaryKey, Slot
<1>5. Ranked'
  BY <1>0, LinesUntouched DEF InLock, ContextTypes
<1>v. Views'
  BY <1>0, ViewsUntouched DEF Viewing, Goes, redis, ContextTypes
<1> QED
  BY <1>1, <1>2, <1>3, <1>4, <1>5, <1>v

LEMMA OperateStep ==
    ASSUME CInv, NEW t \in Terminals, Operate(t)
    PROVE  CInv'
<1> USE DEF CInv
<1>p. PICK s \in States : /\ updated' = [updated EXCEPT ![t] = s]
                          /\ \A w \in s.from : id[t] \in OwnIds(w)
  <2>1. PICK found \in Spaces : updated' = [updated EXCEPT ![t] = updateStateFromMessages(opstate[id[t]], t, found)]
    BY DEF Operate, Spaces
  <2>2. id[t] \in OwnIds(Workspace(t)) /\ Workspace(t) \in Spaces
    BY CastKnown DEF Operate, Owned, HasId, ContextTypes
  <2>3. id[t] \in Ids
    BY <2>2, OwnIdsKnown
  <2>4. opstate[id[t]] \in States /\ \A w \in opstate[id[t]].from : id[t] \in OwnIds(w)
    BY <2>3 DEF ContextTypes, Owned
  <2>5. updateStateFromMessages(opstate[id[t]], t, found) \in States
    BY <2>1, <2>2, <2>4 DEF updateStateFromMessages, States
  <2>6. \A w \in updateStateFromMessages(opstate[id[t]], t, found).from : id[t] \in OwnIds(w)
    BY <2>2, <2>4 DEF updateStateFromMessages, States
  <2> QED
    BY <2>1, <2>5, <2>6
<1>0. /\ at[t] = "operate" /\ at' = [at EXCEPT ![t] = "save"] /\ updated'[t] = s
      /\ seen' = seen \/ seen' = [seen EXCEPT ![t].operational = s.from]
      /\ UNCHANGED <<redis, lock, turn, kind, id, verdict, count>>
  BY <1>p DEF Operate, Goes, ContextTypes
<1>1. ContextTypes'
  <2>1. seen' \in [Terminals -> Sights] /\ updated' \in [Terminals -> States]
    <3> DEFINE sight == [seen[t] EXCEPT !.operational = s.from]
    <3>1. sight \in Sights
      BY <1>p DEF ContextTypes, Sights, States
    <3>2. seen' = seen \/ seen' = [seen EXCEPT ![t] = sight]
      BY <1>0 DEF ContextTypes, Sights
    <3> HIDE DEF sight
    <3> QED
      BY <1>p, <3>1, <3>2 DEF ContextTypes
  <2> QED
    BY <1>0, <2>1 DEF ContextTypes, redis, lock, Steps
<1>2. OneLeft'
  BY <1>0 DEF ContextTypes, OneLeft
<1>3. NoncesBounded'
  BY <1>0, NoNonceMade DEF redis, ContextTypes
<1>4. Owned'
  <2>1. \A u \in Terminals : at'[u] = "save" => \A w \in updated'[u].from : id[u] \in OwnIds(w)
    BY <1>p, <1>0 DEF Owned, ContextTypes
  <2> QED
    BY <1>0, <2>1 DEF Owned, HasId, redis, ContextTypes, OwnIds, Workspace, ExplicitId, SummaryKey, Slot
<1>5. Ranked'
  BY <1>0, LinesUntouched DEF InLock, ContextTypes
<1>v. Views'
  <2>1. Judged'
    BY <1>0 DEF Views, Judged, ContextTypes, redis, Workspace
  <2>2. \A u \in Terminals : View(u)'
    <3> SUFFICES ASSUME NEW u \in Terminals PROVE View(u)'
      OBVIOUS
    <3>1. View(u)
      BY DEF Views
    <3>2. /\ seen'[u].emergency = seen[u].emergency /\ seen'[u].summary = seen[u].summary
          /\ \A w \in seen'[u].operational : id[u] \in OwnIds(w)
      <4>1. \A w \in seen[u].operational : id[u] \in OwnIds(w)
        BY <3>1 DEF View
      <4>2. CASE seen'[u] = seen[u]
        BY ONLY <4>1, <4>2
      <4>3. CASE seen'[u] # seen[u]
        <5>1. seen \in [Terminals -> Sights] /\ seen[u] \in Sights
          BY DEF ContextTypes
        <5>2. u = t /\ seen'[u] = [seen[u] EXCEPT !.operational = s.from]
          BY ONLY <1>0, <5>1, <4>3
        <5> QED
          BY ONLY <1>p, <5>1, <5>2 DEF Sights
      <4> QED
        BY <4>2, <4>3
    <3>3. ~Viewing(u)' => seen'[u] = Unseen
      BY <1>0, <3>1 DEF View, Viewing, ContextTypes
    <3>4. cast' = cast /\ id' = id /\ verdict' = verdict
      BY <1>0 DEF redis
    <3>5. seen'[u].emergency # NoId => verdict[u].says = "APPROVED" /\ id[u] \in OwnIds(seen[u].emergency)
      BY <3>1, <3>2 DEF View
    <3>6. seen'[u].summary # NoId =>
            /\ verdict[u].says = "APPROVED"
            /\ \E v \in Terminals : SummaryKey(v) = SummaryKey(u) /\ Workspace(v) = seen[u].summary
      BY <3>1, <3>2 DEF View
    <3> QED
      BY <3>2, <3>3, <3>4, <3>5, <3>6 DEF View, OwnIds, Workspace, ExplicitId, SummaryKey, Slot
  <2> QED
    BY <2>1, <2>2 DEF Views
<1> QED
  BY <1>1, <1>2, <1>3, <1>4, <1>5, <1>v

LEMMA SaveStateStep ==
    ASSUME CInv, NEW t \in Terminals, SaveState(t)
    PROVE  CInv'
<1> USE DEF CInv
<1>0. /\ at[t] = "save" /\ at' = [at EXCEPT ![t] = "call"]
      /\ opstate' = [opstate EXCEPT ![id[t]] = updated[t]] /\ updated' = [updated EXCEPT ![t] = NoState]
      /\ verdict' = [verdict EXCEPT ![t] = NoVerdict] /\ seen' = [seen EXCEPT ![t] = Unseen]
      /\ UNCHANGED <<cast, lastId, nonce, nonces, binding, root, emergency, summary, lock, turn, id, count>>
  BY DEF SaveState, Goes
<1>1. ContextTypes'
  <2>1. opstate' \in [Ids -> States] /\ updated' \in [Terminals -> States]
    BY <1>0 DEF ContextTypes, NoState, States, Spaces
  <2>2. verdict' \in [Terminals -> [says : Verdicts, binds : BOOLEAN]] /\ seen' \in [Terminals -> Sights]
    BY <1>0 DEF ContextTypes, NoVerdict, Verdicts, Unseen, Sights
  <2> QED
    BY <1>0, <2>1, <2>2 DEF ContextTypes, lock, Steps
<1>2. OneLeft'
  BY <1>0 DEF ContextTypes, OneLeft
<1>3. NoncesBounded'
  BY <1>0, NoNonceMade DEF ContextTypes
<1>4. Owned'
  <2>1. \A c \in Ids : \A w \in opstate'[c].from : c \in OwnIds(w)
    BY <1>0 DEF Owned, ContextTypes
  <2>2. \A u \in Terminals :
           /\ HasId(u)' => id'[u] \in OwnIds(Workspace(u)) /\ (ExplicitId(u) # NoId => id'[u] = ExplicitId(u))
           /\ at'[u] = "save" => at[u] = "save" /\ updated'[u] = updated[u]
           /\ at'[u] = "nonce" => at[u] = "nonce"
    BY <1>0 DEF ContextTypes, Owned, HasId
  <2> QED
    BY <1>0, <2>1, <2>2 DEF Owned, OwnIds, Workspace, ExplicitId, SummaryKey, Slot
<1>5. Ranked'
  BY <1>0, LinesUntouched DEF InLock, ContextTypes
<1>v. Views'
  <2>1. Judged'
    BY <1>0 DEF Views, Judged, ContextTypes, Workspace
  <2>2. \A u \in Terminals : View(u)'
    <3> SUFFICES ASSUME NEW u \in Terminals PROVE View(u)'
      OBVIOUS
    <3>1. View(u)
      BY DEF Views
    <3>2. CASE u = t
      BY <1>0, <3>2 DEF View, ContextTypes, Unseen
    <3>3. CASE u # t
      BY <1>0, <3>1, <3>3 DEF View, Viewing, ContextTypes, OwnIds, Workspace, ExplicitId, SummaryKey, Slot
    <3> QED
      BY <3>2, <3>3
  <2> QED
    BY <2>1, <2>2 DEF Views
<1> QED
  BY <1>1, <1>2, <1>3, <1>4, <1>5, <1>v

-----------------------------------------------------------------------------
(* Emergency compaction.                                                   *)

LEMMA AnsweredStep ==
    ASSUME CInv, NEW t \in Terminals, Answered(t)
    PROVE  CInv'
<1> USE DEF CInv
<1>0. /\ at[t] = "call" /\ at' = [at EXCEPT ![t] = "idle"] /\ id' = [id EXCEPT ![t] = NoId]
      /\ UNCHANGED <<redis, lock, turn, verdict, updated, count, seen>>
  BY DEF Answered, Goes
<1>1. ContextTypes'
  BY <1>0 DEF ContextTypes, redis, lock, Steps
<1>2. OneLeft'
  BY <1>0 DEF ContextTypes, OneLeft
<1>3. NoncesBounded'
  BY <1>0, NoNonceMade DEF redis, ContextTypes
<1>4. Owned'
  BY <1>0 DEF Owned, HasId, redis, ContextTypes, OwnIds, Workspace, ExplicitId, SummaryKey, Slot
<1>5. Ranked'
  BY <1>0, LinesUntouched DEF InLock, ContextTypes
<1>v. Views'
  BY <1>0, ViewsUntouched DEF Viewing, Goes, redis, ContextTypes
<1> QED
  BY <1>1, <1>2, <1>3, <1>4, <1>5, <1>v

\* Who asks goes to the end of the line.
LEMMA QueueStep ==
    ASSUME CInv, NEW t \in Terminals, Queue(t)
    PROVE  CInv'
<1> USE DEF CInv
<1>0. /\ at[t] = "call" /\ at' = [at EXCEPT ![t] = "await"]
      /\ behind' = [behind EXCEPT ![t] = queue[id[t]]] /\ queue' = [queue EXCEPT ![id[t]] = t]
      /\ UNCHANGED <<redis, turn, kind, id, verdict, updated, count, seen>>
  BY DEF Queue, Goes
<1>a. id[t] \in Ids
  <2>1. id[t] \in OwnIds(Workspace(t))
    BY <1>0 DEF Owned, HasId
  <2> QED
    BY <2>1, CastKnown, OwnIdsKnown DEF ContextTypes
<1>1. ContextTypes'
  <2>1. queue' \in [Ids -> Terminals \cup {Nobody}] /\ behind' \in [Terminals -> Terminals \cup {Nobody}]
    BY <1>0, <1>a DEF ContextTypes
  <2> QED
    BY <1>0, <2>1 DEF ContextTypes, redis, Steps
<1>2. OneLeft'
  BY <1>0 DEF ContextTypes, OneLeft
<1>3. NoncesBounded'
  BY <1>0, NoNonceMade DEF redis, ContextTypes
<1>4. Owned'
  BY <1>0 DEF Owned, HasId, redis, ContextTypes, OwnIds, Workspace, ExplicitId, SummaryKey, Slot
<1>5. Ranked'
  <2>1. PICK rank \in [Terminals -> Nat] : \A c \in Ids : RankedLine(c, rank)
    BY DEF Ranked
  <2> DEFINE last == queue[id[t]]
             place == IF last = Nobody THEN 0 ELSE rank[last] + 1
  <2>2. last \in Terminals \cup {Nobody} /\ place \in Nat /\ Nobody \notin Terminals
    BY <1>a, ContextAssumption DEF ContextTypes, Nobody
  <2>r. PICK rank2 \in [Terminals -> Nat] : rank2 = [rank EXCEPT ![t] = place]
    BY <2>2
  <2>3. /\ Line(id[t])' = Line(id[t]) \cup {t}
        /\ \A c \in Ids \ {id[t]} : Line(c)' = Line(c)
        /\ \A c \in Ids : t \notin Line(c) /\ Line(c) \subseteq Terminals
    BY <1>0 DEF Line, InLock, ContextTypes
  <2>4. \A c \in Ids \ {id[t]} : RankedLine(c, rank2)'
    <3> SUFFICES ASSUME NEW c \in Ids \ {id[t]} PROVE RankedLine(c, rank2)'
      OBVIOUS
    <3>1. /\ queue'[c] = queue[c] /\ Line(c)' = Line(c)
          /\ \A u \in Line(c) : u \in Terminals \ {t} /\ rank2[u] = rank[u] /\ behind'[u] = behind[u]
      BY <1>0, <1>a, <2>3, <2>r DEF ContextTypes
    <3>2. RankedLine(c, rank)
      BY <2>1
    <3> QED
      BY <3>1, <3>2 DEF RankedLine
  <2>5. RankedLine(id[t], rank2)'
    <3> DEFINE c == id[t]
    <3>1. /\ queue'[c] = t /\ Line(c)' = Line(c) \cup {t} /\ t # Nobody
          /\ rank2[t] = place /\ behind'[t] = last
          /\ \A u \in Line(c) : u \in Terminals \ {t} /\ rank2[u] = rank[u] /\ behind'[u] = behind[u]
      BY <1>0, <1>a, <2>2, <2>3, <2>r DEF ContextTypes
    <3>2. RankedLine(c, rank)
      BY <1>a, <2>1
    <3>3. \A u \in Line(c) : rank[u] \in Nat
      BY <3>1
    <3>4. last = Nobody => Line(c) = {}
      BY <3>2 DEF RankedLine
    <3>5. last # Nobody => /\ last \in Line(c) /\ place = rank[last] + 1
                           /\ \A v \in Line(c) \ {last} : rank[v] < rank[last]
      BY <3>2 DEF RankedLine
    <3>6. place \in Nat /\ \A u \in Line(c) : rank[u] < place
      BY <3>3, <3>4, <3>5
    <3>7. \A v \in Line(c)' \ {t} : rank2[v] < rank2[t]
      BY <3>1, <3>6
    <3>8. \A u \in Line(c)' : behind'[u] = Nobody => \A v \in Line(c)' \ {u} : rank2[u] < rank2[v]
      BY <3>1, <3>2, <3>4, <3>5, <3>6 DEF RankedLine
    <3>9. \A u \in Line(c)' : behind'[u] # Nobody =>
              /\ behind'[u] \in Line(c)' /\ rank2[behind'[u]] < rank2[u]
              /\ \A v \in Line(c)' \ {u} : rank2[v] <= rank2[behind'[u]] \/ rank2[u] < rank2[v]
      <4>1. CASE last = Nobody
        BY <3>1, <3>4, <4>1
      <4>2. CASE last # Nobody
        <5>1. ASSUME NEW u \in Line(c), behind[u] # Nobody
              PROVE  /\ behind[u] \in Line(c) /\ rank[behind[u]] < rank[u]
                     /\ \A v \in Line(c) \ {u} : rank[v] <= rank[behind[u]] \/ rank[u] < rank[v]
          BY <3>2, <5>1 DEF RankedLine
        <5>2. \A v \in Line(c) : rank[v] <= rank[last]
          BY <3>3, <3>5, <4>2
        <5> QED
          BY <3>1, <3>5, <3>6, <4>2, <5>1, <5>2
      <4> QED
        BY <4>1, <4>2
    <3> QED
      BY <1>0, <3>1, <3>7, <3>8, <3>9 DEF RankedLine
  <2>6. \A u \in Terminals : behind'[u] # Nobody => at'[u] = "await"
    BY <1>0 DEF Ranked, ContextTypes
  <2>7. \A c \in Ids : RankedLine(c, rank2)'
    BY <2>4, <2>5, <1>0
  <2> QED
    BY <2>2, <2>6, <2>7 DEF Ranked
<1>v. Views'
  BY <1>0, ViewsUntouched DEF Viewing, Goes, redis, ContextTypes
<1> QED
  BY <1>1, <1>2, <1>3, <1>4, <1>5, <1>v

LEMMA EnterStep ==
    ASSUME CInv, NEW t \in Terminals, Enter(t)
    PROVE  CInv'
<1> USE DEF CInv
<1>0. /\ at[t] = "await" /\ behind[t] = Nobody /\ UNCHANGED <<redis, lock, turn, kind, id, verdict, updated, seen>>
      /\ \/ /\ emergency[id[t]].compactionCount < MAX_EMERGENCY_COMPACTIONS
            /\ at' = [at EXCEPT ![t] = "summarize"]
            /\ count' = [count EXCEPT ![t] = emergency[id[t]].compactionCount]
         \/ at' = [at EXCEPT ![t] = "leave"] /\ count' = count
  BY DEF Enter, Goes
<1>a. id[t] \in Ids
  <2>1. id[t] \in OwnIds(Workspace(t))
    BY <1>0 DEF Owned, HasId
  <2> QED
    BY <2>1, CastKnown, OwnIdsKnown DEF ContextTypes
<1>1. ContextTypes'
  BY <1>0, <1>a DEF ContextTypes, redis, lock, Steps
<1>2. OneLeft'
  BY <1>0 DEF ContextTypes, OneLeft
<1>3. NoncesBounded'
  BY <1>0, NoNonceMade DEF redis, ContextTypes
<1>4. Owned'
  <2>1. \A u \in Terminals :
           /\ HasId(u)' => id[u] \in OwnIds(Workspace(u)) /\ (ExplicitId(u) # NoId => id[u] = ExplicitId(u))
           /\ at'[u] = "save" => at[u] = "save"
           /\ at'[u] = "nonce" => at[u] = "nonce"
    BY <1>0 DEF ContextTypes, Owned, HasId
  <2> QED
    BY <1>0, <2>1 DEF Owned, redis, OwnIds, Workspace, ExplicitId, SummaryKey, Slot
<1>5. Ranked'
  BY <1>0, LinesUntouched DEF InLock, ContextTypes
<1>v. Views'
  BY <1>0, ViewsUntouched DEF Viewing, Goes, redis, ContextTypes
<1> QED
  BY <1>1, <1>2, <1>3, <1>4, <1>5, <1>v

LEMMA PersistStep ==
    ASSUME CInv, NEW t \in Terminals, Persist(t)
    PROVE  CInv'
<1> USE DEF CInv
<1>0. /\ at[t] = "summarize" /\ at' = [at EXCEPT ![t] = "leave"] /\ count' = [count EXCEPT ![t] = 0]
      /\ emergency' = [emergency EXCEPT ![id[t]] = [from |-> Workspace(t), compactionCount |-> count[t] + 1]]
      /\ summary' = [summary EXCEPT ![SummaryKey(t)] = Workspace(t)]
      /\ UNCHANGED <<cast, lastId, nonce, nonces, binding, root, opstate, lock, turn, kind, id, verdict, updated,
                     seen>>
  BY DEF Persist, Goes
<1>a. id[t] \in OwnIds(Workspace(t))
  BY <1>0 DEF Owned, HasId
<1>b. id[t] \in Ids /\ SummaryKey(t) \in SummaryKeys /\ Workspace(t) \in Spaces
  BY <1>a, CastKnown, OwnIdsKnown DEF ContextTypes
<1>c. count[t] + 1 \in 0 .. MAX_EMERGENCY_COMPACTIONS
  BY <1>0 DEF OneLeft, ContextTypes, MAX_EMERGENCY_COMPACTIONS
<1>1. ContextTypes'
  <2>1. emergency' \in [Ids -> [from : Spaces \cup {NoId},
                                compactionCount : 0 .. MAX_EMERGENCY_COMPACTIONS]]
    BY <1>0, <1>b, <1>c DEF ContextTypes
  <2>2. summary' \in [SummaryKeys -> Spaces \cup {NoId}]
    BY <1>0, <1>b DEF ContextTypes
  <2>3. count' \in [Terminals -> 0 .. MAX_EMERGENCY_COMPACTIONS]
    BY <1>0 DEF ContextTypes, MAX_EMERGENCY_COMPACTIONS
  <2> QED
    BY <1>0, <2>1, <2>2, <2>3 DEF ContextTypes, lock, Steps
<1>2. OneLeft'
  BY <1>0 DEF ContextTypes, OneLeft
<1>3. NoncesBounded'
  BY <1>0, NoNonceMade DEF ContextTypes
<1>4. Owned'
  <2>1. \A k \in SummaryKeys : summary'[k] # NoId =>
           \E u \in Terminals : SummaryKey(u) = k /\ Workspace(u) = summary'[k]
    BY <1>0 DEF ContextTypes, Owned
  <2>2. \A c \in Ids : emergency'[c].from # NoId => c \in OwnIds(emergency'[c].from)
    BY <1>0, <1>a DEF ContextTypes, Owned
  <2>3. \A u \in Terminals :
           /\ HasId(u)' => id'[u] \in OwnIds(Workspace(u)) /\ (ExplicitId(u) # NoId => id'[u] = ExplicitId(u))
           /\ at'[u] = "save" => at[u] = "save"
           /\ at'[u] = "nonce" => at[u] = "nonce"
    BY <1>0 DEF ContextTypes, Owned, HasId
  <2> QED
    BY <1>0, <2>1, <2>2, <2>3 DEF Owned, OwnIds, Workspace, ExplicitId, SummaryKey, Slot
<1>5. Ranked'
  BY <1>0, LinesUntouched DEF InLock, ContextTypes
<1>v. Views'
  BY <1>0, ViewsUntouched DEF Viewing, Goes, redis, ContextTypes
<1> QED
  BY <1>1, <1>2, <1>3, <1>4, <1>5, <1>v

\* Who leaves was the first: the one behind it, if any, is the first of the rest.
LEMMA LeaveStep ==
    ASSUME CInv, NEW t \in Terminals, Leave(t)
    PROVE  CInv'
<1> USE DEF CInv
<1>0. /\ at[t] = "leave" /\ at' = [at EXCEPT ![t] = "call"]
      /\ behind' = [u \in Terminals |-> IF behind[u] = t THEN Nobody ELSE behind[u]]
      /\ queue' = [queue EXCEPT ![id[t]] = IF @ = t THEN Nobody ELSE @]
      /\ UNCHANGED <<redis, turn, kind, id, verdict, updated, count, seen>>
  BY DEF Leave, Goes
<1>a. id[t] \in Ids
  <2>1. id[t] \in OwnIds(Workspace(t))
    BY <1>0 DEF Owned, HasId
  <2> QED
    BY <2>1, CastKnown, OwnIdsKnown DEF ContextTypes
<1>1. ContextTypes'
  <2>1. queue' \in [Ids -> Terminals \cup {Nobody}] /\ behind' \in [Terminals -> Terminals \cup {Nobody}]
    BY <1>0, <1>a DEF ContextTypes
  <2> QED
    BY <1>0, <2>1 DEF ContextTypes, redis, Steps
<1>2. OneLeft'
  BY <1>0 DEF ContextTypes, OneLeft
<1>3. NoncesBounded'
  BY <1>0, NoNonceMade DEF redis, ContextTypes
<1>4. Owned'
  BY <1>0 DEF Owned, HasId, redis, ContextTypes, OwnIds, Workspace, ExplicitId, SummaryKey, Slot
<1>5. Ranked'
  <2>1. PICK rank \in [Terminals -> Nat] : \A c \in Ids : RankedLine(c, rank)
    BY DEF Ranked
  <2>2. /\ Line(id[t])' = Line(id[t]) \ {t} /\ t \in Line(id[t])
        /\ \A c \in Ids \ {id[t]} : Line(c)' = Line(c) /\ t \notin Line(c)
        /\ \A c \in Ids : Line(c) \subseteq Terminals
        /\ Nobody \notin Terminals
    BY <1>0, ContextAssumption DEF Line, InLock, ContextTypes, Nobody
  <2>3. behind[t] = Nobody
    BY <1>0 DEF Ranked
  <2>4. \A c \in Ids \ {id[t]} : RankedLine(c, rank)'
    <3> SUFFICES ASSUME NEW c \in Ids \ {id[t]} PROVE RankedLine(c, rank)'
      OBVIOUS
    <3>1. RankedLine(c, rank)
      BY <2>1
    <3>2. \A u \in Line(c) : behind[u] # t
      BY <2>2, <3>1 DEF RankedLine
    <3>3. queue'[c] = queue[c] /\ Line(c)' = Line(c) /\ \A u \in Line(c) : behind'[u] = behind[u]
      BY <1>0, <1>a, <2>2, <3>2 DEF ContextTypes
    <3> QED
      BY <3>1, <3>3 DEF RankedLine
  <2>5. RankedLine(id[t], rank)'
    <3> DEFINE c == id[t]
    <3>1. RankedLine(c, rank)
      BY <1>a, <2>1
    <3>2. /\ queue'[c] = IF queue[c] = t THEN Nobody ELSE queue[c]
          /\ Line(c)' = Line(c) \ {t}
          /\ \A u \in Line(c)' : behind'[u] = IF behind[u] = t THEN Nobody ELSE behind[u]
          /\ \A u \in Line(c) : rank[u] \in Nat
      BY <1>0, <1>a, <2>2 DEF ContextTypes
    <3>3. \A v \in Line(c) \ {t} : rank[t] < rank[v]
      BY <2>2, <2>3, <3>1 DEF RankedLine
    <3>4. queue[c] = t => Line(c)' = {}
      <4> SUFFICES ASSUME queue[c] = t, NEW v \in Line(c) \ {t} PROVE FALSE
        BY <3>2
      <4>1. rank[v] < rank[t]
        BY <2>2, <3>1 DEF RankedLine
      <4> QED
        BY <2>2, <3>2, <3>3, <4>1
    <3>5. queue[c] # Nobody /\ queue[c] \in Line(c)
      BY <2>2, <3>1 DEF RankedLine
    <3>6. queue'[c] = Nobody => Line(c)' = {}
      BY <3>2, <3>4, <3>5
    <3>7. queue'[c] # Nobody =>
             queue'[c] \in Line(c)' /\ \A v \in Line(c)' \ {queue'[c]} : rank[v] < rank[queue'[c]]
      BY <3>1, <3>2, <3>5 DEF RankedLine
    <3>8. ASSUME NEW u \in Line(c)', behind'[u] = Nobody, NEW v \in Line(c)' \ {u}
          PROVE  rank[u] < rank[v]
      <4>1. CASE behind[u] = Nobody
        BY <3>1, <3>2, <3>8, <4>1 DEF RankedLine
      <4>2. CASE behind[u] = t
        <5>1. rank[v] <= rank[t] \/ rank[u] < rank[v]
          BY <2>2, <3>1, <3>2, <3>8, <4>2 DEF RankedLine
        <5> QED
          BY <2>2, <3>2, <3>3, <3>8, <5>1
      <4> QED
        BY <3>2, <3>8, <4>1, <4>2
    <3>9. ASSUME NEW u \in Line(c)', behind'[u] # Nobody
          PROVE  /\ behind'[u] \in Line(c)' /\ rank[behind'[u]] < rank[u]
                 /\ \A v \in Line(c)' \ {u} : rank[v] <= rank[behind'[u]] \/ rank[u] < rank[v]
      <4>1. behind'[u] = behind[u] /\ behind[u] # t /\ behind[u] # Nobody
        BY <3>2, <3>9
      <4> QED
        BY <3>1, <3>2, <3>9, <4>1 DEF RankedLine
    <3> QED
      BY <1>0, <3>6, <3>7, <3>8, <3>9 DEF RankedLine
  <2>6. \A u \in Terminals : behind'[u] # Nobody => at'[u] = "await"
    BY <1>0, <2>3 DEF Ranked, ContextTypes
  <2>7. \A c \in Ids : RankedLine(c, rank)'
    BY <2>4, <2>5, <1>0
  <2> QED
    BY <2>6, <2>7 DEF Ranked
<1>v. Views'
  BY <1>0, ViewsUntouched DEF Viewing, Goes, redis, ContextTypes
<1> QED
  BY <1>1, <1>2, <1>3, <1>4, <1>5, <1>v

-----------------------------------------------------------------------------
LEMMA ContextStep == CInv /\ [Next]_vars => CInv'
<1> SUFFICES ASSUME CInv, [Next]_vars PROVE CInv'
  OBVIOUS
<1>1. CASE UNCHANGED vars
  <2>1. UNCHANGED <<redis, lock, request>>
    BY <1>1 DEF vars
  <2>2. Ranked'
    BY <2>1, LinesUntouched DEF InLock, request
  <2>3. NoncesBounded'
    BY <2>1, NoNonceMade DEF redis, request
  <2>4. Views'
    BY <2>1, ViewsUntouched DEF Viewing, redis, request
  <2> QED
    BY <2>1, <2>2, <2>3, <2>4 DEF CInv, ContextTypes, OneLeft, Owned, HasId, OwnIds, Workspace, ExplicitId,
                            SummaryKey, Slot, redis, lock, request
<1>2. ASSUME NEW t \in Terminals, Send(t) \/ Transform(t) \/ Answered(t) \/ Overload(t)
      PROVE  CInv'
  BY <1>2, SendStep, IdentifyStep, MakeNonceStep, JudgeStep, CleanStep, HydrateStep, CompactStep, OperateStep, SaveStateStep,
     AnsweredStep, QueueStep, EnterStep, PersistStep, LeaveStep DEF Transform, Overload
<1> QED
  BY <1>1, <1>2 DEF Next

\* The invariant holds of every behaviour.
THEOREM ContextInvariance == Spec => []CInv
BY ContextStart, ContextStep, PTL DEF Spec

\* A conversation is compacted twice at most, and the control variables have their
\* types.
THEOREM ContextTypeCorrect == Spec => []TypeOK
<1>1. CInv => TypeOK
  BY DEF CInv, ContextTypes, TypeOK
<1> QED
  BY <1>1, ContextInvariance, PTL

\* However many terminals ask to compact one conversation: one at a time does.
THEOREM CompactsOneAtATime == Spec => []OneCompactionAtATime
<1>1. CInv => OneCompactionAtATime
  <2> SUFFICES ASSUME CInv, NEW t \in Terminals, NEW u \in Terminals, t # u,
                      {at[t], at[u]} \subseteq {"summarize", "leave"}, id[t] = id[u]
               PROVE  FALSE
    BY DEF OneCompactionAtATime
  <2>1. id[t] \in Ids
    <3>1. id[t] \in OwnIds(Workspace(t))
      BY DEF CInv, Owned, HasId
    <3> QED
      BY <3>1, CastKnown, OwnIdsKnown DEF CInv, ContextTypes
  <2>2. PICK rank \in [Terminals -> Nat] : \A c \in Ids : RankedLine(c, rank)
    BY DEF CInv, Ranked
  <2>3. {t, u} \subseteq Line(id[t]) /\ behind[t] = Nobody /\ behind[u] = Nobody
    BY DEF CInv, Ranked, Line, InLock
  <2>4. rank[t] < rank[u] /\ rank[u] < rank[t]
    BY <2>1, <2>2, <2>3 DEF RankedLine
  <2> QED
    BY <2>4
<1> QED
  BY <1>1, ContextInvariance, PTL

\* However many terminals resume, make, clear and compact conversations, and share
\* ids or slots: what each is told is from its workspace, but for the named cases.
THEOREM MemoryStays == Spec => []MemoryStaysInWorkspace
<1>1. CInv => MemoryStaysInWorkspace
  <2> SUFFICES ASSUME CInv, NEW t \in Terminals
               PROVE  LET Excused == Shared(id[t]) /\ MayBeItsOwn(t)
                      IN  /\ seen[t].emergency \in {NoId, Workspace(t)} \/ Excused
                          /\ seen[t].summary \in {NoId, Workspace(t)} \/ ExplicitId(t) = NoId \/ Excused
                          /\ seen[t].operational \subseteq {Workspace(t)} \/ Shared(id[t])
    BY DEF MemoryStaysInWorkspace
  <2>1. /\ View(t) /\ Workspace(t) \in Spaces /\ seen[t] \in Sights
        /\ \A u \in Terminals : Workspace(u) \in Spaces /\ Slot(u) \in Slots
    BY CastKnown DEF CInv, Views, ContextTypes
  <2>2. CASE ~Viewing(t)
    BY <2>1, <2>2 DEF View, Unseen
  <2>3. CASE Viewing(t)
    <3>1. id[t] \in OwnIds(Workspace(t)) /\ (ExplicitId(t) # NoId => id[t] = ExplicitId(t))
      BY <2>3 DEF CInv, Owned, HasId, Viewing
    <3>2. verdict[t].says = "APPROVED" => MayBeItsOwn(t)
      BY <2>3 DEF CInv, Views, Judged, Viewing, MayBeItsOwn
    <3>3. \A w \in Spaces : id[t] \in OwnIds(w) /\ ~Shared(id[t]) => w = Workspace(t)
      BY <2>1, <3>1, OwnIdsApart
    <3>4. seen[t].emergency \in {NoId, Workspace(t)} \/ (Shared(id[t]) /\ MayBeItsOwn(t))
      BY <2>1, <3>2, <3>3 DEF View, Sights
    <3>5. seen[t].operational \subseteq {Workspace(t)} \/ Shared(id[t])
      BY <2>1, <3>3 DEF View, Sights
    <3>6. ASSUME seen[t].summary # NoId, ExplicitId(t) # NoId, seen[t].summary # Workspace(t)
          PROVE  Shared(id[t]) /\ MayBeItsOwn(t)
      <4>1. PICK u \in Terminals : SummaryKey(u) = SummaryKey(t) /\ Workspace(u) = seen[t].summary
        BY <2>1, <3>6 DEF View
      <4>2. ExplicitId(t) \in ExplicitIds
        BY <3>6, CastKnown DEF CInv, ContextTypes
      <4>3. ExplicitId(u) = ExplicitId(t)
        BY <2>1, <3>6, <4>1, <4>2, IdAssumption DEF SummaryKey
      <4> QED
        BY <2>1, <3>1, <3>2, <3>6, <4>1, <4>3 DEF Shared, View
    <3> QED
      BY <3>4, <3>5, <3>6
  <2> QED
    BY <2>2, <2>3
<1> QED
  BY <1>1, ContextInvariance, PTL
=============================================================================
