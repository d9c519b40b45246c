---------------------------- MODULE ContextMemory ----------------------------
(***************************************************************************)
(* What the gateway remembers of a conversation between its requests: the  *)
(* id a request is given (request.ts finalizeConversationId,               *)
(* session-identity.ts), whether it may see what is stored under that id   *)
(* (session-binding.ts, hydration-guard.ts), what it stores there itself   *)
(* and what emergency compaction stores, under a lock of the process       *)
(* (emergency-compactor.ts).  Guidance has what the operational state      *)
(* says, here it is only whose.                                            *)
(*                                                                         *)
(* One user, whose terminals each hold one conversation and send one       *)
(* request at a time.  Abstracted: of a text only what the guard makes of  *)
(* it, of a summary only the workspace it was written in, of the system    *)
(* prompt and the first message only the slot they hash to; workspace root *)
(* and fingerprint are found together; those that tell no workspace count  *)
(* as in one; Redis answers, in the order it is asked, and no key expires. *)
(***************************************************************************)
EXTENDS Naturals, FiniteSets

CONSTANTS
    Terminals,
    Workspaces, Slots, ExplicitIds, Unknown, NoId,
    Casts,          \* what the terminals may be: see cast
    MaxTurns        \* bound: requests of each terminal

ASSUME ContextAssumption ==
    /\ IsFiniteSet(Terminals) /\ "nobody" \notin Terminals /\ MaxTurns \in Nat
    /\ NoId \notin ExplicitIds
    /\ Casts \subseteq [Terminals -> [workspace : Workspaces \cup {Unknown}, slot : Slots,
                                     id : ExplicitIds \cup {NoId}]]

VARIABLES
    cast,           \* of each terminal: its workspace, what its system prompt and
                    \* first message hash to, the conversation id its client sends
    lastId,         \* session:last:<user>:<fingerprint>
    nonce,          \* session:nonce:<slot>, 0 for none
    nonces,         \* nonces made: each is new
    binding,        \* session:binding:<id>: the workspace it was made in
    root,           \* context:workspace:<id>
    emergency,      \* context:emergency:<id>: compactionCount, and who wrote it
    opstate,        \* opstate:v3:<id>: workspace_root, and the workspaces it is from
    summary,        \* context:summary:<key>: the workspace it was written in
    queue,          \* compactionQueueByConversation: the last to ask
    behind,         \* whose gate a request awaits
    at, turn, kind, \* of each terminal: what its request does next, its number, its text
    id,             \* its conversationId
    verdict,        \* what the hydration guard said, and whether there was no binding
    updated,        \* the operational state it will save
    count,          \* compactionCount, as emergency compaction read it
    seen            \* what was injected into the request: workspaces, by kind

redis   == <<cast, lastId, nonce, nonces, binding, root, emergency, opstate, summary>>
lock    == <<queue, behind>>
request == <<at, turn, kind, id, verdict, updated, count, seen>>
vars    == <<redis, lock, request>>

MAX_EMERGENCY_COMPACTIONS == 2

Workspace(t)  == cast[t].workspace
Slot(t)       == cast[t].slot
ExplicitId(t) == cast[t].id

Nobody == "nobody"
Nothing == [from |-> NoId, compactionCount |-> 0]
Unseen  == [emergency |-> NoId, summary |-> NoId, operational |-> {}]
NoState == [workspace_root |-> Unknown, from |-> {}]    \* defaultOperationalState
NoVerdict == [says |-> "APPROVED", binds |-> FALSE]

deriveHardSessionId(w, n) == [workspace |-> w, nonce |-> n]

\* Nobody names a conversation by the id or the slot the gateway made for another.
ASSUME IdAssumption ==
    /\ Slots \cap ExplicitIds = {}
    /\ \A w \in Workspaces \cup {Unknown}, n \in 0 .. Cardinality(Terminals) :
          deriveHardSessionId(w, n) \notin ExplicitIds

Ids == ExplicitIds
       \cup {deriveHardSessionId(w, n) : w \in Workspaces \cup {Unknown}, n \in 0 .. Cardinality(Terminals)}

\* deriveSummaryKey: the explicit id, or the slot, whatever the workspace.
SummaryKey(t) == IF ExplicitId(t) # NoId THEN ExplicitId(t) ELSE Slot(t)
SummaryKeys   == ExplicitIds \cup Slots

Goes(t, step) == at' = [at EXCEPT ![t] = step]

-----------------------------------------------------------------------------
(* The client, and the id its request gets.                                *)

\* The first request of a conversation holds one message: a greeting, a task or
\* a wish to go on; in any of them there may be a /clear.
Send(t) ==
    /\ at[t] = "idle" /\ turn[t] < MaxTurns
    /\ \E k \in IF turn[t] = 0 THEN {"greeting", "task", "go on", "clear"} ELSE {"reply", "clear"} :
          kind' = [kind EXCEPT ![t] = k]
    /\ turn' = [turn EXCEPT ![t] = @ + 1]
    /\ Goes(t, "identify")
    /\ UNCHANGED <<redis, lock, id, verdict, updated, count, seen>>

\* The request holds more than one message.
Many(t) == kind[t] = "reply" \/ turn[t] > 1

Identified(t, i) == id' = [id EXCEPT ![t] = i] /\ Goes(t, "bind")

\* An explicit id, or the last one of the workspace, or one of the slot's own.
Identify(t) ==
    /\ at[t] = "identify"
    /\ IF ExplicitId(t) # NoId THEN Identified(t, ExplicitId(t))
       ELSE IF Workspace(t) # Unknown /\ lastId[Workspace(t)] # NoId
            THEN Identified(t, lastId[Workspace(t)])
       ELSE IF nonce[Slot(t)] # 0
            THEN Identified(t, deriveHardSessionId(Workspace(t), nonce[Slot(t)]))
       ELSE Goes(t, "nonce") /\ UNCHANGED id
    /\ UNCHANGED <<redis, lock, turn, kind, verdict, updated, count, seen>>

\* getOrCreateSessionNonce: it found none, and sets its own over another's.
MakeNonce(t) ==
    /\ at[t] = "nonce"
    /\ nonces' = nonces + 1 /\ nonce' = [nonce EXCEPT ![Slot(t)] = nonces + 1]
    /\ Identified(t, deriveHardSessionId(Workspace(t), nonces + 1))
    /\ UNCHANGED <<cast, lastId, binding, root, emergency, opstate, summary, lock, turn, kind, verdict, updated,
                   count, seen>>

-----------------------------------------------------------------------------
(* hydration-guard.ts, session-binding.ts.                                 *)

validateBinding(t) ==
    IF binding[id[t]] = NoId THEN "new"
    ELSE IF Unknown \notin {Workspace(t), binding[id[t]]} /\ Workspace(t) # binding[id[t]] THEN "mismatch"
    ELSE "valid"

workspacesMatch(current, stored, explicit) ==
    IF {current, stored} = {Unknown} THEN explicit ELSE Unknown \in {current, stored} \/ current = stored

\* More than one message, a wish to go on, or an explicit id and no greeting.
assessSemanticContinuity(t, explicit) ==
    \/ Many(t) \/ kind[t] = "go on" \/ seen[t].emergency # NoId
    \/ explicit /\ kind[t] = "task"

\* Mutant: the third gate is left out.
IgnoresBinding(t, stored, explicit, bound) ==
    CASE kind[t] = "clear" -> "CLEAR_RESET"
      [] kind[t] # "clear" /\ ~workspacesMatch(Workspace(t), stored, explicit) ->
            IF Workspace(t) = stored THEN "NULL_WORKSPACE" ELSE "WORKSPACE_MISMATCH"
      [] OTHER ->
            IF assessSemanticContinuity(t, explicit) THEN "APPROVED"
            ELSE IF ~explicit THEN "FRESH_SESSION" ELSE "LOW_CONTINUITY"

\* No client message holds a compacted marker: the marker never leaves the gateway.
evaluateHydration(t, stored, explicit, bound) ==
    CASE kind[t] = "clear" -> "CLEAR_RESET"
      [] kind[t] # "clear" /\ ~workspacesMatch(Workspace(t), stored, explicit) ->
            IF Workspace(t) = stored THEN "NULL_WORKSPACE" ELSE "WORKSPACE_MISMATCH"
      [] OTHER ->
            IF bound = "mismatch" THEN "BINDING_MISMATCH"
            ELSE IF assessSemanticContinuity(t, explicit) THEN "APPROVED"
            ELSE IF ~explicit THEN "FRESH_SESSION" ELSE "LOW_CONTINUITY"

\* The companion key, or the root the operational state found.
storedWorkspaceRoot(c) == IF root[c] # Unknown THEN root[c] ELSE opstate[c].workspace_root

\* A /clear counts for a new conversation in its first request only.
Stale(t) ==
    \/ verdict[t].says \in {"FRESH_SESSION", "NULL_WORKSPACE"}
    \/ verdict[t].says = "CLEAR_RESET" /\ turn[t] = 1

\* The binding and the stored roots are read together.
Judge(t) ==
    /\ at[t] = "bind"
    /\ verdict' = [verdict EXCEPT ![t] =
          [says  |-> evaluateHydration(t, storedWorkspaceRoot(id[t]), ExplicitId(t) # NoId, validateBinding(t)),
           binds |-> validateBinding(t) = "new"]]
    /\ Goes(t, "clean")
    /\ UNCHANGED <<redis, lock, turn, kind, id, updated, count, seen>>

\* What is stored for a conversation that is taken for a new one is deleted; a
\* new binding is made unless somebody was first.
Clean(t) ==
    /\ at[t] = "clean" /\ Goes(t, "hydrate")
    /\ LET c == id[t] IN
       /\ IF Stale(t)
            THEN /\ emergency' = [emergency EXCEPT ![c] = Nothing]
                 /\ opstate' = [opstate EXCEPT ![c] = NoState]
                 /\ root' = [root EXCEPT ![c] = Unknown]
                 /\ summary' = [summary EXCEPT ![SummaryKey(t)] = NoId]
            ELSE UNCHANGED <<emergency, opstate, root, summary>>
       /\ binding' = IF verdict[t].binds /\ binding[c] = NoId
                     THEN [binding EXCEPT ![c] = Workspace(t)] ELSE binding
    /\ UNCHANGED <<cast, lastId, nonce, nonces, lock, turn, kind, id, verdict, updated, count, seen>>

\* The rolling summary and the emergency state, if the guard approved.
Hydrate(t) ==
    /\ at[t] = "hydrate" /\ Goes(t, "compact")
    /\ seen' = IF verdict[t].says # "APPROVED" THEN seen
               ELSE [seen EXCEPT ![t].emergency = emergency[id[t]].from, ![t].summary = summary[SummaryKey(t)]]
    /\ UNCHANGED <<redis, lock, turn, kind, id, verdict, updated, count>>

\* The history is compacted or not; then, whatever the guard said, the workspace
\* is noted, and that this is its last conversation, an explicit one too.
Compact(t) ==
    /\ at[t] = "compact" /\ Goes(t, "operate")
    /\ \E did \in IF Many(t) THEN BOOLEAN ELSE {FALSE} :
          summary' = IF did THEN [summary EXCEPT ![SummaryKey(t)] = Workspace(t)] ELSE summary
    /\ IF Workspace(t) = Unknown THEN UNCHANGED <<root, lastId>>
       ELSE /\ root' = [root EXCEPT ![id[t]] = Workspace(t)]
            /\ lastId' = [lastId EXCEPT ![Workspace(t)] = id[t]]
    /\ UNCHANGED <<cast, nonce, nonces, binding, emergency, opstate, lock, turn, kind, id, verdict, updated,
                   count, seen>>

\* The tool results of the conversation, which a first message has none of: what
\* they tell of files and commands, and maybe a root, the first of them kept.
updateStateFromMessages(s, t, found) ==
    IF ~Many(t) THEN s
    ELSE [workspace_root |-> IF s.workspace_root = Unknown THEN found ELSE s.workspace_root,
          from |-> s.from \cup {Workspace(t)}]

\* The operational state is told if the guard, asked again without the id being
\* explicit and without the binding, approves.
Operate(t) ==
    /\ at[t] = "operate" /\ Goes(t, "save")
    /\ \E found \in Workspaces \cup {Unknown} :
          updated' = [updated EXCEPT ![t] = updateStateFromMessages(opstate[id[t]], t, found)]
    /\ seen' = IF evaluateHydration(t, updated'[t].workspace_root, FALSE, "not asked") # "APPROVED" THEN seen
               ELSE [seen EXCEPT ![t].operational = updated'[t].from]
    /\ UNCHANGED <<redis, lock, turn, kind, id, verdict, count>>

\* It is saved whatever the guard said; the request goes to the model.
SaveState(t) ==
    /\ at[t] = "save" /\ Goes(t, "call")
    /\ opstate' = [opstate EXCEPT ![id[t]] = updated[t]]
    /\ updated' = [updated EXCEPT ![t] = NoState]
    /\ kind' = [kind EXCEPT ![t] = IF Many(t) THEN "reply" ELSE "task"]
    /\ verdict' = [verdict EXCEPT ![t] = NoVerdict]
    /\ seen' = [seen EXCEPT ![t] = Unseen]
    /\ UNCHANGED <<cast, lastId, nonce, nonces, binding, root, emergency, summary, lock, turn, id, count>>

-----------------------------------------------------------------------------
(* emergency-compactor.ts: performEmergencyCompaction, when the model is   *)
(* overloaded.                                                             *)

Answered(t) ==
    /\ at[t] = "call" /\ Goes(t, "idle") /\ id' = [id EXCEPT ![t] = NoId]
    /\ kind' = [kind EXCEPT ![t] = "task"]
    /\ UNCHANGED <<redis, lock, turn, verdict, updated, count, seen>>

\* withConversationCompactionLock: behind the one who asked last, if any.
Queue(t) ==
    /\ at[t] = "call" /\ Goes(t, "await")
    /\ behind' = [behind EXCEPT ![t] = queue[id[t]]]
    /\ queue' = [queue EXCEPT ![id[t]] = t]
    /\ UNCHANGED <<redis, turn, kind, id, verdict, updated, count, seen>>

\* The state is loaded: two compactions are enough, and a short or undivided
\* history is not compacted.
Enter(t) ==
    /\ at[t] = "await" /\ behind[t] = Nobody
    /\ \/ /\ Many(t) /\ emergency[id[t]].compactionCount < MAX_EMERGENCY_COMPACTIONS /\ Goes(t, "summarize")
          /\ count' = [count EXCEPT ![t] = emergency[id[t]].compactionCount]
       \/ Goes(t, "leave") /\ UNCHANGED count
    /\ UNCHANGED <<redis, lock, turn, kind, id, verdict, updated, seen>>

\* The model's summary, or the fallback one, is stored under both keys.
Persist(t) ==
    /\ at[t] = "summarize" /\ Goes(t, "leave") /\ count' = [count EXCEPT ![t] = 0]
    /\ emergency' = [emergency EXCEPT ![id[t]] = [from |-> Workspace(t), compactionCount |-> count[t] + 1]]
    /\ summary' = [summary EXCEPT ![SummaryKey(t)] = Workspace(t)]
    /\ UNCHANGED <<cast, lastId, nonce, nonces, binding, root, opstate, lock, turn, kind, id, verdict, updated,
                   seen>>

\* Mutant: the entry is dropped although somebody queues behind it.
LeaveAndForget(t) ==
    /\ at[t] = "leave" /\ Goes(t, "call")
    /\ behind' = [u \in Terminals |-> IF behind[u] = t THEN Nobody ELSE behind[u]]
    /\ queue' = [queue EXCEPT ![id[t]] = Nobody]
    /\ UNCHANGED <<redis, turn, kind, id, verdict, updated, count, seen>>

\* Mutant: the gate opens for nobody.
LeaveLocked(t) ==
    /\ at[t] = "leave" /\ Goes(t, "call")
    /\ queue' = [queue EXCEPT ![id[t]] = IF @ = t THEN Nobody ELSE @]
    /\ UNCHANGED <<redis, behind, turn, kind, id, verdict, updated, count, seen>>

\* The gate opens; the entry is dropped if nobody queued behind.  The model is
\* called again.
Leave(t) ==
    /\ at[t] = "leave" /\ Goes(t, "call")
    /\ behind' = [u \in Terminals |-> IF behind[u] = t THEN Nobody ELSE behind[u]]
    /\ queue' = [queue EXCEPT ![id[t]] = IF @ = t THEN Nobody ELSE @]
    /\ UNCHANGED <<redis, turn, kind, id, verdict, updated, count, seen>>

-----------------------------------------------------------------------------
Init ==
    /\ cast \in Casts
    /\ lastId = [w \in Workspaces |-> NoId]
    /\ nonce = [x \in Slots |-> 0] /\ nonces = 0
    /\ binding = [c \in Ids |-> NoId] /\ root = [c \in Ids |-> Unknown]
    /\ emergency = [c \in Ids |-> Nothing] /\ opstate = [c \in Ids |-> NoState]
    /\ summary = [k \in SummaryKeys |-> NoId]
    /\ queue = [c \in Ids |-> Nobody] /\ behind = [t \in Terminals |-> Nobody]
    /\ at = [t \in Terminals |-> "idle"] /\ turn = [t \in Terminals |-> 0]
    /\ kind = [t \in Terminals |-> "task"] /\ id = [t \in Terminals |-> NoId]
    /\ verdict = [t \in Terminals |-> NoVerdict] /\ updated = [t \in Terminals |-> NoState]
    /\ count = [t \in Terminals |-> 0] /\ seen = [t \in Terminals |-> Unseen]

Transform(t) ==
    \/ Identify(t) \/ MakeNonce(t) \/ Judge(t) \/ Clean(t) \/ Hydrate(t) \/ Compact(t)
    \/ Operate(t) \/ SaveState(t)
Overload(t)  == Queue(t) \/ Enter(t) \/ Persist(t) \/ Leave(t)

Next == \E t \in Terminals : Send(t) \/ Transform(t) \/ Answered(t) \/ Overload(t)

Spec == Init /\ [][Next]_vars

\* Every await of a request settles.
FairSpec == Spec /\ \A t \in Terminals : WF_vars(Transform(t) \/ Answered(t) \/ Overload(t))

-----------------------------------------------------------------------------
(* Properties.                                                             *)

Steps == {"idle", "identify", "nonce", "bind", "clean", "hydrate", "compact", "operate",
          "save", "call", "await", "summarize", "leave"}

TypeOK ==
    /\ at \in [Terminals -> Steps] /\ turn \in [Terminals -> Nat]
    /\ id \in [Terminals -> Ids \cup {NoId}]
    /\ count \in [Terminals -> 0 .. MAX_EMERGENCY_COMPACTIONS]
    /\ \A c \in Ids : emergency[c].compactionCount \in 0 .. MAX_EMERGENCY_COMPACTIONS

\* Two requests of one conversation never compact at the same time: what one
\* counts and stores the other has seen.
OneCompactionAtATime ==
    \A t, u \in Terminals :
        t # u /\ {at[t], at[u]} \subseteq {"summarize", "leave"} => id[t] # id[u]

\* An explicit id that is used in two workspaces.
Shared(i) ==
    \E t, u \in Terminals : ExplicitId(t) = i /\ ExplicitId(u) = i /\ Workspace(t) # Workspace(u)

\* The conversation is bound to the workspace of the request, as far as is known, or
\* was bound to none when the request was judged.
MayBeItsOwn(t) ==
    \/ Workspace(t) = Unknown \/ binding[id[t]] \in {Workspace(t), Unknown} \/ verdict[t].binds

\* "compacted memory MUST NOT be injected unless continuity is proven"
\* (hydration-guard.ts 7), and a binding "protects against cross-session,
\* cross-workspace context leakage" (session-binding.ts 8), however ids are resumed,
\* made twice and deleted.  Unless an explicit id is used in two workspaces, an
\* emergency summary and the operational state are told only in the workspace they
\* are from, a rolling summary also to who has no explicit id and began alike.  Of
\* such an id, the workspace it is not bound to is told neither summary, though it
\* writes its root, and so the next one's judgement, under the same id.
MemoryStaysInWorkspace ==
    \A t \in Terminals :
        LET Excused == Shared(id[t]) /\ MayBeItsOwn(t)
        IN  /\ seen[t].emergency \in {NoId, Workspace(t)} \/ Excused
            /\ seen[t].summary \in {NoId, Workspace(t)} \/ ExplicitId(t) = NoId \/ Excused
            /\ seen[t].operational \subseteq {Workspace(t)} \/ Shared(id[t])

\* Whoever waits for its turn to compact gets it.
EveryCompactionStarts ==
    \A t \in Terminals : at[t] = "await" ~> at[t] # "await"
=============================================================================
