------------------------------ MODULE TaskRouting ------------------------------
(***************************************************************************)
(* Which models serve a request: its task is told from its latest user     *)
(* message and what it carries (agent/intent-detector.ts,                  *)
(* routing/task-router.ts), and the chain of the task, the route of the    *)
(* alias asked for, the model that served the user last and the defaults   *)
(* are joined (getModelMapping of model-router.ts).  Of a text only which  *)
(* patterns it matches; names of models are normalised already.            *)
(***************************************************************************)
EXTENDS Naturals, Sequences, FiniteSets, SequencesExt

CONSTANTS
    Requests,      \* requests: see RequestKind
    Aliases,       \* the routes the alias may have in the registry, the primary first
    Others         \* names that are not in the pool

ALLOWED_MODEL_POOL ==
    {"gemma-4-31b-it", "gemma-4-26b-a4b-it", "gemini-3.5-flash", "gemini-flash-latest",
     "gemini-2.5-flash", "gemini-2.5-flash-lite", "gemini-3.1-flash-lite-preview"}

\* text is what the latest user message holds: no text at all (as when it brings
\* tool results), a greeting, a wish to go on, one word that is no code, or a text, with
\* the topics its words match.
Topics == {"web", "proof", "architecture", "files", "health", "compaction", "planning", "verification"}
RequestKind == [text : {"none", "greeting", "go on", "word", "text"}, topics : SUBSET Topics,
        tools : Nat, code : Nat, runs : Nat, turns : Nat, blocks : BOOLEAN, thinking : BOOLEAN]

ASSUME RoutingAssumption ==
    /\ \A a \in Requests : /\ DOMAIN a = {"text", "topics", "tools", "code", "runs", "turns", "blocks", "thinking"}
                       /\ a.topics \subseteq Topics
    /\ \A r \in Aliases : r \in Seq(ALLOWED_MODEL_POOL \cup Others)
    /\ Others \cap ALLOWED_MODEL_POOL = {}

VARIABLES
    alias,         \* the route of the alias, in the registry
    sticky,        \* route:last of the user and the alias, <<>> for none
    asked, route   \* the request under way and the chain it got, <<>> for none

tvars == <<alias, sticky, asked, route>>

hasActiveAgentContext(a) == (a.tools > 0 /\ a.turns > 1) \/ a.blocks

\* Mutant: the short message is looked for before the wish to go on.
TrivialFirst(a) == IF a.text \in {"none", "greeting", "go on", "word"} THEN "TRIVIAL_CHAT" ELSE "TASK"

detectIntent(a) ==
    IF \/ a.text \in {"none", "greeting", "word"}
       \/ a.text = "go on" /\ ~hasActiveAgentContext(a)
    THEN "TRIVIAL_CHAT" ELSE "TASK"

\* A light task of a long session counts as a heavy one.
classifyFromBehavior(a) ==
    IF "web" \in a.topics THEN "WEB_SEARCH"
    ELSE IF "proof" \in a.topics THEN "REASONING"
    ELSE IF \/ a.tools >= 5 \/ a.topics \cap {"architecture", "files"} # {} \/ a.runs >= 4
            \/ (a.tools >= 2 /\ a.code >= 3) \/ a.thinking
         THEN "HEAVY_CODING"
    ELSE IF a.code + a.tools + a.runs > 0 /\ a.turns <= 15 THEN "LIGHT_CODING"
    ELSE "HEAVY_CODING"

classifyTaskType(a) ==
    IF detectIntent(a) = "TRIVIAL_CHAT" THEN "CHAT"
    ELSE IF "health" \in a.topics THEN "HEALTH_CHECK"
    ELSE IF "compaction" \in a.topics THEN "COMPACTION"
    ELSE IF "planning" \in a.topics THEN "PLANNING"
    ELSE IF "verification" \in a.topics THEN "VERIFICATION"
    ELSE classifyFromBehavior(a)

Gemma  == <<"gemma-4-31b-it", "gemma-4-26b-a4b-it", "gemini-3.5-flash">>
Coding == <<"gemini-3.5-flash", "gemini-flash-latest", "gemini-2.5-flash">>
Lite   == <<"gemini-2.5-flash-lite", "gemini-3.1-flash-lite-preview">>

getTaskModelChain(task) ==
    CASE task \in {"REASONING", "PLANNING", "VERIFICATION"} -> Gemma
      [] task \in {"HEAVY_CODING", "LIGHT_CODING"} -> Coding
      [] OTHER -> Lite

\* dedupeChain and enforceModelPool: the first of each is kept, of the pool.
poolChain(s) ==
    LET chain[n \in 0 .. Len(s)] ==
            IF n = 0 THEN <<>>
            ELSE IF s[n] \in ALLOWED_MODEL_POOL /\ \A j \in DOMAIN chain[n - 1] : chain[n - 1][j] # s[n]
                   THEN Append(chain[n - 1], s[n])
            ELSE chain[n - 1]
    IN  chain[Len(s)]

\* DEFAULT_MODEL and FALLBACK_MODEL, unset.
GlobalDefault == <<"gemini-3.5-flash", "gemini-3.5-flash">>

resolveBaseRoute == IF alias = <<>> THEN GlobalDefault ELSE alias

getModelMapping(a) ==
    LET task  == classifyTaskType(a)
        chain == getTaskModelChain(task)
        base  == IF task \in {"HEAVY_CODING", "LIGHT_CODING"} THEN resolveBaseRoute \o chain
                                                             ELSE chain \o resolveBaseRoute
    IN  poolChain(base \o sticky \o Tail(GlobalDefault))

TInit == alias \in Aliases /\ sticky = <<>> /\ asked = <<>> /\ route = <<>>

Route(a) ==
    /\ asked = <<>> /\ asked' = <<a>> /\ route' = getModelMapping(a)
    /\ UNCHANGED <<alias, sticky>>

\* rememberLastWorkingModel, forgetLastWorkingModel: the model that served it is
\* remembered whatever the task was, and forgotten when the request failed.
RequestServed ==
    /\ asked # <<>> /\ asked' = <<>> /\ route' = <<>>
    /\ sticky' \in {<<>>} \cup {<<m>> : m \in ToSet(route)}
    /\ UNCHANGED alias

\* The registry is edited: the models remembered belong to its version.
EditAlias == asked = <<>> /\ alias' \in Aliases /\ sticky' = <<>> /\ UNCHANGED <<asked, route>>

TNext == (\E a \in Requests : Route(a)) \/ RequestServed \/ EditAlias

TSpec == TInit /\ [][TNext]_tvars

-----------------------------------------------------------------------------
\* Whatever the registry holds and whichever model served the user last, a chain has
\* models of the pool only, each once, and the least models lead it only for an alias
\* that is theirs or a message without a text, of one word, or about health,
\* compaction or the web: a wish to go on in a session at work is work.  That a
\* message of tool results alone has no text is no exception the code means to make
\* (intent-detector.ts 95-141, task-router.ts 255-290, model-router.ts 282-346).
LeastModelsForLeastWork ==
    route # <<>> =>
        /\ ToSet(route) \subseteq ALLOWED_MODEL_POOL /\ Cardinality(ToSet(route)) = Len(route)
        /\ Head(route) \in ToSet(Lite) =>
              \/ \E i \in DOMAIN alias : /\ alias[i] \in ToSet(Lite)
                                         /\ \A j \in 1 .. i - 1 : alias[j] \notin ALLOWED_MODEL_POOL
              \/ Head(asked).text \in {"none", "greeting", "word"}
              \/ Head(asked).topics \cap {"health", "compaction", "web"} # {}
              \/ Head(asked).text = "go on" /\ ~hasActiveAgentContext(Head(asked))
===============================================================================
