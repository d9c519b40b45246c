---------------------------- MODULE MCConversation ----------------------------
(***************************************************************************)
(* What a request does with its conversation: the way of its messages to   *)
(* the model (History), what it tells the model of them (Guidance) and the *)
(* limits it sets (GenerationConfig).  The three share nothing but the     *)
(* request, so a behaviour follows one of them.                            *)
(***************************************************************************)
EXTENDS History, Guidance, GenerationConfig

VARIABLE part

Step(tool, res) == [tool |-> tool, res |-> res]

\* A conversation is about a file and its place, about a server, or about failures.
MCTopic ==
    [file     |-> {Step("edit", res) : res \in {"ok", "error", "gone"}}
                    \cup {Step("read", "here"), Step("read", "elsewhere"), Clear},
     server   |-> {Step("serve", res) : res \in {"ok", "gone", "odd", "exit"}} \cup {Claim},
     failures |-> {Step("read", "error"), Step("edit", "usage"), Step("edit", "gone"),
                   Step("remove", "ok"), Claim}]
MCSteps == UNION Range(MCTopic)

MCAskedTokens  == {None, 0, 512, 4096, 100000}
MCAskedBudgets == {None, Invalid, -1, 0, 2000, 30000}
MCModels       == {"gemini-2.5-flash", "gemini-3-flash-preview", "gemini-flash-latest"}
MCCeiling ==
    [m \in MCModels |-> CASE m = "gemini-2.5-flash" -> 65024
                          [] m = "gemini-3-flash-preview" -> 63488
                          [] OTHER -> 7680]
MCThinks ==
    [m \in MCModels |-> CASE m = "gemini-2.5-flash" -> "budget"
                          [] m = "gemini-3-flash-preview" -> "level"
                          [] OTHER -> "no"]

MCInit ==
    /\ Init /\ GInit /\ CInit
    /\ part \in {"history", "config"} \cup DOMAIN MCTopic
    /\ part = "file" \/ (place = "here" /\ explicit)

HistoryMoves  == part = "history"  /\ Next      /\ UNCHANGED <<gvars, cvars, part>>
GuidanceMoves ==
    /\ part \in DOMAIN MCTopic /\ GNext /\ UNCHANGED <<vars, cvars, part>>
    /\ ToSet(log') \subseteq MCTopic[part]
ConfigMoves   == part = "config"   /\ Configure /\ UNCHANGED <<vars, gvars, part>>

MCNext == HistoryMoves \/ GuidanceMoves \/ ConfigMoves
MCSpec == MCInit /\ [][MCNext]_<<vars, gvars, cvars, part>>
===============================================================================
