------------------------------ MODULE MCServices ------------------------------
(***************************************************************************)
(* The gateway's smaller shared services: the leases of tasks, the feed of *)
(* a session's events, the routing registry and the route of a request,    *)
(* the caches of prompts, the web search, the Redis client, the notes      *)
(* sessions leave and the merge of subagents' outputs.  They share nothing *)
(* here, so a behaviour follows one.                                       *)
(***************************************************************************)
EXTENDS Leases, EventFeed, RouteRegistry, PromptCache, WebSearch,
        TaskRouting, RedisClient, ProjectMemory, SubagentMerge

CONSTANTS t1, t2, t3, t4, t5, t6

VARIABLE service

all == <<lvars, fvars, rvars, pvars, wvars, tvars, dvars, mvars, gvars, service>>

Services == {"leases", "feed", "registry", "cache", "search", "routing", "redis", "memory", "merge"}

MCInit ==
    /\ service \in Services
    /\ LInit /\ FInit /\ RInit /\ PInit /\ WInit /\ TInit /\ DInit /\ MInit
    \* A service that is not followed starts in one way only.
    /\ service # "cache"   => ttl = CHOOSE t \in Ttls : TRUE
    /\ service # "search"  => preferred = {"brave"} /\ keyed = AllProviders
    /\ service # "routing" => alias = <<>>
    /\ service # "redis"   => up
    /\ IF service = "merge" THEN GInit ELSE Start(<<>>, <<>>)

LeasesMove   == /\ service = "leases"   /\ LNext
                /\ UNCHANGED <<fvars, rvars, pvars, wvars, tvars, dvars, mvars, gvars, service>>
FeedMoves    == /\ service = "feed"     /\ FNext
                /\ UNCHANGED <<lvars, rvars, pvars, wvars, tvars, dvars, mvars, gvars, service>>
RegistryMove == /\ service = "registry" /\ RNext
                /\ UNCHANGED <<lvars, fvars, pvars, wvars, tvars, dvars, mvars, gvars, service>>
CacheMoves   == /\ service = "cache"    /\ PNext
                /\ UNCHANGED <<lvars, fvars, rvars, wvars, tvars, dvars, mvars, gvars, service>>
SearchMoves  == /\ service = "search"   /\ WNext
                /\ UNCHANGED <<lvars, fvars, rvars, pvars, tvars, dvars, mvars, gvars, service>>
RoutingMoves == /\ service = "routing"  /\ TNext
                /\ UNCHANGED <<lvars, fvars, rvars, pvars, wvars, dvars, mvars, gvars, service>>
RedisMoves   == /\ service = "redis"    /\ DNext
                /\ UNCHANGED <<lvars, fvars, rvars, pvars, wvars, tvars, mvars, gvars, service>>
MemoryMoves  == /\ service = "memory"   /\ MNext
                /\ UNCHANGED <<lvars, fvars, rvars, pvars, wvars, tvars, dvars, gvars, service>>
MergeMoves   == /\ service = "merge"    /\ GNext
                /\ UNCHANGED <<lvars, fvars, rvars, pvars, wvars, tvars, dvars, mvars, service>>

MCNext == \/ LeasesMove \/ FeedMoves \/ RegistryMove \/ CacheMoves
          \/ SearchMoves \/ RoutingMoves \/ RedisMoves \/ MemoryMoves \/ MergeMoves

MCSpec == MCInit /\ [][MCNext]_all

MCTtls == {1, 4}

\* No text, short ones, and texts with at most one topic.
MCRequests ==
    [text : {"none", "greeting", "go on", "word"}, topics : {{}},
     tools : {0, 1, 2, 5}, code : {0}, runs : {0}, turns : {1, 2}, blocks : BOOLEAN, thinking : {FALSE}]
    \cup
    [text : {"text"}, topics : {{}} \cup {{t} : t \in Topics},
     tools : {0, 1, 2, 5}, code : {0, 3}, runs : {0, 4}, turns : {2, 16}, blocks : {FALSE}, thinking : BOOLEAN]

\* No route, one of a coding model, of a lite model, and of a model that is not in the pool.
MCAliases == {<<>>, <<"gemini-flash-latest", "gemini-2.5-flash">>,
              <<"gemini-2.5-flash-lite", "gemini-3.1-flash-lite-preview">>,
              <<"unknown", "gemini-2.5-flash-lite">>}

MCOthers == {"unknown"}

\* Two sessions on projects of one kind, a third on one that differs in its type only.
MCType     == <<"library", "library", "service">>
MCLanguage == <<"ts", "ts", "ts">>
MCRuns     == {1, 2, 3}

\* t3 waits for two tasks, t4 for t3 and one of those; t5 and t6 wait for each
\* other.  Lists in order and out of order; without what a task waits for; with
\* the two that wait for each other.
MCNeeds == (t1 :> <<>>) @@ (t2 :> <<>>) @@ (t3 :> <<t1, t2>>) @@ (t4 :> <<t3, t1>>)
           @@ (t5 :> <<t6>>) @@ (t6 :> <<t1, t5>>)

MCLists == {<<t1, t2, t3, t4>>, <<t4, t3, t2, t1>>, <<t3, t1, t4, t2>>, <<t4, t1, t2>>,
            <<t1, t5, t6>>, <<t6, t5, t1>>}
===============================================================================
