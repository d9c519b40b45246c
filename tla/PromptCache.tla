------------------------------ MODULE PromptCache ------------------------------
(***************************************************************************)
(* Caches of a prompt's prefix at Gemini, and their names in Redis         *)
(* (cache-manager.ts, applyCache of retry-engine.ts): requests with the    *)
(* same model, key and prefix look the name up, or make a cache and save   *)
(* its name for a while that should end before the cache does.  Times in   *)
(* ticks; a cache lives from when Gemini made it, its name from when it    *)
(* was saved, and the answer that carries the name has no time limit.      *)
(***************************************************************************)
EXTENDS Integers

CONSTANTS
    Callers,
    Ttls,          \* what CACHE_TTL_SECONDS may be set to
    Margin,        \* 30 s
    MinTtl,        \* the 30 s a name is saved for at least
    MaxCaches      \* bound: caches made

ASSUME CacheAssumption ==
    Ttls \subseteq Nat /\ Margin \in Nat /\ MinTtl \in Nat \ {0} /\ MaxCaches \in Nat

VARIABLES
    ttl,           \* CACHE_TTL_SECONDS
    ages,          \* of each cache made: its age, up to ttl when Gemini drops it
    delays,        \* of each cache made: its age when its name was saved, or -1
    name,          \* gemini:cache:<hash>: a cache, 0 for none
    left,          \* ticks until the name expires
    step, uses     \* of each caller: what it does next, and the cache it names, 0 for none

pvars == <<ttl, ages, delays, name, left, step, uses>>

Caches == 1 .. MaxCaches
Unmade == -1
Then(c, s) == step' = [step EXCEPT ![c] = s]

PInit ==
    /\ ttl \in Ttls
    /\ ages = [k \in Caches |-> Unmade] /\ delays = [k \in Caches |-> Unmade]
    /\ name = 0 /\ left = 0
    /\ step = [c \in Callers |-> "idle"] /\ uses = [c \in Callers |-> 0]

lookupCache(c) ==
    /\ step[c] = "idle"
    /\ IF name # 0 THEN uses' = [uses EXCEPT ![c] = name] /\ Then(c, "call")
                   ELSE Then(c, "create") /\ UNCHANGED uses
    /\ UNCHANGED <<ttl, ages, delays, name, left>>

\* Gemini makes the cache, or none: the request goes out whole then.
createCachedContent(c) ==
    /\ step[c] = "create"
    /\ \/ \E k \in Caches :
            /\ ages[k] = Unmade /\ \A j \in Caches : j < k => ages[j] # Unmade
            /\ ages' = [ages EXCEPT ![k] = 0] /\ uses' = [uses EXCEPT ![c] = k] /\ Then(c, "save")
       \/ Then(c, "call") /\ UNCHANGED <<ages, uses>>
    /\ UNCHANGED <<ttl, delays, name, left>>

\* Mutant: the name is saved for as long as the cache lives.
SavedFor == ttl

\* Math.max(30, CACHE_TTL_SECONDS - 30)
SavedTtl == IF ttl - Margin > MinTtl THEN ttl - Margin ELSE MinTtl

\* Its answer has come: the name replaces another's.
saveCache(c) ==
    /\ step[c] = "save" /\ Then(c, "call")
    /\ name' = uses[c] /\ left' = SavedTtl
    /\ delays' = [delays EXCEPT ![uses[c]] = ages[uses[c]]]
    /\ UNCHANGED <<ttl, ages, uses>>

\* The call is over; when Gemini does not know the cache, the mapping goes, whose
\* name it may be by now, and the request is sent again without it.
Called(c) ==
    /\ step[c] = "call"
    /\ Then(c, "idle") /\ uses' = [uses EXCEPT ![c] = 0]
    /\ IF uses[c] # 0 /\ ages[uses[c]] = ttl THEN name' = 0 /\ left' = 0
                                              ELSE UNCHANGED <<name, left>>
    /\ UNCHANGED <<ttl, ages, delays>>

TickCaches ==
    /\ ages' = [k \in Caches |-> IF ages[k] \in 0 .. ttl - 1 THEN ages[k] + 1 ELSE ages[k]]
    /\ left' = IF left > 0 THEN left - 1 ELSE 0
    /\ name' = IF left <= 1 THEN 0 ELSE name
    /\ UNCHANGED <<ttl, delays, step, uses>>

PNext ==
    \/ \E c \in Callers : lookupCache(c) \/ createCachedContent(c) \/ saveCache(c) \/ Called(c)
    \/ TickCaches

PSpec == PInit /\ [][PNext]_pvars

-----------------------------------------------------------------------------
\* "so we never point at an expired cache" (cache-manager.ts 101-103): a name that is
\* looked up is that of a cache that lives, whoever saved and deleted it, except
\* when Gemini's answer took longer than the margin, or the time to live is set so
\* short that the least time of a name outlives it.
NameOutlivedOnlyByDelay ==
    name # 0 /\ ages[name] >= ttl => delays[name] > Margin \/ ttl < MinTtl + Margin
===============================================================================
