------------------------------- MODULE WebSearch -------------------------------
(***************************************************************************)
(* The web search of a request (tools/search-executor.ts, web-search.ts):  *)
(* the model is called until it asks for no more searches; those of one    *)
(* answer run side by side, each asking all providers at once under one    *)
(* time limit.  Of results only whether there are any.                     *)
(***************************************************************************)
EXTENDS Naturals, Sequences

CONSTANTS
    MaxUses,        \* webSearchConfig.maxUses
    MAX_SEARCH_TURNS,
    MaxCalls        \* bound: searches in one answer

ASSUME SearchAssumption == MaxUses \in Nat /\ MAX_SEARCH_TURNS \in Nat /\ MaxCalls \in Nat \ {0}

VARIABLES
    preferred,      \* the providers that come first in getProviderPriority()
    keyed,          \* the providers with an API key
    state,          \* of the loop: "asking", "searching", "done"
    turnsTaken, searchUses,
    settled,        \* of each search under way: what each provider found
    told,           \* what the model was told of each, "nothing" yet
    pending         \* the final answer asks for searches

wvars == <<preferred, keyed, state, turnsTaken, searchUses, settled, told, pending>>

Rank == [brave |-> 1, tavily |-> 2, serpapi |-> 3]
AllProviders == DOMAIN Rank

\* WEB_SEARCH_PROVIDER first, or those with a key.
getProviderPriority(named, keys) == IF named \in AllProviders THEN {named} ELSE keys

Before(p, q) == IF p \in preferred <=> q \in preferred THEN Rank[p] < Rank[q] ELSE p \in preferred

WInit ==
    /\ keyed \in SUBSET AllProviders
    /\ \E named \in AllProviders \cup {"auto"} : preferred = getProviderPriority(named, keyed)
    /\ state = "asking" /\ turnsTaken = 0 /\ searchUses = 0
    /\ settled = <<>> /\ told = <<>> /\ pending = FALSE

Searches(k) ==
    /\ state' = "searching" /\ turnsTaken' = turnsTaken + 1 /\ searchUses' = searchUses + k
    /\ settled' = [c \in 1 .. k |-> [p \in AllProviders |-> "waiting"]]
    /\ told' = [c \in 1 .. k |-> "nothing"]

Ends(asks) ==
    /\ state' = "done" /\ pending' = asks
    /\ UNCHANGED <<turnsTaken, searchUses, settled, told>>

\* Mutant: every search is run.
AskUnlimited ==
    /\ state = "asking" /\ UNCHANGED <<preferred, keyed>>
    /\ IF turnsTaken = MAX_SEARCH_TURNS THEN Ends(FALSE)
       ELSE \/ Ends(FALSE)
            \/ \E k \in 1 .. MaxCalls : Searches(k) /\ UNCHANGED pending

\* runWithWebSearch: the model answers; the limit is looked at before all searches
\* of an answer; after the last turn the tool is withdrawn.
Ask ==
    /\ state = "asking" /\ UNCHANGED <<preferred, keyed>>
    /\ IF turnsTaken = MAX_SEARCH_TURNS THEN Ends(FALSE)
       ELSE \/ Ends(FALSE)
            \/ searchUses >= MaxUses /\ Ends(TRUE)
            \/ /\ searchUses < MaxUses
               /\ \E k \in 1 .. MaxCalls : Searches(k) /\ UNCHANGED pending

\* A provider answers, fails or runs into its own time limit; one without a key fails.
Settle(c, p) ==
    /\ state = "searching" /\ told[c] = "nothing" /\ settled[c][p] = "waiting"
    /\ \E found \in IF p \in keyed THEN {"results", "none", "failure"} ELSE {"failure"} :
         settled' = [settled EXCEPT ![c][p] = found]
    /\ UNCHANGED <<preferred, keyed, state, turnsTaken, searchUses, told, pending>>

Told(c, what) ==
    /\ told' = [told EXCEPT ![c] = what]
    /\ UNCHANGED <<preferred, keyed, state, turnsTaken, searchUses, settled, pending>>

\* executeWebSearch: when all have settled, the first in order that found something.
executeWebSearch(c) ==
    /\ state = "searching" /\ told[c] = "nothing"
    /\ \A p \in AllProviders : settled[c][p] # "waiting"
    /\ LET found == {p \in AllProviders : settled[c][p] = "results"}
       IN  Told(c, IF found = {} THEN "failure"
                   ELSE CHOOSE p \in found : \A q \in found \ {p} : Before(p, q))

\* Nothing but blanks is searched for.
EmptyQuery(c) == state = "searching" /\ told[c] = "nothing" /\ Told(c, "failure")
                 /\ \A p \in AllProviders : settled[c][p] = "waiting"

\* executeWebSearchSafe: the limit of the whole search.
GlobalTimeout(c) == state = "searching" /\ told[c] = "nothing" /\ Told(c, "timeout")

\* All searches of the answer are over: the model is called with what they found.
NextTurn ==
    /\ state = "searching" /\ \A c \in 1 .. Len(told) : told[c] # "nothing"
    /\ state' = "asking" /\ settled' = <<>> /\ told' = <<>>
    /\ UNCHANGED <<preferred, keyed, turnsTaken, searchUses, pending>>

\* Another request of the client.
NextRequest ==
    /\ state = "done" /\ state' = "asking" /\ turnsTaken' = 0 /\ searchUses' = 0 /\ pending' = FALSE
    /\ UNCHANGED <<preferred, keyed, settled, told>>

WNext ==
    \/ Ask \/ NextTurn \/ NextRequest
    \/ \E c \in 1 .. Len(told) :
         \/ \E p \in AllProviders : Settle(c, p)
         \/ executeWebSearch(c) \/ EmptyQuery(c) \/ GlobalTimeout(c)

WSpec == WInit /\ [][WNext]_wvars

-----------------------------------------------------------------------------
\* What a provider found is told to the model unless the search ran out of time,
\* and of the best provider that found something; the model searches as often as
\* it may and for the rest of one answer beyond, and an answer that still asks
\* for a search goes out only then (search-executor.ts 43-99, web-search.ts 321-391).
SearchesAreTold ==
    /\ \A c \in 1 .. Len(told), p \in AllProviders :
         told[c] \notin {"nothing", "timeout"} /\ settled[c][p] = "results" =>
            /\ told[c] \in AllProviders /\ settled[c][told[c]] = "results"
            /\ told[c] = p \/ Before(told[c], p)
    /\ MaxUses > 0 => searchUses < MaxUses + MaxCalls
    /\ pending => searchUses >= MaxUses
===============================================================================
