----------------------------- MODULE RetryEngine -----------------------------
(***************************************************************************)
(* executeWithRetry (lib/retry-engine.ts) and the recovery it calls        *)
(* (lib/recovery/overload-recovery.ts): one request to the upstream models.*)
(* First the races; when none is won, attempts one after another, each     *)
(* with a key, a body prepared for the model of the moment, and a reaction *)
(* to what comes back: another key, another model, a smaller body, thought *)
(* signatures or thinking stripped, no cache.                              *)
(*                                                                         *)
(* Abstracted: the keys are those of KeyPool, here only whether there is   *)
(* one; of the body only what kind of thought signatures it carries and    *)
(* whether it asks for thinking; the time budget may run out before any    *)
(* attempt; health scores may rank the models of the chain in any way;     *)
(* back-off, the sticky route and images are left out.                     *)
(***************************************************************************)
EXTENDS Naturals, Sequences, FiniteSets

CONSTANTS
    Models,              \* model names
    Chain,               \* OVERLOAD_FALLBACK_CHAIN
    Bodies,              \* the bodies requests may come with
    ConfiguredRetries    \* MAX_RETRIES

Body == [sigs : {"none", "text", "calls"}, thinking : BOOLEAN]

ASSUME RetryEngineAssumption ==
    /\ IsFiniteSet(Chain) /\ Chain \subseteq Models /\ Chain # {}
    /\ Bodies \subseteq Body /\ ConfiguredRetries \in Nat

VARIABLES
    at,              \* where the request is: "idle", "racing", "raced", "loop", "calling", or its outcome
    route,           \* primary model and configured fallbacks (modelMap)
    body,            \* geminiBody
    model,           \* currentInternalModel
    next,            \* fallbackIndex, from 1
    attempt,
    stripSigs, stripThinking, freeRetryUsed, skipCache,
    cached,          \* lastCacheHash # null
    overloaded,      \* overloadedModels
    events,          \* overloadEvents
    sent,            \* the body of the calls under way
    racers,          \* the models a race has under way
    calls,           \* history: calls made, those of the races apart
    glitched         \* history: a 400 was taken for a glitch of the server

engine == <<at, route, body, model, next, attempt, stripSigs, stripThinking, freeRetryUsed,
            skipCache, cached, overloaded, events, sent, racers, calls, glitched>>

Route == [primary : Models, fallback : Seq(Models)]

Larger(m, n)  == IF m < n THEN n ELSE m
Smaller(m, n) == IF m < n THEN m ELSE n

MaxRetries == Smaller(Larger(ConfiguredRetries, 2 * Len(route.fallback) + 2), 12)

MaxOverloadEvents == Larger(4, Smaller(Cardinality(Chain) + 1, 8))

AllOverloaded(tried) ==
    Cardinality(tried) >= Larger(1 + Len(route.fallback), Cardinality(Chain))

Outcomes == {"ok", "overloaded", "failed"}

-----------------------------------------------------------------------------
\* What compaction may leave of a body: the turns it drops may be those signed.
Compactions(b) == {b, [b EXCEPT !.sigs = "none"]}

\* Mutant: a switch of model keeps what belongs to the model before.
PreparedForAnyModel(b) ==
    [sigs     |-> IF stripThinking THEN "none" ELSE IF stripSigs /\ b.sigs = "text" THEN "none" ELSE b.sigs,
     thinking |-> b.thinking /\ ~stripThinking]

\* The body of an attempt: signatures and thinking do not survive a change of
\* model; stripSigs alone would leave those of the function calls.
Prepared(b) ==
    LET reset == model # route.primary \/ stripThinking
    IN  [sigs     |-> IF reset \/ (stripSigs /\ b.sigs = "text") THEN "none" ELSE b.sigs,
         thinking |-> b.thinking /\ ~reset]

\* What applyCache sends in its place: a reference to the cached prefix, and a
\* tail without the signatures of text.
WithCache(b) == IF b.sigs = "text" THEN [b EXCEPT !.sigs = "none"] ELSE b

\* Where recoverFromOverload sends a request whose model is m: to any model of
\* the chain not tried, m among the tried; the set is empty when there is none.
NewModels(m, tried) == Chain \ (tried \cup {m})

\* How far the fallbacks are used up once recovery has chosen m: past m, or
\* past all of them.
NextAfter(m) ==
    LET found == {i \in next .. Len(route.fallback) : route.fallback[i] = m}
    IN  IF found = {} THEN Len(route.fallback) + 1
        ELSE (CHOOSE i \in found : \A j \in found : i <= j) + 1

HasFallback == next <= Len(route.fallback)

Fallback == model' = route.fallback[next] /\ next' = next + 1

\* Recovery chose another model, or none is left and a configured one is used.
Redirected(skips) ==
    \/ \E m \in NewModels(model, overloaded) :
          model' = m /\ next' = IF skips THEN NextAfter(m) ELSE next
    \/ /\ NewModels(model, overloaded) = {}
       /\ IF HasFallback THEN Fallback ELSE UNCHANGED <<model, next>>

-----------------------------------------------------------------------------
\* A request comes, with the route the router has chosen.
Begin(r, b) ==
    /\ at = "idle" /\ at' = "racing"
    /\ route' = r /\ model' = r.primary /\ body' = b /\ sent' = b
    /\ next' = 1 /\ attempt' = 1 /\ events' = 0 /\ overloaded' = {} /\ calls' = 0
    /\ stripSigs' = FALSE /\ stripThinking' = FALSE /\ freeRetryUsed' = FALSE
    /\ skipCache' = FALSE /\ cached' = FALSE /\ glitched' = FALSE /\ racers' = {}

Constant == UNCHANGED <<route, freeRetryUsed, calls, glitched, racers>>

Settings == <<stripSigs, stripThinking, skipCache, cached>>

\* Those asked together: the primary, and the first fallbacks.
Contenders == {route.primary} \cup {route.fallback[i] : i \in 1 .. Smaller(2, Len(route.fallback))}

\* Keys race on the primary, then models race, each that a key is found for; all
\* get the body as it is.
Race ==
    /\ at = "racing" /\ at' = "raced" /\ racers' \in SUBSET Contenders
    /\ body' \in Compactions(body) /\ sent' = body'
    /\ UNCHANGED <<route, freeRetryUsed, calls, glitched, model, next, attempt, Settings, overloaded, events>>

\* One wins, or nothing came of it in time.
EndRace ==
    /\ at = "raced" /\ at' \in (IF racers = {} THEN {"loop"} ELSE {"ok", "loop"}) /\ racers' = {}
    /\ UNCHANGED <<route, freeRetryUsed, calls, glitched, body, model, next, attempt, Settings, overloaded,
                   events, sent>>

\* No attempt is left, or no time.
GiveUp ==
    /\ at = "loop" /\ at' = "overloaded"
    /\ Constant /\ UNCHANGED <<body, model, next, attempt, Settings, overloaded, events, sent>>

\* No key: recovery may find one meanwhile; the model counts as overloaded.
FindNoKey ==
    /\ at = "loop" /\ attempt <= MaxRetries
    /\ overloaded' = overloaded \cup {model}
    /\ \/ at' = "loop" /\ attempt' = attempt + 1
       \/ at' = "overloaded" /\ UNCHANGED attempt
    /\ Constant /\ UNCHANGED <<body, model, next, Settings, events, sent>>

\* A key is there: the body is prepared and the call goes out.
CallModel ==
    /\ at = "loop" /\ attempt <= MaxRetries
    /\ at' = "calling" /\ calls' = calls + 1
    /\ \/ ~skipCache /\ cached' \in BOOLEAN
          /\ sent' \in {Prepared(body)} \cup (IF cached' THEN {WithCache(Prepared(body))} ELSE {})
       \/ skipCache /\ cached' = FALSE /\ sent' = Prepared(body)
    /\ UNCHANGED <<route, body, model, next, attempt, stripSigs, stripThinking, freeRetryUsed,
                   skipCache, overloaded, events, glitched, racers>>

\* 200.
Succeed ==
    /\ at = "calling" /\ at' = "ok"
    /\ Constant /\ UNCHANGED <<body, model, next, attempt, Settings, overloaded, events, sent>>

\* 403 and 429: the key's fault.
RefuseKey ==
    /\ at = "calling" /\ at' = "loop" /\ attempt' = attempt + 1
    /\ Constant /\ UNCHANGED <<body, model, next, Settings, overloaded, events, sent>>

\* 503: on to the next fallback; without one the request has failed.
Unavailable ==
    /\ at = "calling" /\ overloaded' = overloaded \cup {model}
    /\ IF HasFallback
         THEN at' = "loop" /\ attempt' = attempt + 1 /\ Fallback
         ELSE at' = "overloaded" /\ UNCHANGED <<attempt, model, next>>
    /\ Constant /\ UNCHANGED <<body, Settings, events, sent>>

\* Mutant: the fallback recovery has chosen is left in line.
FailServerInLine ==
    /\ at = "calling" /\ overloaded' = overloaded \cup {model}
    /\ Redirected(FALSE)
    /\ IF AllOverloaded(overloaded')
         THEN at' = "overloaded" /\ UNCHANGED attempt
         ELSE at' = "loop" /\ attempt' = attempt + 1
    /\ Constant /\ UNCHANGED <<body, Settings, events, sent>>

\* Any other 5xx: compact, recover, another model.
FailServer ==
    /\ at = "calling" /\ overloaded' = overloaded \cup {model}
    /\ \/ UNCHANGED <<body, skipCache, cached>>
       \/ body' \in Compactions(body) /\ skipCache' = TRUE /\ cached' = FALSE
    /\ Redirected(TRUE)
    /\ IF AllOverloaded(overloaded')
         THEN at' = "overloaded" /\ UNCHANGED attempt
         ELSE at' = "loop" /\ attempt' = attempt + 1
    /\ Constant /\ UNCHANGED <<stripSigs, stripThinking, events, sent>>

\* 400 'unexpected error': a glitch of the server.
Glitch ==
    /\ at = "calling" /\ overloaded' = overloaded \cup {model} /\ glitched' = TRUE
    /\ Redirected(FALSE)
    /\ IF AllOverloaded(overloaded')
         THEN at' = "overloaded" /\ UNCHANGED attempt
         ELSE at' = "loop" /\ attempt' = attempt + 1
    /\ UNCHANGED <<route, freeRetryUsed, calls, racers, body, Settings, events, sent>>

\* 400 about the cache.
RejectCache ==
    /\ at = "calling" /\ cached /\ cached' = FALSE /\ skipCache' = TRUE
    /\ at' = "loop" /\ attempt' = attempt + 1
    /\ Constant
    /\ UNCHANGED <<body, model, next, stripSigs, stripThinking, overloaded, events, sent>>

\* Mutant: the retry after a signature error is free every time.
RejectSignatureFreely ==
    /\ at = "calling" /\ stripSigs' = TRUE /\ stripThinking' = TRUE
    /\ at' = "loop" /\ attempt' = attempt /\ freeRetryUsed' = TRUE
    /\ UNCHANGED <<route, calls, glitched, racers, body, model, next, skipCache, cached, overloaded,
                   events, sent>>

\* 400 about a thought signature: both are stripped; the first time is free.
RejectSignature ==
    /\ at = "calling" /\ stripSigs' = TRUE /\ stripThinking' = TRUE
    /\ at' = "loop" /\ attempt' = IF freeRetryUsed THEN attempt + 1 ELSE attempt
    /\ freeRetryUsed' = TRUE
    /\ UNCHANGED <<route, calls, glitched, racers, body, model, next, skipCache, cached, overloaded,
                   events, sent>>

\* 400 about the number of tokens asked for: the next attempts ask for fewer.
RejectLength ==
    /\ at = "calling" /\ at' = "loop" /\ attempt' = attempt + 1
    /\ Constant /\ UNCHANGED <<body, model, next, Settings, overloaded, events, sent>>

\* Any other 400: strip signatures and thinking, then thinking, then change model.
RejectBody ==
    /\ at = "calling" /\ at' = "loop" /\ attempt' = attempt + 1
    /\ \/ /\ sent.sigs # "none" /\ ~stripSigs
          /\ stripSigs' = TRUE /\ stripThinking' = TRUE /\ UNCHANGED <<model, next>>
       \/ /\ ~(sent.sigs # "none" /\ ~stripSigs) /\ sent.thinking /\ ~stripThinking
          /\ stripThinking' = TRUE /\ UNCHANGED <<stripSigs, model, next>>
       \/ /\ ~(sent.sigs # "none" /\ ~stripSigs) /\ ~(sent.thinking /\ ~stripThinking)
          /\ IF HasFallback THEN Fallback ELSE UNCHANGED <<model, next>>
          /\ UNCHANGED <<stripSigs, stripThinking>>
    /\ Constant /\ UNCHANGED <<body, skipCache, cached, overloaded, events, sent>>

\* Any other status, or the connection fails: thrown, and not caught here.
Fail ==
    /\ at = "calling" /\ at' \in {"failed", "overloaded"}
    /\ Constant /\ UNCHANGED <<body, model, next, attempt, Settings, overloaded, events, sent>>

\* The call times out.  The message of the error names no overload, so nothing is
\* compacted, and what is thrown when timeouts are too many is no overload either.
TimeOut ==
    /\ at = "calling" /\ overloaded' = overloaded \cup {model} /\ events' = events + 1
    /\ Redirected(TRUE)
    /\ IF events' >= MaxOverloadEvents
         THEN at' = "failed" /\ UNCHANGED attempt
         ELSE at' = "loop" /\ attempt' = attempt + 1
    /\ Constant /\ UNCHANGED <<body, Settings, sent>>

Respond ==
    \/ Succeed \/ RefuseKey \/ Unavailable \/ FailServer \/ Glitch \/ RejectCache
    \/ RejectSignature \/ RejectLength \/ RejectBody \/ Fail \/ TimeOut

Execute == Race \/ EndRace \/ GiveUp \/ FindNoKey \/ CallModel \/ Respond

\* Nobody is being served.
NoRoute == [primary |-> CHOOSE m \in Chain : TRUE, fallback |-> <<>>]
NoBody  == [sigs |-> "none", thinking |-> FALSE]

EngineInit ==
    /\ at = "idle" /\ route = NoRoute /\ body = NoBody /\ sent = NoBody
    /\ model = NoRoute.primary /\ next = 1 /\ attempt = 1 /\ events = 0 /\ overloaded = {}
    /\ stripSigs = FALSE /\ stripThinking = FALSE /\ freeRetryUsed = FALSE
    /\ skipCache = FALSE /\ cached = FALSE /\ racers = {} /\ calls = 0 /\ glitched = FALSE

\* The caller has the outcome.
Leave ==
    /\ at \in Outcomes /\ at' = "idle"
    /\ route' = NoRoute /\ body' = NoBody /\ sent' = NoBody
    /\ model' = NoRoute.primary /\ next' = 1 /\ attempt' = 1 /\ events' = 0 /\ overloaded' = {}
    /\ stripSigs' = FALSE /\ stripThinking' = FALSE /\ freeRetryUsed' = FALSE
    /\ skipCache' = FALSE /\ cached' = FALSE /\ racers' = {} /\ calls' = 0 /\ glitched' = FALSE

\* The engine by itself, one request after another.
EngineNext == (\E r \in Route, b \in Bodies : Begin(r, b)) \/ Execute \/ Leave

EngineSpec == EngineInit /\ [][EngineNext]_engine

\* No model is named twice in a route.
Distinct(r) ==
    /\ \A i \in DOMAIN r.fallback : r.fallback[i] # r.primary
    /\ \A i, j \in DOMAIN r.fallback : r.fallback[i] = r.fallback[j] => i = j

-----------------------------------------------------------------------------
(* Properties.                                                             *)

EngineTypeOK ==
    /\ at \in {"idle", "racing", "raced", "loop", "calling"} \cup Outcomes
    /\ route \in Route /\ body \in Body /\ sent \in Body /\ model \in Models
    /\ next \in Nat \ {0} /\ attempt \in Nat \ {0} /\ events \in Nat /\ calls \in Nat
    /\ overloaded \subseteq Models /\ racers \subseteq Models
    /\ {stripSigs, stripThinking, freeRetryUsed, skipCache, cached, glitched} \subseteq BOOLEAN

\* However the answers come, a request makes no more calls than its retries and
\* the one that is free, so a client waits for a bounded number of them.
CallsWithinBudget ==
    at # "idle" => calls <= MaxRetries + 1

\* The models that calls are under way to, and what their body takes to them.
Asked          == CASE at = "raced" -> racers [] at = "calling" -> {model} [] OTHER -> {}
CarriesThought == sent.sigs # "none" \/ sent.thinking

\* "Never set one without the other" (retry-engine.ts 635): an attempt that asks for
\* thinking carries the signatures of its function calls (the cache drops only those
\* of text); and "thoughtSignatures are only valid for the model that produced them"
\* (415): neither goes to another model than the primary of the route, unless models
\* race, for they get the body as it is.
ThinkingKeepsSignatures ==
    /\ at = "calling" /\ sent.thinking /\ body.sigs = "calls" => sent.sigs = "calls"
    /\ CarriesThought => Asked \subseteq {route.primary} \/ at = "raced"

\* A request that changes model does not return to one it found overloaded:
\* unless a glitch had sent it to a fallback without passing over it.
ChangesToUntried ==
    [][model' # model /\ at = "calling" /\ ~glitched => model' \notin overloaded]_engine
=============================================================================
