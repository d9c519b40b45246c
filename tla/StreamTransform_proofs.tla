------------------------ MODULE StreamTransform_proofs ------------------------
(***************************************************************************)
(* Proofs about the retry engine by itself, for any models, any recovery   *)
(* chain, any routes and any answers, in any order; and about a streamed   *)
(* message over it, for any bodies and any number of chunks.               *)
(*                                                                         *)
(* The engine's budget is kept because every call but one raises attempt   *)
(* (Paid); a request does not go back to a model it found overloaded       *)
(* because what is left of its fallbacks holds none of them (InLine), as   *)
(* long as no glitch sent it to a fallback out of line and no model is in  *)
(* the route twice.                                                        *)
(*                                                                         *)
(* The generator is ahead of its client by the events in out.  So the      *)
(* invariant of the stream speaks of the client as it will be once it has  *)
(* heard them: there is a way from the client of now to that one on which  *)
(* every event is allowed by ClientProtocol (Told), and that client agrees *)
(* with what transformStream takes it for (Agrees).                        *)
(***************************************************************************)
EXTENDS StreamTransform, SequenceTheorems, WellFoundedInduction, TLAPS

-----------------------------------------------------------------------------
(* The retry engine.                                                       *)

PlaceOK == at \in {"idle", "racing", "raced", "loop", "calling"} \cup Outcomes

ThingsOK ==
    /\ route \in Route /\ body \in Body /\ sent \in Body
    /\ model \in Models /\ overloaded \subseteq Models /\ racers \subseteq Models

NumbersOK == next \in Nat \ {0} /\ attempt \in Nat \ {0} /\ events \in Nat /\ calls \in Nat

FlagsOK ==
    /\ stripSigs \in BOOLEAN /\ stripThinking \in BOOLEAN /\ freeRetryUsed \in BOOLEAN
    /\ skipCache \in BOOLEAN /\ cached \in BOOLEAN /\ glitched \in BOOLEAN

EngineTypes == PlaceOK /\ ThingsOK /\ NumbersOK /\ FlagsOK

Free == IF freeRetryUsed THEN 1 ELSE 0

\* Every call but the free one has been paid for with an attempt.
Paid ==
    /\ at \in {"racing", "raced"} => calls = 0 /\ attempt = 1
    /\ at = "loop" => calls <= attempt - 1 + Free /\ attempt <= MaxRetries + 1
    /\ at = "calling" => calls <= attempt + Free /\ attempt <= MaxRetries
    /\ at \in Outcomes => calls <= MaxRetries + 1

\* None of the fallbacks in line is the model of the moment, or overloaded.
InLine ==
    ~glitched /\ Distinct(route) =>
        \A i \in next .. Len(route.fallback) :
            route.fallback[i] # model /\ route.fallback[i] \notin overloaded

EngineInv == EngineTypes /\ Paid /\ ThinkingKeepsSignatures /\ InLine

-----------------------------------------------------------------------------
(* Numbers and places.                                                     *)

\* Some places have a first one.
LEMMA FirstOfSome ==
    ASSUME NEW S \in SUBSET Nat, S # {}
    PROVE  \E i \in S : \A j \in S : i <= j
<1>1. PICK i \in S : \A j \in S : ~(<<j, i>> \in OpToRel(<, Nat))
  BY NatLessThanWellFounded, WFMin
<1>2. \A j \in S : ~(j < i)
  BY <1>1 DEF OpToRel
<1> QED
  BY <1>2

LEMMA RetriesPositive ==
    ASSUME route \in Route
    PROVE  MaxRetries \in Nat
<1>1. Len(route.fallback) \in Nat
  BY DEF Route
<1>2. ConfiguredRetries \in Nat
  BY RetryEngineAssumption
<1> QED
  BY <1>1, <1>2 DEF MaxRetries, Larger, Smaller

\* A fallback there is, is one of the route.
LEMMA FallbackKnown ==
    ASSUME route \in Route, next \in Nat \ {0}, HasFallback
    PROVE  next \in 1 .. Len(route.fallback) /\ route.fallback[next] \in Models
<1>1. route.fallback \in Seq(Models)
  BY DEF Route
<1>2. next \in 1 .. Len(route.fallback)
  BY <1>1 DEF HasFallback
<1> QED
  BY <1>1, <1>2

\* Who races is of the route.
LEMMA ContendersKnown ==
    ASSUME route \in Route
    PROVE  Contenders \subseteq Models
<1>1. route.primary \in Models /\ route.fallback \in Seq(Models) /\ Len(route.fallback) \in Nat
  BY DEF Route
<1>2. ASSUME NEW i \in 1 .. Smaller(2, Len(route.fallback)) PROVE route.fallback[i] \in Models
  <2>1. i \in 1 .. Len(route.fallback)
    BY <1>1, <1>2 DEF Smaller
  <2> QED
    BY <1>1, <2>1
<1> QED
  BY <1>1, <1>2 DEF Contenders

\* Recovery uses up the fallbacks to the one it chose, or all of them.
LEMMA AfterKnown ==
    ASSUME EngineTypes, NEW m
    PROVE  /\ NextAfter(m) \in Nat \ {0}
           /\ \A i \in NextAfter(m) .. Len(route.fallback) : i >= next
           /\ \A i \in next .. Len(route.fallback) :
                 route.fallback[i] = m =>
                    \E j \in next .. Len(route.fallback) : route.fallback[j] = m /\ NextAfter(m) = j + 1
<1> DEFINE n == Len(route.fallback)
           found == {i \in next .. n : route.fallback[i] = m}
<1>1. n \in Nat /\ next \in Nat \ {0}
  BY DEF EngineTypes, ThingsOK, NumbersOK, Route
<1>2. CASE found = {}
  <2>1. NextAfter(m) = n + 1
    BY <1>2 DEF NextAfter
  <2> QED
    BY <1>1, <1>2, <2>1
<1>3. CASE found # {}
  <2>1. \E i \in found : \A j \in found : i <= j
    <3>1. found \in SUBSET Nat
      BY <1>1
    <3> HIDE DEF found
    <3> QED
      BY <1>3, <3>1, FirstOfSome
  <2>2. PICK j \in found : NextAfter(m) = j + 1
    BY <1>3, <2>1 DEF NextAfter
  <2> QED
    BY <1>1, <2>2
<1> QED
  BY <1>2, <1>3

\* A request that is sent elsewhere goes to a model.
LEMMA RedirectKnown ==
    ASSUME EngineTypes, NEW skips \in BOOLEAN, Redirected(skips)
    PROVE  model' \in Models /\ next' \in Nat \ {0}
<1>1. Chain \subseteq Models /\ model \in Models /\ next \in Nat \ {0} /\ route \in Route
  BY RetryEngineAssumption DEF EngineTypes, ThingsOK, NumbersOK
<1>2. ASSUME NEW m \in NewModels(model, overloaded),
             model' = m, next' = IF skips THEN NextAfter(m) ELSE next
      PROVE  model' \in Models /\ next' \in Nat \ {0}
  <2>1. NextAfter(m) \in Nat \ {0}
    BY AfterKnown
  <2> QED
    BY <1>1, <1>2, <2>1 DEF NewModels
<1>3. CASE HasFallback /\ Fallback
  <2>1. next \in 1 .. Len(route.fallback) /\ route.fallback[next] \in Models
    BY <1>1, <1>3, FallbackKnown
  <2> QED
    BY <1>1, <1>3, <2>1 DEF Fallback
<1>4. CASE UNCHANGED <<model, next>>
  BY <1>1, <1>4
<1> QED
  BY <1>2, <1>3, <1>4 DEF Redirected

-----------------------------------------------------------------------------
(* Types and the budget.                                                   *)

LEMMA EngineStartOK == EngineInit => EngineInv
<1> SUFFICES ASSUME EngineInit PROVE EngineInv
  OBVIOUS
<1>1. NoRoute.primary \in Chain /\ Chain \subseteq Models
  BY RetryEngineAssumption DEF NoRoute
<1>2. NoRoute \in Route
  <2>1. <<>> \in Seq(Models)
    OBVIOUS
  <2> QED
    BY <1>1, <2>1 DEF NoRoute, Route
<1>3. EngineTypes
  <2>1. NoBody \in Body /\ NoRoute.primary \in Models
    BY <1>1 DEF NoBody, Body
  <2>2. PlaceOK /\ ThingsOK
    BY <1>2, <2>1 DEF EngineInit, PlaceOK, ThingsOK
  <2>3. NumbersOK
    BY DEF EngineInit, NumbersOK
  <2>4. FlagsOK
    BY DEF EngineInit, FlagsOK
  <2> QED
    BY <2>2, <2>3, <2>4 DEF EngineTypes
<1>4. Paid /\ ThinkingKeepsSignatures
  BY DEF EngineInit, NoBody, Paid, ThinkingKeepsSignatures, CarriesThought, Outcomes
<1>5. InLine
  <2>1. route.fallback = <<>> /\ next = 1
    BY DEF EngineInit, NoRoute
  <2> QED
    BY <2>1 DEF InLine
<1> QED
  BY <1>3, <1>4, <1>5 DEF EngineInv

\* Bodies stay bodies.
LEMMA BodiesKnown ==
    ASSUME NEW b \in Body
    PROVE  Compactions(b) \subseteq Body /\ Prepared(b) \in Body /\ WithCache(b) \in Body
BY DEF Body, Compactions, Prepared, WithCache

LEMMA BeginOK ==
    ASSUME EngineInv, NEW r \in Route, NEW b \in Body, Begin(r, b)
    PROVE  EngineInv'
<1>1. r.primary \in Models
  BY DEF Route
<1>2. EngineTypes'
  <2>1. PlaceOK' /\ ThingsOK'
    BY <1>1 DEF Begin, PlaceOK, ThingsOK
  <2>2. NumbersOK'
    BY DEF Begin, NumbersOK
  <2>3. FlagsOK'
    BY DEF Begin, FlagsOK
  <2> QED
    BY <2>1, <2>2, <2>3 DEF EngineTypes
<1>3. Paid' /\ ThinkingKeepsSignatures'
  BY DEF Begin, Paid, ThinkingKeepsSignatures, Asked, Outcomes
<1>4. InLine'
  <2> SUFFICES ASSUME Distinct(r), NEW i \in 1 .. Len(r.fallback) PROVE r.fallback[i] # r.primary
    BY DEF Begin, InLine
  <2>1. i \in DOMAIN r.fallback
    BY DEF Route
  <2> QED
    BY <2>1 DEF Distinct
<1> QED
  BY <1>2, <1>3, <1>4 DEF EngineInv

-----------------------------------------------------------------------------
(* The steps of a request.                                                 *)

\* What an attempt does to the model and to the fallbacks in line.
Changed ==
    \/ UNCHANGED <<model, next>>
    \/ HasFallback /\ Fallback
    \/ \E m \in NewModels(model, overloaded) : model' = m /\ next' = NextAfter(m)
    \/ \E m \in NewModels(model, overloaded) : model' = m /\ next' = next /\ glitched' = TRUE

\* Every step of the engine, seen from the variables that matter here.
LEMMA ExecuteKnown ==
    ASSUME EngineTypes, Execute
    PROVE  /\ route' = route /\ (glitched => glitched') /\ at \notin Outcomes \cup {"idle"}
           /\ body' \in Compactions(body) \cup {body}
           /\ overloaded' \in {overloaded, overloaded \cup {model}}
           /\ Changed
           /\ events' \in {events, events + 1}
           /\ racers' \in {racers, {}} \/ Race
           /\ Race \/ CallModel \/ (UNCHANGED <<calls, sent>> /\ at' \notin {"calling", "raced"})
<1>1. ASSUME NEW skips \in BOOLEAN, Redirected(skips), skips \/ glitched' = TRUE PROVE Changed
  BY <1>1 DEF Redirected, Changed
<1>2. CASE Race \/ EndRace \/ GiveUp \/ FindNoKey
  BY <1>2 DEF Race, EndRace, GiveUp, FindNoKey, Constant, Settings, Changed, Outcomes
<1>3. CASE CallModel
  BY <1>3 DEF CallModel, Changed, Outcomes
<1>4. CASE Succeed \/ RefuseKey \/ RejectCache \/ RejectSignature \/ RejectLength \/ Fail
  BY <1>4 DEF Succeed, RefuseKey, RejectCache, RejectSignature, RejectLength, Fail, Constant,
     Settings, Changed, Outcomes
<1>5. CASE Unavailable \/ RejectBody
  BY <1>5 DEF Unavailable, RejectBody, Constant, Settings, Changed, Outcomes
<1>6. CASE FailServer
  BY <1>1, <1>6 DEF FailServer, Constant, Outcomes
<1>7. CASE Glitch
  BY <1>1, <1>7 DEF Glitch, Settings, Outcomes
<1>8. CASE TimeOut
  BY <1>1, <1>8 DEF TimeOut, Constant, Settings, Outcomes
<1> QED
  BY <1>2, <1>3, <1>4, <1>5, <1>6, <1>7, <1>8 DEF Execute, Respond

\* How a step spends the attempts.
LEMMA AttemptsKnown ==
    ASSUME EngineTypes, Execute
    PROVE  \/ at = "racing" /\ at' = "raced" /\ UNCHANGED <<attempt, freeRetryUsed, calls>>
           \/ at = "raced" /\ at' \in {"ok", "loop"} /\ UNCHANGED <<attempt, freeRetryUsed, calls>>
           \/ /\ at = "loop" /\ at' = "loop" /\ attempt <= MaxRetries
              /\ attempt' = attempt + 1 /\ UNCHANGED <<freeRetryUsed, calls>>
           \/ at = "loop" /\ at' \in Outcomes /\ UNCHANGED <<attempt, freeRetryUsed, calls>>
           \/ /\ at = "loop" /\ at' = "calling" /\ attempt <= MaxRetries
              /\ calls' = calls + 1 /\ UNCHANGED <<attempt, freeRetryUsed>>
           \/ at = "calling" /\ at' \in Outcomes /\ UNCHANGED <<attempt, freeRetryUsed, calls>>
           \/ /\ at = "calling" /\ at' = "loop" /\ calls' = calls
              /\ \/ attempt' = attempt + 1 /\ freeRetryUsed' = freeRetryUsed
                 \/ attempt' = attempt + 1 /\ freeRetryUsed /\ freeRetryUsed'
                 \/ attempt' = attempt /\ ~freeRetryUsed /\ freeRetryUsed'
<1>1. CASE Race \/ EndRace \/ GiveUp \/ FindNoKey
  BY <1>1 DEF Race, EndRace, GiveUp, FindNoKey, Constant, Outcomes
<1>2. CASE CallModel
  BY <1>2 DEF CallModel
<1>3. CASE Succeed \/ RefuseKey \/ RejectCache \/ RejectLength \/ Fail \/ Unavailable \/ RejectBody
  BY <1>3 DEF Succeed, RefuseKey, RejectCache, RejectLength, Fail, Unavailable, RejectBody,
     Constant, Outcomes
<1>4. CASE FailServer \/ Glitch \/ TimeOut
  BY <1>4 DEF FailServer, Glitch, TimeOut, Constant, Outcomes
<1>5. CASE RejectSignature
  BY <1>5 DEF RejectSignature, EngineTypes, FlagsOK
<1> QED
  BY <1>1, <1>2, <1>3, <1>4, <1>5 DEF Execute, Respond

\* The flags stay flags.
LEMMA FlagsKept ==
    ASSUME FlagsOK, Execute
    PROVE  FlagsOK'
<1>1. CASE Race \/ EndRace \/ GiveUp \/ FindNoKey
  BY <1>1 DEF Race, EndRace, GiveUp, FindNoKey, Constant, Settings, FlagsOK
<1>2. CASE CallModel
  BY <1>2 DEF CallModel, FlagsOK
<1>3. CASE Succeed \/ RefuseKey \/ RejectCache \/ RejectSignature \/ RejectLength \/ Fail
  BY <1>3 DEF Succeed, RefuseKey, RejectCache, RejectSignature, RejectLength, Fail, Constant,
     Settings, FlagsOK
<1>4. CASE Unavailable \/ RejectBody
  BY <1>4 DEF Unavailable, RejectBody, Constant, Settings, FlagsOK
<1>5. CASE FailServer \/ Glitch \/ TimeOut
  BY <1>5 DEF FailServer, Glitch, TimeOut, Constant, Settings, FlagsOK
<1> QED
  BY <1>1, <1>2, <1>3, <1>4, <1>5 DEF Execute, Respond

LEMMA ExecuteTypes ==
    ASSUME EngineTypes, Execute
    PROVE  EngineTypes'
<1>1. PlaceOK'
  BY AttemptsKnown DEF PlaceOK, Outcomes
<1>2. model' \in Models /\ next' \in Nat \ {0}
  <2>1. Chain \subseteq Models /\ model \in Models /\ next \in Nat \ {0} /\ route \in Route
    BY RetryEngineAssumption DEF EngineTypes, ThingsOK, NumbersOK
  <2>2. Changed
    BY ExecuteKnown
  <2>3. CASE UNCHANGED <<model, next>>
    BY <2>1, <2>3
  <2>4. CASE HasFallback /\ Fallback
    <3>1. next \in 1 .. Len(route.fallback) /\ route.fallback[next] \in Models
      BY <2>1, <2>4, FallbackKnown
    <3> QED
      BY <2>1, <2>4, <3>1 DEF Fallback
  <2>5. ASSUME NEW m \in NewModels(model, overloaded), model' = m, next' \in {next, NextAfter(m)}
        PROVE  model' \in Models /\ next' \in Nat \ {0}
    <3>1. NextAfter(m) \in Nat \ {0}
      BY AfterKnown
    <3> QED
      BY <2>1, <2>5, <3>1 DEF NewModels
  <2> QED
    BY <2>2, <2>3, <2>4, <2>5 DEF Changed
<1>3. ThingsOK'
  <2>1. route' \in Route /\ overloaded' \subseteq Models
    BY ExecuteKnown DEF EngineTypes, ThingsOK
  <2>2. body' \in Body
    BY ExecuteKnown, BodiesKnown DEF EngineTypes, ThingsOK
  <2>3. sent' \in Body
    <3>1. CASE sent' = sent
      BY <3>1 DEF EngineTypes, ThingsOK
    <3>2. CASE CallModel
      <4>1. sent' \in {Prepared(body), WithCache(Prepared(body))}
        BY <3>2 DEF CallModel
      <4>2. Prepared(body) \in Body
        BY BodiesKnown DEF EngineTypes, ThingsOK
      <4>3. WithCache(Prepared(body)) \in Body
        BY <4>2, BodiesKnown
      <4> QED
        BY <4>1, <4>2, <4>3
    <3>3. CASE Race
      BY <2>2, <3>3 DEF Race
    <3> QED
      BY <3>1, <3>2, <3>3, ExecuteKnown
  <2>4. racers' \subseteq Models
    <3>1. CASE Race
      <4>1. Contenders \subseteq Models
        BY ContendersKnown DEF EngineTypes, ThingsOK
      <4> QED
        BY <3>1, <4>1 DEF Race
    <3> QED
      BY <3>1, ExecuteKnown DEF EngineTypes, ThingsOK
  <2> QED
    BY <1>2, <2>1, <2>2, <2>3, <2>4 DEF ThingsOK
<1>4. NumbersOK'
  <2>1. attempt' \in Nat \ {0} /\ calls' \in Nat
    BY AttemptsKnown DEF EngineTypes, NumbersOK
  <2>2. events' \in Nat
    BY ExecuteKnown DEF EngineTypes, NumbersOK
  <2> QED
    BY <1>2, <2>1, <2>2 DEF NumbersOK
<1>5. FlagsOK'
  BY FlagsKept DEF EngineTypes
<1> QED
  BY <1>1, <1>3, <1>4, <1>5 DEF EngineTypes

LEMMA ExecutePays ==
    ASSUME EngineTypes, Paid, Execute
    PROVE  Paid'
<1>1. route' = route
  BY ExecuteKnown
<1>2. MaxRetries' = MaxRetries
  BY <1>1 DEF MaxRetries
<1>3. MaxRetries \in Nat /\ attempt \in Nat \ {0} /\ calls \in Nat /\ freeRetryUsed \in BOOLEAN
  BY RetriesPositive DEF EngineTypes, ThingsOK, NumbersOK, FlagsOK
<1>4. Outcomes \cap {"racing", "raced", "loop", "calling"} = {}
  BY DEF Outcomes
<1> DEFINE max == MaxRetries
<1> HIDE DEF max
<1>5. max' = max /\ max \in Nat
  BY <1>2, <1>3 DEF max
<1>6. /\ at \in {"racing", "raced"} => calls = 0 /\ attempt = 1
      /\ at = "loop" => calls <= attempt - 1 + Free /\ attempt <= max + 1
      /\ at = "calling" => calls <= attempt + Free /\ attempt <= max
  BY DEF Paid, max
<1>7. SUFFICES /\ at' \in {"racing", "raced"} => calls' = 0 /\ attempt' = 1
               /\ at' = "loop" => calls' <= attempt' - 1 + Free' /\ attempt' <= max + 1
               /\ at' = "calling" => calls' <= attempt' + Free' /\ attempt' <= max
               /\ at' \in Outcomes => calls' <= max + 1
  BY <1>2 DEF Paid, max
<1>8. CASE at = "racing" /\ at' = "raced" /\ UNCHANGED <<attempt, freeRetryUsed, calls>>
  BY <1>3, <1>4, <1>5, <1>6, <1>8
<1>14. CASE at = "raced" /\ at' \in {"ok", "loop"} /\ UNCHANGED <<attempt, freeRetryUsed, calls>>
  BY <1>3, <1>5, <1>6, <1>14 DEF Free
<1>9. CASE at = "loop" /\ at' = "loop" /\ attempt <= MaxRetries
           /\ attempt' = attempt + 1 /\ UNCHANGED <<freeRetryUsed, calls>>
  BY <1>3, <1>4, <1>5, <1>6, <1>9 DEF Free, max
<1>10. CASE at = "loop" /\ at' \in Outcomes /\ UNCHANGED <<attempt, freeRetryUsed, calls>>
  BY <1>3, <1>4, <1>5, <1>6, <1>10 DEF Free
<1>11. CASE at = "loop" /\ at' = "calling" /\ attempt <= MaxRetries
            /\ calls' = calls + 1 /\ UNCHANGED <<attempt, freeRetryUsed>>
  BY <1>3, <1>4, <1>5, <1>6, <1>11 DEF Free, max
<1>12. CASE at = "calling" /\ at' \in Outcomes /\ UNCHANGED <<attempt, freeRetryUsed, calls>>
  BY <1>3, <1>4, <1>5, <1>6, <1>12 DEF Free
<1>13. CASE /\ at = "calling" /\ at' = "loop" /\ calls' = calls
            /\ \/ attempt' = attempt + 1 /\ freeRetryUsed' = freeRetryUsed
               \/ attempt' = attempt + 1 /\ freeRetryUsed /\ freeRetryUsed'
               \/ attempt' = attempt /\ ~freeRetryUsed /\ freeRetryUsed'
  BY <1>3, <1>4, <1>5, <1>6, <1>13 DEF Free
<1> QED
  BY <1>8, <1>9, <1>10, <1>11, <1>12, <1>13, <1>14, AttemptsKnown

LEMMA ExecuteKeepsSignatures ==
    ASSUME EngineTypes, Execute
    PROVE  ThinkingKeepsSignatures'
<1>1. CASE at' # "calling"
  BY <1>1 DEF ThinkingKeepsSignatures, Asked
<1>2. CASE CallModel
  <2>1. /\ body' = body /\ model' = model /\ route' = route
        /\ sent' \in {Prepared(body), WithCache(Prepared(body))}
    BY <1>2 DEF CallModel
  <2>2. body.sigs \in {"none", "text", "calls"} /\ body.thinking \in BOOLEAN
    BY DEF EngineTypes, ThingsOK, Body
  <2>3. ASSUME NEW s \in {Prepared(body), WithCache(Prepared(body))}
        PROVE  /\ s.thinking /\ body.sigs = "calls" => s.sigs = "calls"
               /\ s.sigs # "none" \/ s.thinking => model = route.primary
    <3> DEFINE p == Prepared(body)
    <3>1. /\ p.thinking /\ body.sigs = "calls" => p.sigs = "calls"
          /\ p.sigs # "none" \/ p.thinking => model = route.primary
      BY <2>2 DEF Prepared
    <3>2. p \in Body
      BY BodiesKnown DEF EngineTypes, ThingsOK
    <3> HIDE DEF p
    <3>3. CASE p.sigs = "text"
      <4>1. WithCache(p) = [p EXCEPT !.sigs = "none"]
        BY <3>3 DEF WithCache
      <4>2. WithCache(p).sigs = "none" /\ WithCache(p).thinking = p.thinking
        BY <3>2, <4>1 DEF Body
      <4> QED
        BY <3>1, <3>3, <4>2 DEF p
    <3>4. CASE p.sigs # "text"
      <4>1. WithCache(p) = p
        BY <3>4 DEF WithCache
      <4> QED
        BY <3>1, <4>1 DEF p
    <3> QED
      BY <3>3, <3>4
  <2>4. at' = "calling"
    BY <1>2 DEF CallModel
  <2>5. Asked' = {model}
    BY <2>1, <2>4 DEF Asked
  <2>6. CarriesThought' => model = route.primary
    BY <2>1, <2>3 DEF CarriesThought
  <2>7. sent'.thinking /\ body.sigs = "calls" => sent'.sigs = "calls"
    BY <2>1, <2>3
  <2> QED
    BY <2>1, <2>5, <2>6, <2>7 DEF ThinkingKeepsSignatures
<1>3. CASE Race
  BY <1>1, <1>3 DEF Race
<1> QED
  BY <1>1, <1>2, <1>3, ExecuteKnown

\* What is left in line after an attempt was in line before it.
LEMMA ExecuteKeepsLine ==
    ASSUME EngineTypes, InLine, Execute
    PROVE  InLine'
<1> SUFFICES ASSUME ~glitched', Distinct(route)', NEW i \in next' .. Len(route.fallback)'
             PROVE  route.fallback[i] # model' /\ route.fallback[i] \notin overloaded'
  BY ExecuteKnown DEF InLine
<1>1. route' = route /\ ~glitched /\ overloaded' \subseteq overloaded \cup {model} /\ Changed
  BY ExecuteKnown
<1>2. Distinct(route)
  BY <1>1 DEF Distinct
<1>3. next \in Nat \ {0} /\ Len(route.fallback) \in Nat /\ route.fallback \in Seq(Models)
  BY DEF EngineTypes, ThingsOK, NumbersOK, Route
<1>4. \A j \in next .. Len(route.fallback) :
         route.fallback[j] # model /\ route.fallback[j] \notin overloaded
  BY <1>1, <1>2 DEF InLine
<1>5. SUFFICES i \in next .. Len(route.fallback) /\ route.fallback[i] # model'
  BY <1>1, <1>4
<1>6. CASE UNCHANGED <<model, next>>
  BY <1>1, <1>4, <1>6
<1>7. CASE HasFallback /\ Fallback
  <2>1. next' = next + 1 /\ model' = route.fallback[next] /\ next <= Len(route.fallback)
    BY <1>7 DEF HasFallback, Fallback
  <2>2. i \in next .. Len(route.fallback) /\ i # next /\ i \in DOMAIN route.fallback
        /\ next \in DOMAIN route.fallback
    BY <1>1, <1>3, <2>1
  <2> QED
    BY <1>2, <2>1, <2>2 DEF Distinct
<1>8. ASSUME NEW m \in NewModels(model, overloaded), model' = m, next' = NextAfter(m)
      PROVE  i \in next .. Len(route.fallback) /\ route.fallback[i] # model'
  <2>1. i \in NextAfter(m) .. Len(route.fallback)
    BY <1>1, <1>8
  <2>2. NextAfter(m) \in Nat \ {0} /\ i >= next
    BY <2>1, AfterKnown
  <2>3. i \in next .. Len(route.fallback) /\ i \in DOMAIN route.fallback
    BY <1>3, <2>1, <2>2
  <2>4. SUFFICES ASSUME route.fallback[i] = m PROVE FALSE
    BY <1>8, <2>3
  <2>5. PICK j \in next .. Len(route.fallback) : route.fallback[j] = m /\ NextAfter(m) = j + 1
    BY <2>3, <2>4, AfterKnown
  <2>6. j \in DOMAIN route.fallback /\ i # j
    BY <1>3, <2>1, <2>5
  <2> QED
    BY <1>2, <2>3, <2>4, <2>5, <2>6 DEF Distinct
<1> QED
  BY <1>1, <1>6, <1>7, <1>8 DEF Changed

LEMMA LeaveOK ==
    ASSUME EngineInv, Leave
    PROVE  EngineInv'
<1>1. NoRoute.primary \in Chain /\ Chain \subseteq Models
  BY RetryEngineAssumption DEF NoRoute
<1>2. NoRoute \in Route
  <2>1. <<>> \in Seq(Models)
    OBVIOUS
  <2> QED
    BY <1>1, <2>1 DEF NoRoute, Route
<1>3. EngineTypes'
  <2>1. NoBody \in Body /\ NoRoute.primary \in Models
    BY <1>1 DEF NoBody, Body
  <2>2. PlaceOK' /\ ThingsOK'
    BY <1>2, <2>1 DEF Leave, PlaceOK, ThingsOK
  <2>3. NumbersOK'
    BY DEF Leave, NumbersOK
  <2>4. FlagsOK'
    BY DEF Leave, FlagsOK
  <2> QED
    BY <2>2, <2>3, <2>4 DEF EngineTypes
<1>4. Paid' /\ ThinkingKeepsSignatures'
  BY DEF Leave, NoBody, Paid, ThinkingKeepsSignatures, CarriesThought, Outcomes
<1>5. InLine'
  <2>1. route'.fallback = <<>> /\ next' = 1
    BY DEF Leave, NoRoute
  <2> QED
    BY <2>1 DEF InLine
<1> QED
  BY <1>3, <1>4, <1>5 DEF EngineInv

-----------------------------------------------------------------------------
(* The theorems.                                                           *)

LEMMA EngineStepOK == EngineInv /\ [EngineNext]_engine => EngineInv'
<1> SUFFICES ASSUME EngineInv, [EngineNext]_engine PROVE EngineInv'
  OBVIOUS
<1>1. CASE \E r \in Route, b \in Bodies : Begin(r, b)
  BY <1>1, BeginOK, RetryEngineAssumption
<1>2. CASE Execute
  BY <1>2, ExecuteTypes, ExecutePays, ExecuteKeepsSignatures, ExecuteKeepsLine DEF EngineInv
<1>3. CASE Leave
  BY <1>3, LeaveOK
<1>4. CASE UNCHANGED engine
  <2>1. EngineTypes'
    BY <1>4 DEF engine, EngineInv, EngineTypes, PlaceOK, ThingsOK, NumbersOK, FlagsOK
  <2>2. Paid'
    BY <1>4 DEF engine, EngineInv, Paid, MaxRetries, Free
  <2>3. ThinkingKeepsSignatures' /\ InLine'
    BY <1>4 DEF engine, EngineInv, ThinkingKeepsSignatures, Asked, CarriesThought, InLine, Distinct
  <2> QED
    BY <2>1, <2>2, <2>3 DEF EngineInv
<1> QED
  BY <1>1, <1>2, <1>3, <1>4 DEF EngineNext

LEMMA EngineInvariance == EngineSpec => []EngineInv
BY EngineStartOK, EngineStepOK, PTL DEF EngineSpec

\* The variables of the engine keep their types.
THEOREM EngineTypeCorrect == EngineSpec => []EngineTypeOK
<1>1. EngineInv => EngineTypeOK
  BY DEF EngineInv, EngineTypes, PlaceOK, ThingsOK, NumbersOK, FlagsOK, EngineTypeOK
<1> QED
  BY <1>1, EngineInvariance, PTL

\* Who has paid for his calls is within the budget.
LEMMA PaidWithinBudget == EngineInv => CallsWithinBudget
<1> SUFFICES ASSUME EngineInv, at # "idle" PROVE calls <= MaxRetries + 1
  BY DEF CallsWithinBudget
<1>1. MaxRetries \in Nat /\ attempt \in Nat \ {0} /\ calls \in Nat
  BY RetriesPositive DEF EngineInv, EngineTypes, ThingsOK, NumbersOK
<1>2. at \in {"racing", "raced", "loop", "calling"} \cup Outcomes
  BY DEF EngineInv, EngineTypes, PlaceOK
<1>3. Paid
  BY DEF EngineInv
<1>4. Free \in {0, 1}
  BY DEF Free
<1> DEFINE max == MaxRetries
<1>5. /\ at \in {"racing", "raced"} => calls = 0
      /\ at = "loop" => calls <= attempt - 1 + Free /\ attempt <= max + 1
      /\ at = "calling" => calls <= attempt + Free /\ attempt <= max
      /\ at \in Outcomes => calls <= max + 1
  BY <1>3 DEF Paid
<1>6. max \in Nat
  BY <1>1
<1> HIDE DEF max
<1>7. calls <= max + 1
  BY <1>1, <1>2, <1>4, <1>5, <1>6
<1> QED
  BY <1>7 DEF max

\* For any MAX_RETRIES, any route and any sequence of answers, a request makes no
\* more calls than its retries and the one that is free.
THEOREM BudgetKept == EngineSpec => []CallsWithinBudget
BY PaidWithinBudget, EngineInvariance, PTL

\* No attempt asks for thinking without the signatures of its function calls, and
\* none takes either past the primary of its route, races apart: whatever the body,
\* the model and what was stripped, with or without the cache.
THEOREM SignaturesKept == EngineSpec => []ThinkingKeepsSignatures
<1>1. EngineInv => ThinkingKeepsSignatures
  BY DEF EngineInv
<1> QED
  BY <1>1, EngineInvariance, PTL

\* A step that changes model goes to one not found overloaded.
LEMMA ExecuteToUntried ==
    ASSUME EngineInv, Distinct(route), Execute, model' # model, at = "calling", ~glitched
    PROVE  model' \notin overloaded
<1>1. Changed
  BY ExecuteKnown DEF EngineInv
<1>2. CASE HasFallback /\ Fallback
  <2>1. next \in 1 .. Len(route.fallback) /\ model' = route.fallback[next]
    BY <1>2, FallbackKnown DEF EngineInv, EngineTypes, ThingsOK, NumbersOK, Fallback
  <2>2. next \in next .. Len(route.fallback)
    BY <2>1
  <2> QED
    BY <2>1, <2>2 DEF EngineInv, InLine
<1>3. CASE \E m \in NewModels(model, overloaded) : model' = m
  BY <1>3 DEF NewModels
<1> QED
  BY <1>1, <1>2, <1>3 DEF Changed

\* Where no route names a model twice, a request that changes model does not
\* return to one it found overloaded.
THEOREM UntriedOnly == EngineSpec /\ []Distinct(route) => ChangesToUntried
<1> DEFINE Kept == [][model' # model /\ at = "calling" /\ ~glitched => model' \notin overloaded]_engine
<1>1. EngineInv /\ Distinct(route) /\ [EngineNext]_engine
      => [model' # model /\ at = "calling" /\ ~glitched => model' \notin overloaded]_engine
  <2> SUFFICES ASSUME EngineInv, Distinct(route), EngineNext, model' # model, at = "calling", ~glitched
               PROVE  model' \notin overloaded
    OBVIOUS
  <2>1. Execute
    BY DEF EngineNext, Begin, Leave, Outcomes
  <2> QED
    BY <2>1, ExecuteToUntried
<1>2. EngineSpec /\ []Distinct(route) => Kept
  BY <1>1, EngineInvariance, PTL DEF EngineSpec
<1> QED
  BY <1>2 DEF ChangesToUntried

-----------------------------------------------------------------------------
(* The stream.                                                             *)

\* The protocol's kinds and reasons, by the names used here.
Kind      == {"text", "thinking", "tool_use"}
EndReason == {"end_turn", "max_tokens", "tool_use", "content_filter"}

What == {"message_start", "block_start", "block_delta", "block_stop", "message_delta", "error",
         "message_stop"}

Event == [what : What, kind : Kind \cup EndReason \cup {"none"}, index : Nat]

ClientState ==
    [phase : {"silent", "open", "concluded", "failed", "stopped", "ended", "cut off"},
     block : Kind \cup {"none"}, delta : Kind \cup {"none"}, number : Nat, blocks : Nat,
     tools : BOOLEAN, reason : EndReason \cup {"none"}]

Heard == [phase |-> phase, block |-> block, delta |-> delta, number |-> number,
          blocks |-> blocks, tools |-> tools, reason |-> reason]

-----------------------------------------------------------------------------
(* What the protocol allows: client c may be told e, which makes it d.     *)

Greets(c, e, d) ==
    /\ e.what = "message_start" /\ e.kind = "none" /\ c.phase = "silent"
    /\ d = [c EXCEPT !.phase = "open"]

Starts(c, e, d) ==
    /\ e.what = "block_start" /\ c.phase = "open" /\ c.block = "none"
    /\ e.kind \in Kind /\ e.index = c.blocks
    /\ d = [c EXCEPT !.block = e.kind, !.delta = "none", !.number = e.index,
                     !.tools = (c.tools \/ e.kind = "tool_use")]

Adds(c, e, d) ==
    /\ e.what = "block_delta" /\ c.phase = "open" /\ c.block # "none"
    /\ e.kind = c.block /\ e.index = c.number
    /\ d = [c EXCEPT !.delta = e.kind]

Stops(c, e, d) ==
    /\ e.what = "block_stop" /\ c.phase = "open" /\ c.block # "none"
    /\ e.kind = "none" /\ e.index = c.number
    /\ d = [c EXCEPT !.block = "none", !.blocks = c.blocks + 1]

Ends(c, e, d) ==
    /\ e.what = "message_delta" /\ c.phase = "open" /\ c.block = "none" /\ c.reason = "none"
    /\ e.kind \in EndReason /\ (e.kind = "tool_use" => c.tools)
    /\ d = [c EXCEPT !.phase = "concluded", !.reason = e.kind]

Fails(c, e, d) ==
    /\ e.what = "error" /\ e.kind = "none" /\ c.phase \in {"open", "concluded"} /\ c.block = "none"
    /\ d = [c EXCEPT !.phase = "failed"]

Leaves(c, e, d) ==
    /\ e.what = "message_stop" /\ e.kind = "none" /\ c.phase \in {"concluded", "failed"}
    /\ d = [c EXCEPT !.phase = IF c.phase = "failed" THEN "ended" ELSE "stopped"]

Tells(c, e, d) ==
    \/ Greets(c, e, d) \/ Starts(c, e, d) \/ Adds(c, e, d) \/ Stops(c, e, d)
    \/ Ends(c, e, d) \/ Fails(c, e, d) \/ Leaves(c, e, d)

\* S is how the client goes from c to d as it is told the events of q.
Goes(S, c, q, d) ==
    /\ S[1] = c /\ S[Len(q) + 1] = d
    /\ \A i \in 1 .. Len(q) : Tells(S[i], q[i], S[i + 1])
    /\ \A i \in 1 .. Len(q) + 1 : S[i].reason \in {"none", d.reason}

Told(c, q, d) == q \in Seq(Event) /\ \E S \in [1 .. Len(q) + 1 -> ClientState] : Goes(S, c, q, d)

LEMMA ToldKnown ==
    ASSUME NEW c, NEW q, NEW d, Told(c, q, d)
    PROVE  /\ c \in ClientState /\ d \in ClientState /\ q \in Seq(Event)
           /\ c.reason \in {"none", d.reason}
<1>1. PICK S \in [1 .. Len(q) + 1 -> ClientState] : Goes(S, c, q, d)
  BY DEF Told
<1>2. q \in Seq(Event) /\ Len(q) \in Nat
  BY DEF Told
<1>3. 1 \in 1 .. Len(q) + 1 /\ Len(q) + 1 \in 1 .. Len(q) + 1
  BY <1>2
<1> QED
  BY <1>1, <1>2, <1>3 DEF Goes

\* No event changes nothing.
LEMMA ToldNothing ==
    ASSUME NEW c \in ClientState
    PROVE  /\ Told(c, <<>>, c)
           /\ \A d : Told(c, <<>>, d) => d = c
<1>1. <<>> \in Seq(Event) /\ Len(<<>>) = 0
  OBVIOUS
<1>2. Told(c, <<>>, c)
  <2> DEFINE S == [i \in 1 .. 1 |-> c]
  <2>1. S \in [1 .. Len(<<>>) + 1 -> ClientState]
    BY <1>1
  <2>2. Goes(S, c, <<>>, c)
    BY <1>1 DEF Goes
  <2> HIDE DEF S
  <2> QED
    BY <1>1, <2>1, <2>2 DEF Told
<1>3. ASSUME NEW d, Told(c, <<>>, d) PROVE d = c
  BY <1>1, <1>3 DEF Told, Goes
<1> QED
  BY <1>2, <1>3

\* What an event makes of a client is a client.
LEMMA TellsKnown ==
    ASSUME NEW c \in ClientState, NEW e \in Event, NEW d, Tells(c, e, d)
    PROVE  d \in ClientState /\ c.reason \in {"none", d.reason}
<1>1. CASE Greets(c, e, d)
  BY <1>1 DEF Greets, ClientState, Event
<1>2. CASE Starts(c, e, d)
  BY <1>2 DEF Starts, ClientState, Event
<1>3. CASE Adds(c, e, d)
  <2>1. d = [c EXCEPT !.delta = c.block] /\ c.block \in Kind \cup {"none"}
    BY <1>3 DEF Adds, ClientState
  <2>2. d \in ClientState /\ d.reason = c.reason
    BY <2>1 DEF ClientState
  <2> QED
    BY <2>2
<1>4. CASE Stops(c, e, d)
  <2>1. c.blocks + 1 \in Nat
    <3>1. c.blocks \in Nat
      BY DEF ClientState
    <3> QED
      BY <3>1
  <2> DEFINE n == c.blocks + 1
  <2>2. d = [c EXCEPT !.block = "none", !.blocks = n] /\ n \in Nat
    BY <1>4, <2>1 DEF Stops
  <2> HIDE DEF n
  <2>3. d \in ClientState /\ d.reason = c.reason
    BY <2>2 DEF ClientState
  <2> QED
    BY <2>3
<1>5. CASE Ends(c, e, d)
  BY <1>5 DEF Ends, ClientState, Event
<1>6. CASE Fails(c, e, d)
  BY <1>6 DEF Fails, ClientState, Event
<1>7. CASE Leaves(c, e, d)
  BY <1>7 DEF Leaves, ClientState, Event
<1> QED
  BY <1>1, <1>2, <1>3, <1>4, <1>5, <1>6, <1>7 DEF Tells

LEMMA ToldOne ==
    ASSUME NEW c \in ClientState, NEW e \in Event, NEW d, Tells(c, e, d)
    PROVE  Told(c, <<e>>, d)
<1>1. <<e>> \in Seq(Event) /\ Len(<<e>>) = 1 /\ <<e>>[1] = e
  OBVIOUS
<1>2. d \in ClientState /\ c.reason \in {"none", d.reason}
  BY TellsKnown
<1> DEFINE S == [i \in 1 .. 2 |-> IF i = 1 THEN c ELSE d]
<1>3. S \in [1 .. Len(<<e>>) + 1 -> ClientState] /\ S[1] = c /\ S[2] = d
  BY <1>1, <1>2
<1> HIDE DEF S
<1>4. Goes(S, c, <<e>>, d)
  BY <1>1, <1>2, <1>3 DEF Goes
<1> QED
  BY <1>1, <1>3, <1>4 DEF Told

\* One telling after another.
LEMMA ToldBoth ==
    ASSUME NEW c, NEW p, NEW x, NEW q, NEW d, Told(c, p, x), Told(x, q, d)
    PROVE  Told(c, p \o q, d)
<1>1. p \in Seq(Event) /\ q \in Seq(Event) /\ Len(p) \in Nat /\ Len(q) \in Nat
  BY DEF Told
<1>2. PICK S \in [1 .. Len(p) + 1 -> ClientState] : Goes(S, c, p, x)
  BY DEF Told
<1>3. PICK T \in [1 .. Len(q) + 1 -> ClientState] : Goes(T, x, q, d)
  BY DEF Told
<1> DEFINE m == Len(p)
           n == Len(q)
           r == p \o q
           U == [i \in 1 .. m + n + 1 |-> IF i <= m + 1 THEN S[i] ELSE T[i - m]]
<1>4. r \in Seq(Event) /\ Len(r) = m + n
  BY <1>1
<1>5. U \in [1 .. Len(r) + 1 -> ClientState]
  <2> SUFFICES ASSUME NEW i \in 1 .. m + n + 1 PROVE U[i] \in ClientState
    BY <1>4
  <2>1. CASE i <= m + 1
    BY <1>1, <2>1
  <2>2. CASE ~(i <= m + 1)
    <3>1. i - m \in 1 .. n + 1
      BY <1>1, <2>2
    <3> QED
      BY <1>3, <2>2, <3>1
  <2> QED
    BY <2>1, <2>2
<1>6. \A i \in 1 .. m + n + 1 :
         /\ i <= m + 1 => U[i] = S[i]
         /\ i >= m + 1 => U[i] = T[i - m]
  <2> SUFFICES ASSUME NEW i \in 1 .. m + n + 1, i = m + 1 PROVE S[i] = T[i - m]
    BY <1>1
  <2>1. i - m = 1
    BY <1>1
  <2> QED
    BY <1>2, <1>3, <2>1 DEF Goes
<1>7. U[1] = c /\ U[Len(r) + 1] = d
  <2>1. 1 \in 1 .. m + n + 1 /\ m + n + 1 \in 1 .. m + n + 1 /\ (m + n + 1) - m = n + 1
        /\ 1 <= m + 1 /\ m + n + 1 >= m + 1
    BY <1>1
  <2> QED
    BY <1>2, <1>3, <1>4, <1>6, <2>1 DEF Goes
<1>8. ASSUME NEW i \in 1 .. Len(r) PROVE Tells(U[i], r[i], U[i + 1])
  <2>1. CASE i <= m
    <3>1. i \in 1 .. m /\ r[i] = p[i] /\ U[i] = S[i] /\ U[i + 1] = S[i + 1]
      BY <1>1, <1>4, <1>6, <2>1
    <3> QED
      BY <1>2, <3>1 DEF Goes
  <2>2. CASE ~(i <= m)
    <3>1. i - m \in 1 .. n /\ r[i] = q[i - m] /\ (i + 1) - m = (i - m) + 1
      BY <1>1, <1>4, <2>2
    <3>2. U[i] = T[i - m] /\ U[i + 1] = T[(i - m) + 1]
      BY <1>1, <1>4, <1>6, <2>2, <3>1
    <3> QED
      BY <1>3, <3>1, <3>2 DEF Goes
  <2> QED
    BY <2>1, <2>2
<1>9. ASSUME NEW i \in 1 .. Len(r) + 1 PROVE U[i].reason \in {"none", d.reason}
  <2>1. x.reason \in {"none", d.reason}
    BY ToldKnown
  <2>2. CASE i <= m + 1
    <3>1. i \in 1 .. m + 1 /\ U[i] = S[i]
      BY <1>1, <1>4, <1>6, <2>2
    <3> QED
      BY <1>2, <2>1, <3>1 DEF Goes
  <2>3. CASE ~(i <= m + 1)
    <3>1. i - m \in 1 .. n + 1 /\ U[i] = T[i - m]
      BY <1>1, <1>4, <1>6, <2>3
    <3> QED
      BY <1>3, <3>1 DEF Goes
  <2> QED
    BY <2>2, <2>3
<1> HIDE DEF U
<1>10. Goes(U, c, r, d)
  BY <1>7, <1>8, <1>9 DEF Goes
<1> HIDE DEF r
<1>11. Told(c, r, d)
  BY <1>4, <1>5, <1>10 DEF Told
<1> QED
  BY <1>11 DEF r

\* The first of the events, and the rest.
LEMMA ToldNext ==
    ASSUME NEW c, NEW q, NEW d, Told(c, q, d), q # <<>>
    PROVE  \E x : Tells(c, Head(q), x) /\ Told(x, Tail(q), d)
<1>1. q \in Seq(Event) /\ Len(q) \in Nat \ {0} /\ Head(q) = q[1] /\ Tail(q) \in Seq(Event)
      /\ Len(Tail(q)) = Len(q) - 1 /\ \A i \in 1 .. Len(q) - 1 : Tail(q)[i] = q[i + 1]
  BY DEF Told
<1>2. PICK S \in [1 .. Len(q) + 1 -> ClientState] : Goes(S, c, q, d)
  BY DEF Told
<1>3. Tells(c, Head(q), S[2])
  <2>1. 1 \in 1 .. Len(q) /\ 1 + 1 = 2
    BY <1>1
  <2> QED
    BY <1>1, <1>2, <2>1 DEF Goes
<1> DEFINE n == Len(q) - 1
           T == [i \in 1 .. n + 1 |-> S[i + 1]]
<1>4. n \in Nat /\ Len(Tail(q)) = n /\ Len(q) = n + 1
  BY <1>1
<1>5. T \in [1 .. Len(Tail(q)) + 1 -> ClientState]
  <2> SUFFICES ASSUME NEW i \in 1 .. n + 1 PROVE S[i + 1] \in ClientState
    BY <1>4
  <2>1. i + 1 \in 1 .. Len(q) + 1
    BY <1>4
  <2> QED
    BY <2>1
<1>6. Goes(T, S[2], Tail(q), d)
  <2> HIDE DEF n
  <2>1. T[1] = S[2] /\ T[n + 1] = d
    BY <1>2, <1>4 DEF Goes
  <2>2. ASSUME NEW i \in 1 .. n PROVE Tells(T[i], Tail(q)[i], T[i + 1])
    <3>1. i + 1 \in 1 .. Len(q) /\ Tail(q)[i] = q[i + 1] /\ T[i] = S[i + 1] /\ T[i + 1] = S[(i + 1) + 1]
      BY <1>1, <1>4
    <3> QED
      BY <1>2, <3>1 DEF Goes
  <2>3. ASSUME NEW i \in 1 .. n + 1 PROVE T[i].reason \in {"none", d.reason}
    <3>1. i + 1 \in 1 .. Len(q) + 1 /\ T[i] = S[i + 1]
      BY <1>4
    <3> QED
      BY <1>2, <3>1 DEF Goes
  <2> HIDE DEF T
  <2> QED
    BY <1>4, <2>1, <2>2, <2>3 DEF Goes
<1> HIDE DEF T, n
<1>7. Told(S[2], Tail(q), d)
  BY <1>1, <1>5, <1>6 DEF Told
<1> QED
  BY <1>3, <1>7

-----------------------------------------------------------------------------
(* The invariant.                                                          *)

Live == {"transforming", "searching", "ready", "waiting", "draining", "drained", "closing"}

TextTypes ==
    /\ open \in Kind \cup {"none"} /\ index \in Nat
    /\ {held, signed, sawAny, sawTool} \subseteq BOOLEAN

\* Client c is at ease between blocks, i of them closed.
Resting(c, i) ==
    c \in ClientState /\ c.phase = "open" /\ c.reason = "none" /\ c.block = "none" /\ c.blocks = i

\* Client c is in a block of kind k, the i-th.
Within(c, k, i) ==
    /\ c \in ClientState /\ c.phase = "open" /\ c.reason = "none"
    /\ c.block = k /\ c.blocks = i /\ c.number = i

\* Client c is where transformStream believes it to be.
Holding(c) == IF open = "none" THEN Resting(c, index) ELSE Within(c, open, index)

Agrees(d) ==
    /\ stage = "start" => d.phase = "silent" /\ d.block = "none" /\ d.blocks = 0 /\ d.reason = "none"
    /\ stage \in Live => Holding(d) /\ (sawTool => d.tools)
    /\ stage = "rejected" => d.phase = "failed"
    /\ stage = "over" => d.phase \in {"stopped", "ended", "cut off"}
    /\ d.phase = "stopped" => d.blocks > 0 /\ (fault = "broken" => run.of = "empty")
    /\ d.reason = "tool_use" /\ finish = "MAX_TOKENS" => fault = "broken"

\* No block is open before an answer comes, and one stays open from the first
\* content on; an answer that broke off is closed by no other call than one for
\* an empty answer.
StagesOK ==
    /\ stage \in Live \cup {"start", "rejected", "over"}
    /\ stage = "start" => index = 0 /\ ~sawAny /\ ~sawTool /\ fault = "none"
    /\ stage \in {"start", "transforming", "searching"} => open = "none"
    /\ stage \in {"ready", "waiting"} /\ run.of # "empty" => open = "none"
    /\ stage \in Live /\ (sawAny \/ sawTool) => open # "none"
    /\ stage \in Live /\ fault = "broken" => stage = "closing" /\ run.of = "empty"

StreamInv ==
    /\ TextTypes /\ StagesOK
    /\ \E d : Told(Heard, out, d) /\ Agrees(d)

-----------------------------------------------------------------------------
(* What each event makes of a client.                                      *)

LEMMA EventsKnown ==
    /\ \A k \in Kind, i \in Nat : Opens(k, i) \in Event /\ Fills(k, i) \in Event
    /\ \A i \in Nat : Closes(i) \in Event
    /\ \A why \in EndReason : Concludes(why) \in Event
    /\ \A what \in What : Said(what) \in Event
BY DEF Opens, Fills, Closes, Concludes, Said, Event, What

\* Two events are one and another.
LEMMA PairSplit ==
    ASSUME NEW a \in Event, NEW b \in Event
    PROVE  <<a, b>> = <<a>> \o <<b>>
<1> DEFINE s == <<a>> \o <<b>>
<1>1. s \in Seq(Event) /\ Len(s) = 2 /\ s[1] = a /\ s[2] = b
  OBVIOUS
<1>2. <<a, b>> \in Seq(Event) /\ Len(<<a, b>>) = 2
  OBVIOUS
<1> HIDE DEF s
<1>3. \A i \in 1 .. Len(<<a, b>>) : <<a, b>>[i] = s[i]
  BY <1>1, <1>2
<1>4. s = <<a, b>>
  BY <1>1, <1>2, <1>3, SeqEqual
<1> QED
  BY <1>4 DEF s

LEMMA TripleSplit ==
    ASSUME NEW a \in Event, NEW b \in Event, NEW c \in Event
    PROVE  <<a, b, c>> = <<a, b>> \o <<c>> /\ <<a, b, c>> = <<a>> \o <<b, c>>
<1>1. <<a, b, c>> = <<a, b>> \o <<c>>
  OBVIOUS
<1>2. <<a, b, c>> = <<a>> \o <<b, c>>
  OBVIOUS
<1> QED
  BY <1>1, <1>2

LEMMA FiveSplit ==
    ASSUME NEW a \in Event, NEW b \in Event, NEW c \in Event, NEW d \in Event, NEW e \in Event
    PROVE  /\ <<a, b, c, d, e>> = <<a, b, c>> \o <<d, e>>
           /\ <<a, b, c, d, e>> = (<<a>> \o <<b, c>>) \o (<<d>> \o <<e>>)
<1>1. <<a, b, c, d, e>> = <<a, b, c>> \o <<d, e>>
  OBVIOUS
<1>2. <<a, b, c>> = <<a>> \o <<b, c>> /\ <<d, e>> = <<d>> \o <<e>>
  BY TripleSplit, PairSplit
<1> QED
  BY <1>1, <1>2

LEMMA OpensTold ==
    ASSUME NEW i, NEW c, Resting(c, i), NEW k \in Kind
    PROVE  \E d : /\ Told(c, <<Opens(k, i)>>, d) /\ Within(d, k, i)
                  /\ c.tools \/ k = "tool_use" => d.tools
<1> DEFINE d == [c EXCEPT !.block = k, !.delta = "none", !.number = i,
                          !.tools = (c.tools \/ k = "tool_use")]
<1>1. c \in ClientState /\ i \in Nat
  BY DEF Resting, ClientState
<1>2. Opens(k, i) \in Event
  BY <1>1, EventsKnown
<1>3. Tells(c, Opens(k, i), d)
  BY DEF Tells, Starts, Opens, Resting
<1>4. Told(c, <<Opens(k, i)>>, d) /\ d \in ClientState
  <2> HIDE DEF d
  <2> QED
    BY <1>1, <1>2, <1>3, ToldOne, TellsKnown
<1>5. Within(d, k, i) /\ (c.tools \/ k = "tool_use" => d.tools)
  BY <1>1, <1>4 DEF Within, Resting, ClientState
<1> QED
  BY <1>4, <1>5

LEMMA FillsTold ==
    ASSUME NEW i, NEW k \in Kind, NEW c, Within(c, k, i)
    PROVE  \E d : Told(c, <<Fills(k, i)>>, d) /\ Within(d, k, i) /\ (c.tools => d.tools)
<1> DEFINE d == [c EXCEPT !.delta = k]
<1>1. c \in ClientState /\ i \in Nat
  BY DEF Within, ClientState
<1>2. Fills(k, i) \in Event
  BY <1>1, EventsKnown
<1>3. Tells(c, Fills(k, i), d)
  BY DEF Tells, Adds, Fills, Within, Kind
<1>4. Told(c, <<Fills(k, i)>>, d) /\ d \in ClientState
  <2> HIDE DEF d
  <2> QED
    BY <1>1, <1>2, <1>3, ToldOne, TellsKnown
<1>5. Within(d, k, i) /\ (c.tools => d.tools)
  BY <1>1, <1>4 DEF Within, ClientState
<1> QED
  BY <1>4, <1>5

LEMMA ClosesTold ==
    ASSUME NEW i, NEW k \in Kind, NEW c, Within(c, k, i)
    PROVE  \E d : Told(c, <<Closes(i)>>, d) /\ Resting(d, i + 1) /\ (c.tools => d.tools)
<1> DEFINE d == [c EXCEPT !.block = "none", !.blocks = c.blocks + 1]
<1>1. c \in ClientState /\ i \in Nat
  BY DEF Within, ClientState
<1>2. Closes(i) \in Event
  BY <1>1, EventsKnown
<1>3. Tells(c, Closes(i), d)
  BY DEF Tells, Stops, Closes, Within, Kind
<1>4. Told(c, <<Closes(i)>>, d) /\ d \in ClientState
  <2> HIDE DEF d
  <2> QED
    BY <1>1, <1>2, <1>3, ToldOne, TellsKnown
<1>5. Resting(d, i + 1) /\ (c.tools => d.tools)
  BY <1>1, <1>4 DEF Resting, Within, ClientState
<1> QED
  BY <1>4, <1>5

\* The end of a message that ends well, and why.
LEMMA ConcludesTold ==
    ASSUME NEW i, NEW c, Resting(c, i), NEW why \in EndReason, why = "tool_use" => c.tools
    PROVE  \E d : /\ Told(c, <<Concludes(why)>>, d) /\ d \in ClientState /\ d.phase = "concluded"
                  /\ d.block = "none" /\ d.blocks = i /\ d.reason = why
<1> DEFINE d == [c EXCEPT !.phase = "concluded", !.reason = why]
<1>1. c \in ClientState
  BY DEF Resting
<1>2. Concludes(why) \in Event
  BY EventsKnown
<1>3. Tells(c, Concludes(why), d)
  BY DEF Tells, Ends, Concludes, Resting
<1>4. Told(c, <<Concludes(why)>>, d) /\ d \in ClientState
  <2> HIDE DEF d
  <2> QED
    BY <1>1, <1>2, <1>3, ToldOne, TellsKnown
<1>5. d.phase = "concluded" /\ d.block = "none" /\ d.blocks = i /\ d.reason = why
  BY <1>1 DEF Resting, ClientState
<1> QED
  BY <1>4, <1>5

LEMMA ErrorTold ==
    ASSUME NEW c \in ClientState, c.phase \in {"open", "concluded"}, c.block = "none"
    PROVE  \E d : /\ Told(c, <<Said("error")>>, d) /\ d \in ClientState /\ d.phase = "failed"
                  /\ d.blocks = c.blocks /\ d.reason = c.reason
<1> DEFINE d == [c EXCEPT !.phase = "failed"]
<1>1. Said("error") \in Event
  BY EventsKnown DEF What
<1>2. Tells(c, Said("error"), d)
  BY DEF Tells, Fails, Said
<1>3. Told(c, <<Said("error")>>, d) /\ d \in ClientState
  <2> HIDE DEF d
  <2> QED
    BY <1>1, <1>2, ToldOne, TellsKnown
<1>4. d.phase = "failed" /\ d.blocks = c.blocks /\ d.reason = c.reason
  BY DEF ClientState
<1> QED
  BY <1>3, <1>4

LEMMA StopTold ==
    ASSUME NEW c \in ClientState, c.phase \in {"concluded", "failed"}
    PROVE  \E d : /\ Told(c, <<Said("message_stop")>>, d) /\ d \in ClientState
                  /\ d.phase = (IF c.phase = "failed" THEN "ended" ELSE "stopped")
                  /\ d.blocks = c.blocks /\ d.reason = c.reason
<1> DEFINE d == [c EXCEPT !.phase = IF c.phase = "failed" THEN "ended" ELSE "stopped"]
<1>1. Said("message_stop") \in Event
  BY EventsKnown DEF What
<1>2. Tells(c, Said("message_stop"), d)
  BY DEF Tells, Leaves, Said
<1>3. Told(c, <<Said("message_stop")>>, d) /\ d \in ClientState
  <2> HIDE DEF d
  <2> QED
    BY <1>1, <1>2, ToldOne, TellsKnown
<1>4. /\ d.phase = (IF c.phase = "failed" THEN "ended" ELSE "stopped")
      /\ d.blocks = c.blocks /\ d.reason = c.reason
  BY DEF ClientState
<1> QED
  BY <1>3, <1>4

\* An error and the end, as the client gets them when all has failed.
LEMMA GoneTold ==
    ASSUME NEW c \in ClientState, c.phase \in {"open", "concluded"}, c.block = "none"
    PROVE  \E d : /\ Told(c, Gone, d) /\ d.phase = "ended" /\ d.reason = c.reason
<1>1. PICK x : /\ Told(c, <<Said("error")>>, x) /\ x \in ClientState /\ x.phase = "failed"
               /\ x.reason = c.reason
  BY ErrorTold
<1>2. PICK d : Told(x, <<Said("message_stop")>>, d) /\ d.phase = "ended" /\ d.reason = x.reason
  BY <1>1, StopTold
<1>3. Told(c, <<Said("error")>> \o <<Said("message_stop")>>, d)
  BY <1>1, <1>2, ToldBoth
<1>4. Gone = <<Said("error")>> \o <<Said("message_stop")>>
  <2>1. Said("error") \in Event /\ Said("message_stop") \in Event
    BY EventsKnown DEF What
  <2> QED
    BY <2>1, PairSplit DEF Gone
<1> QED
  BY <1>1, <1>2, <1>3, <1>4

\* A block that is opened and filled.
LEMMA BlockTold ==
    ASSUME NEW i, NEW k \in Kind, NEW c, Resting(c, i)
    PROVE  \E d : /\ Told(c, <<Opens(k, i), Fills(k, i)>>, d) /\ Within(d, k, i)
                  /\ c.tools \/ k = "tool_use" => d.tools
<1>1. PICK x : /\ Told(c, <<Opens(k, i)>>, x) /\ Within(x, k, i)
               /\ c.tools \/ k = "tool_use" => x.tools
  BY OpensTold
<1>2. PICK d : Told(x, <<Fills(k, i)>>, d) /\ Within(d, k, i) /\ (x.tools => d.tools)
  BY <1>1, FillsTold
<1>3. Told(c, <<Opens(k, i)>> \o <<Fills(k, i)>>, d)
  BY <1>1, <1>2, ToldBoth
<1>4. Opens(k, i) \in Event /\ Fills(k, i) \in Event
  BY EventsKnown DEF Resting, ClientState
<1> QED
  BY <1>1, <1>2, <1>3, <1>4, PairSplit

\* A whole block.
LEMMA WholeBlockTold ==
    ASSUME NEW i, NEW k \in Kind, NEW c, Resting(c, i)
    PROVE  \E d : /\ Told(c, <<Opens(k, i), Fills(k, i), Closes(i)>>, d) /\ Resting(d, i + 1)
                  /\ c.tools \/ k = "tool_use" => d.tools
<1>1. PICK x : /\ Told(c, <<Opens(k, i), Fills(k, i)>>, x) /\ Within(x, k, i)
               /\ c.tools \/ k = "tool_use" => x.tools
  BY BlockTold
<1>2. PICK d : Told(x, <<Closes(i)>>, d) /\ Resting(d, i + 1) /\ (x.tools => d.tools)
  BY <1>1, ClosesTold
<1>3. Told(c, <<Opens(k, i), Fills(k, i)>> \o <<Closes(i)>>, d)
  BY <1>1, <1>2, ToldBoth
<1>4. <<Opens(k, i), Fills(k, i)>> \o <<Closes(i)>> = <<Opens(k, i), Fills(k, i), Closes(i)>>
  <2>1. Opens(k, i) \in Event /\ Fills(k, i) \in Event /\ Closes(i) \in Event
    BY EventsKnown DEF Resting, ClientState
  <2> QED
    BY <2>1, TripleSplit
<1> QED
  BY <1>1, <1>2, <1>3, <1>4

\* What closes the open block does so.
LEMMA ClosingTold ==
    ASSUME TextTypes, NEW c, Holding(c)
    PROVE  \E d : Told(c, Closing, d) /\ Resting(d, NextIndex) /\ (c.tools => d.tools)
<1>1. CASE open = "none"
  <2>1. Resting(c, index) /\ Closing = <<>> /\ NextIndex = index
    BY <1>1 DEF Holding, Closing, NextIndex
  <2>2. Told(c, <<>>, c)
    BY <2>1, ToldNothing DEF Resting
  <2> QED
    BY <2>1, <2>2
<1>2. ASSUME NEW k \in Kind, open = k, NEW filled \in BOOLEAN,
             Closing = (IF filled THEN <<Fills(k, index)>> ELSE <<>>) \o <<Closes(index)>>
      PROVE  \E d : Told(c, Closing, d) /\ Resting(d, NextIndex) /\ (c.tools => d.tools)
  <2>1. Within(c, k, index) /\ NextIndex = index + 1 /\ c \in ClientState
    BY <1>2 DEF Holding, NextIndex, Kind, Within
  <2>2. PICK x : /\ Told(c, IF filled THEN <<Fills(k, index)>> ELSE <<>>, x)
                 /\ Within(x, k, index) /\ (c.tools => x.tools)
    <3>1. CASE filled
      BY <2>1, <3>1, FillsTold
    <3>2. CASE ~filled
      BY <2>1, <3>2, ToldNothing
    <3> QED
      BY <3>1, <3>2
  <2>3. PICK d : Told(x, <<Closes(index)>>, d) /\ Resting(d, index + 1) /\ (x.tools => d.tools)
    BY <2>2, ClosesTold
  <2>4. Told(c, (IF filled THEN <<Fills(k, index)>> ELSE <<>>) \o <<Closes(index)>>, d)
    BY <2>2, <2>3, ToldBoth
  <2> QED
    BY <1>2, <2>1, <2>2, <2>3, <2>4
<1>3. CASE open = "text"
  BY <1>2, <1>3 DEF Closing, TextTypes, Kind
<1>4. CASE open = "thinking"
  BY <1>2, <1>4 DEF Closing, TextTypes, Kind
<1>5. CASE open = "tool_use"
  <2>1. Closing = <<>> \o <<Closes(index)>>
    BY <1>5 DEF Closing
  <2> QED
    BY <1>2, <1>5, <2>1 DEF Kind
<1> QED
  BY <1>1, <1>3, <1>4, <1>5 DEF TextTypes, Kind

\* Text goes to a text block, which opens if need be.
LEMMA TextBlockTold ==
    ASSUME TextTypes, NEW c, Holding(c)
    PROVE  \E d : /\ Told(c, IF open = "text" THEN <<>> ELSE Closing \o <<Opens("text", NextIndex)>>, d)
                  /\ Within(d, "text", TextIndex) /\ (c.tools => d.tools)
<1>1. CASE open = "text"
  <2>1. Within(c, "text", TextIndex) /\ c \in ClientState
    BY <1>1 DEF Holding, TextIndex, Within
  <2> QED
    BY <1>1, <2>1, ToldNothing
<1>2. CASE open # "text"
  <2>1. PICK x : Told(c, Closing, x) /\ Resting(x, NextIndex) /\ (c.tools => x.tools)
    BY ClosingTold
  <2>2. PICK d : /\ Told(x, <<Opens("text", NextIndex)>>, d) /\ Within(d, "text", NextIndex)
                 /\ x.tools => d.tools
    BY <2>1, OpensTold DEF Kind
  <2>3. Told(c, Closing \o <<Opens("text", NextIndex)>>, d)
    BY <2>1, <2>2, ToldBoth
  <2> QED
    BY <1>2, <2>1, <2>2, <2>3 DEF TextIndex
<1> QED
  BY <1>1, <1>2

\* A delta, or none.
LEMMA MaybeFillsTold ==
    ASSUME NEW i, NEW k \in Kind, NEW filled \in BOOLEAN, NEW c, Within(c, k, i)
    PROVE  \E d : /\ Told(c, IF filled THEN <<Fills(k, i)>> ELSE <<>>, d)
                  /\ Within(d, k, i) /\ (c.tools => d.tools)
<1>1. CASE filled
  BY <1>1, FillsTold
<1>2. CASE ~filled
  BY <1>2, ToldNothing DEF Within
<1> QED
  BY <1>1, <1>2

-----------------------------------------------------------------------------
(* The steps.                                                              *)

\* Before a step of the generator the client has heard everything.
LEMMA QuietKnown ==
    ASSUME StreamInv, Quiet
    PROVE  Heard \in ClientState /\ Agrees(Heard) /\ Heard' = Heard
<1>1. PICK d : Told(Heard, out, d) /\ Agrees(d)
  BY DEF StreamInv
<1>2. Heard \in ClientState
  BY <1>1, ToldKnown
<1>3. d = Heard
  BY <1>1, <1>2, ToldNothing DEF Quiet
<1>4. Heard' = Heard
  BY DEF Quiet, client, Heard
<1> QED
  BY <1>1, <1>2, <1>3, <1>4

\* A step that tells the client something it may be told.
LEMMA TellingOK ==
    ASSUME StreamInv, Quiet, NEW q, NEW d, Told(Heard, q, d), out' = q, Agrees(d)',
           TextTypes', StagesOK'
    PROVE  StreamInv'
<1>1. Heard' = Heard
  BY QuietKnown
<1>2. Told(Heard, q, d)'
  BY <1>1
<1> QED
  BY <1>1, <1>2 DEF StreamInv

\* A step that tells it nothing.
LEMMA SilentOK ==
    ASSUME StreamInv, Quiet, UNCHANGED out, Agrees(Heard)', TextTypes', StagesOK'
    PROVE  StreamInv'
<1>1. Heard \in ClientState /\ Heard' = Heard /\ out' = <<>>
  BY QuietKnown DEF Quiet
<1>2. Told(Heard, <<>>, Heard)
  BY <1>1, ToldNothing
<1> DEFINE h == Heard
<1>3. Told(h, <<>>, h) /\ h' = h /\ Agrees(h)'
  BY <1>1, <1>2
<1> HIDE DEF h
<1>4. (\E d : Told(Heard, out, d) /\ Agrees(d))'
  BY <1>1, <1>3 DEF h
<1> QED
  BY <1>4 DEF StreamInv

LEMMA StreamStartOK == Init => StreamInv
<1> SUFFICES ASSUME Init PROVE StreamInv
  OBVIOUS
<1>1. TextTypes /\ StagesOK
  BY DEF Init, TextTypes, StagesOK, Live
<1>2. Heard \in ClientState /\ out = <<>>
  BY DEF Init, Client!Init, Heard, ClientState
<1>3. Agrees(Heard)
  BY DEF Init, Client!Init, Heard, Agrees, Live
<1> QED
  BY <1>1, <1>2, <1>3, ToldNothing DEF StreamInv

\* What a client may be told by an event, it is told; and that is a step of the
\* protocol.
LEMMA HearsTheProtocol ==
    ASSUME Heard \in ClientState, NEW e \in Event, NEW x, Tells(Heard, e, x), Hear(e)
    PROVE  Heard' = x /\ Client!Next
<1> DEFINE h == Heard
           told == [phase |-> phase', block |-> block', delta |-> delta', number |-> number',
                    blocks |-> blocks', tools |-> tools', reason |-> reason']
<1>1. /\ h.phase = phase /\ h.block = block /\ h.delta = delta /\ h.number = number
      /\ h.blocks = blocks /\ h.tools = tools /\ h.reason = reason
  BY DEF Heard
<1>2. tools \in BOOLEAN
  BY <1>1 DEF ClientState
<1>3. Heard' = told
  BY DEF Heard
<1>4. tools' = IF e.kind = "tool_use" /\ e.what = "block_start" THEN TRUE ELSE tools
  BY <1>2 DEF Hear
<1>5. CASE Greets(h, e, x)
  <2>1. phase' = "open" /\ UNCHANGED <<block, delta, number, blocks, tools, reason>>
    BY <1>4, <1>5 DEF Greets, Hear
  <2>2. x = [Heard EXCEPT !.phase = "open"] /\ phase = "silent"
    BY <1>1, <1>5 DEF Greets
  <2> QED
    BY <1>3, <2>1, <2>2 DEF Heard, Client!Next, Client!Greet
<1>6. CASE Starts(h, e, x)
  <2>1. /\ block' = e.kind /\ delta' = "none" /\ number' = e.index
        /\ tools' = (tools \/ e.kind = "tool_use") /\ UNCHANGED <<phase, blocks, reason>>
    BY <1>6 DEF Starts, Hear
  <2>2. x = [Heard EXCEPT !.block = e.kind, !.delta = "none", !.number = e.index,
                          !.tools = (tools \/ e.kind = "tool_use")]
        /\ phase = "open" /\ block = "none" /\ e.kind \in Kind /\ e.index = blocks
    BY <1>1, <1>6 DEF Starts
  <2>3. Heard' = x
    BY <1>3, <2>1, <2>2 DEF Heard
  <2>4. Client!OpenBlock
    BY <2>1, <2>2 DEF Client!OpenBlock, Client!Kinds, Kind
  <2> QED
    BY <2>3, <2>4 DEF Client!Next
<1>7. CASE Adds(h, e, x)
  <2>1. delta' = e.kind /\ number' = e.index /\ UNCHANGED <<phase, block, blocks, tools, reason>>
    BY <1>4, <1>7 DEF Adds, Hear
  <2>2. x = [Heard EXCEPT !.delta = e.kind] /\ phase = "open" /\ block # "none"
        /\ e.kind = block /\ e.index = number
    BY <1>1, <1>7 DEF Adds
  <2> QED
    BY <1>3, <2>1, <2>2 DEF Heard, Client!Next, Client!Fill
<1>8. CASE Stops(h, e, x)
  <2>1. /\ block' = "none" /\ number' = e.index /\ blocks' = blocks + 1
        /\ UNCHANGED <<phase, delta, tools, reason>>
    BY <1>4, <1>8 DEF Stops, Hear
  <2>2. x = [Heard EXCEPT !.block = "none", !.blocks = blocks + 1]
        /\ phase = "open" /\ block # "none" /\ e.index = number
    BY <1>1, <1>8 DEF Stops
  <2> QED
    BY <1>3, <2>1, <2>2 DEF Heard, Client!Next, Client!CloseBlock
<1>9. CASE Ends(h, e, x)
  <2>1. /\ phase' = "concluded" /\ reason' = e.kind
        /\ UNCHANGED <<block, delta, number, blocks, tools>>
    BY <1>4, <1>9 DEF Ends, Hear
  <2>2. x = [Heard EXCEPT !.phase = "concluded", !.reason = e.kind]
        /\ phase = "open" /\ block = "none" /\ e.kind \in EndReason /\ (e.kind = "tool_use" => tools)
    BY <1>1, <1>9 DEF Ends
  <2> QED
    BY <1>3, <2>1, <2>2 DEF Heard, Client!Next, Client!Conclude, Client!Reasons, EndReason
<1>10. CASE Fails(h, e, x)
  <2>1. phase' = "failed" /\ UNCHANGED <<block, delta, number, blocks, tools, reason>>
    BY <1>4, <1>10 DEF Fails, Hear
  <2>2. x = [Heard EXCEPT !.phase = "failed"] /\ phase \in {"open", "concluded"} /\ block = "none"
    BY <1>1, <1>10 DEF Fails
  <2> QED
    BY <1>3, <2>1, <2>2 DEF Heard, Client!Next, Client!Fail
<1>11. CASE Leaves(h, e, x)
  <2> DEFINE end == IF phase = "failed" THEN "ended" ELSE "stopped"
  <2>1. phase' = end /\ UNCHANGED <<block, delta, number, blocks, tools, reason>>
    BY <1>4, <1>11 DEF Leaves, Hear
  <2>2. x = [Heard EXCEPT !.phase = end] /\ phase \in {"concluded", "failed"}
    BY <1>1, <1>11 DEF Leaves
  <2>3. Client!Stop
    BY <2>1, <2>2 DEF Client!Stop
  <2> HIDE DEF end
  <2>4. Heard' = x
    BY <1>3, <2>1, <2>2 DEF Heard
  <2> QED
    BY <2>3, <2>4 DEF Client!Next
<1> QED
  BY <1>5, <1>6, <1>7, <1>8, <1>9, <1>10, <1>11 DEF Tells

LEMMA DeliverOK ==
    ASSUME StreamInv, Deliver
    PROVE  StreamInv' /\ Client!Next
<1>1. PICK d : Told(Heard, out, d) /\ Agrees(d)
  BY DEF StreamInv
<1>2. out # <<>> /\ Hear(Head(out)) /\ out' = Tail(out)
      /\ UNCHANGED <<stage, run, text, fault>>
  BY DEF Deliver
<1>3. PICK x : Tells(Heard, Head(out), x) /\ Told(x, Tail(out), d)
  BY <1>1, <1>2, ToldNext
<1>4. Heard \in ClientState /\ Head(out) \in Event
  <2>1. Heard \in ClientState /\ out \in Seq(Event)
    BY <1>1, ToldKnown
  <2> QED
    BY <1>2, <2>1
<1>5. Heard' = x /\ Client!Next
  BY <1>2, <1>3, <1>4, HearsTheProtocol
<1>6. Agrees(d)' /\ TextTypes' /\ StagesOK'
  BY <1>1, <1>2 DEF StreamInv, text, Agrees, Holding, TextTypes, StagesOK
<1>7. Told(Heard, out, d)'
  BY <1>2, <1>3, <1>5
<1> QED
  BY <1>5, <1>6, <1>7 DEF StreamInv

\* Who has not heard everything may still be cut off.
LEMMA CancelOK ==
    ASSUME StreamInv, Cancel
    PROVE  StreamInv' /\ Client!Next
<1>1. PICK d : Told(Heard, out, d) /\ Agrees(d)
  BY DEF StreamInv
<1>2. /\ out # <<>> /\ out' = <<>> /\ stage' = "over" /\ phase' = "cut off"
      /\ UNCHANGED <<run, open, index, held, signed, sawAny, sawTool, finish, fault>>
      /\ UNCHANGED <<block, delta, number, blocks, tools, reason>>
  BY DEF Cancel, text
<1>3. PICK x : Tells(Heard, Head(out), x)
  BY <1>1, <1>2, ToldNext
<1>4. phase \notin {"stopped", "ended"}
  BY <1>3 DEF Tells, Greets, Starts, Adds, Stops, Ends, Fails, Leaves, Heard
<1>5. Client!Next
  BY <1>2, <1>4 DEF Client!Next, Client!CutOff
<1>6. Heard \in ClientState /\ Heard.reason \in {"none", d.reason}
  BY <1>1, ToldKnown
<1> PICK h : h = [phase |-> "cut off", block |-> block, delta |-> delta, number |-> number,
                  blocks |-> blocks, tools |-> tools, reason |-> reason]
  OBVIOUS
<1>7. Heard' = h
  BY <1>2 DEF Heard
<1>8. h \in ClientState /\ h.phase = "cut off" /\ h.reason \in {"none", d.reason}
  <2> DEFINE c == Heard
  <2>1. /\ c.block = block /\ c.delta = delta /\ c.number = number /\ c.blocks = blocks
        /\ c.tools = tools /\ c.reason = reason
    BY DEF Heard
  <2>2. c \in ClientState /\ c.reason \in {"none", d.reason}
    BY <1>6
  <2> HIDE DEF c
  <2>3. /\ block \in Kind \cup {"none"} /\ delta \in Kind \cup {"none"} /\ number \in Nat
        /\ blocks \in Nat /\ tools \in BOOLEAN /\ reason \in EndReason \cup {"none"}
    BY <2>1, <2>2 DEF ClientState
  <2>4. /\ h.phase = "cut off" /\ h.block = block /\ h.delta = delta /\ h.number = number
        /\ h.blocks = blocks /\ h.tools = tools /\ h.reason = reason
    OBVIOUS
  <2>5. h \in ClientState
    BY <2>3 DEF ClientState
  <2> QED
    BY <2>1, <2>2, <2>4, <2>5
<1>9. Agrees(h)'
  <2>1. d.reason = "tool_use" /\ finish = "MAX_TOKENS" => fault = "broken"
    BY <1>1 DEF Agrees
  <2> QED
    BY <1>2, <1>8, <2>1 DEF Agrees, Live
<1>10. Told(h, <<>>, h)
  BY <1>8, ToldNothing
<1>11. TextTypes' /\ StagesOK'
  BY <1>2 DEF StreamInv, TextTypes, StagesOK, Live
<1>12. (\E x_1 : Told(Heard, out, x_1) /\ Agrees(x_1))'
  BY <1>2, <1>7, <1>9, <1>10
<1> QED
  BY <1>5, <1>11, <1>12 DEF StreamInv

LEMMA BeforeOK ==
    ASSUME StreamInv, Start \/ Reject \/ Transform \/ SearchOnly
    PROVE  StreamInv'
<1>1. Quiet /\ UNCHANGED <<run, open, index, held, signed, sawAny, sawTool, finish, fault>>
  BY DEF Start, Reject, Transform, SearchOnly, text
<1>2. Heard \in ClientState /\ Agrees(Heard)
  BY <1>1, QuietKnown
<1>3. TextTypes /\ StagesOK
  BY DEF StreamInv
<1> DEFINE h == Heard
<1>4. TextTypes'
  BY <1>1, <1>3 DEF TextTypes
<1>5. CASE Start
  <2>1. stage = "start" /\ stage' = "transforming" /\ out' = <<Said("message_start")>>
    BY <1>5 DEF Start
  <2> PICK d : d = [h EXCEPT !.phase = "open"]
    OBVIOUS
  <2>2. h.phase = "silent" /\ h.block = "none" /\ h.blocks = 0 /\ h.reason = "none"
    BY <1>2, <2>1 DEF Agrees
  <2>3. Tells(h, Said("message_start"), d)
    BY <2>2 DEF Tells, Greets, Said
  <2>4. Said("message_start") \in Event
    BY EventsKnown DEF What
  <2>5. /\ d \in ClientState /\ d.phase = "open" /\ d.block = "none" /\ d.blocks = 0
        /\ d.reason = "none"
    BY <1>2, <2>2 DEF ClientState
  <2>6. Told(Heard, <<Said("message_start")>>, d)
    BY <1>2, <2>3, <2>4, ToldOne
  <2>7. index = 0 /\ open = "none" /\ ~sawTool /\ ~sawAny /\ fault # "broken"
    BY <1>3, <2>1 DEF StagesOK
  <2>8. Agrees(d)'
    BY <1>1, <2>1, <2>5, <2>7 DEF Agrees, Holding, Resting, Live
  <2>9. StagesOK'
    BY <1>1, <2>1, <2>7 DEF StagesOK, Live
  <2> QED
    BY <1>1, <1>4, <2>1, <2>6, <2>8, <2>9, TellingOK
<1>6. CASE Reject
  <2>1. stage = "transforming" /\ stage' = "rejected" /\ out' = <<Said("error")>>
    BY <1>6 DEF Reject
  <2>2. h.phase = "open" /\ h.block = "none" /\ h.reason = "none"
    BY <1>2, <1>3, <2>1 DEF Agrees, StagesOK, Live, Holding, Resting
  <2>3. PICK d : /\ Told(h, <<Said("error")>>, d) /\ d \in ClientState /\ d.phase = "failed"
                 /\ d.reason = "none"
    BY <1>2, <2>2, ErrorTold
  <2>4. Agrees(d)'
    BY <2>1, <2>3 DEF Agrees, Live
  <2>5. StagesOK'
    BY <2>1 DEF StagesOK, Live
  <2> QED
    BY <1>1, <1>4, <2>1, <2>3, <2>4, <2>5, TellingOK
<1>7. CASE Transform \/ SearchOnly
  <2>1. stage \in {"transforming", "searching"} /\ stage' \in {"searching", "ready"} /\ out' = out
    BY <1>7 DEF Transform, SearchOnly
  <2>2. Heard' = Heard
    BY <1>1, QuietKnown
  <2>3. Agrees(Heard)'
    BY <1>1, <1>2, <2>1, <2>2 DEF Agrees, Holding, Resting, Within, Live
  <2>4. StagesOK'
    BY <1>1, <1>3, <2>1 DEF StagesOK, Live
  <2> QED
    BY <1>1, <1>4, <2>1, <2>3, <2>4, SilentOK
<1> QED
  BY <1>5, <1>6, <1>7

\* A client at ease is told of a good end.
LEMMA GoodEndTold ==
    ASSUME NEW i, NEW c, Resting(c, i), NEW why \in EndReason, why = "tool_use" => c.tools
    PROVE  \E d : /\ Told(c, <<Concludes(why), Said("message_stop")>>, d)
                  /\ d.phase = "stopped" /\ d.blocks = i /\ d.reason = why
<1>1. PICK x : /\ Told(c, <<Concludes(why)>>, x) /\ x \in ClientState /\ x.phase = "concluded"
               /\ x.blocks = i /\ x.reason = why
  BY ConcludesTold
<1>2. PICK d : /\ Told(x, <<Said("message_stop")>>, d) /\ d.phase = "stopped"
               /\ d.blocks = x.blocks /\ d.reason = x.reason
  BY <1>1, StopTold
<1>3. Told(c, <<Concludes(why)>> \o <<Said("message_stop")>>, d)
  BY <1>1, <1>2, ToldBoth
<1>4. Concludes(why) \in Event /\ Said("message_stop") \in Event
  BY EventsKnown DEF What
<1> QED
  BY <1>1, <1>2, <1>3, <1>4, PairSplit

LEMMA AnswerFromSearchOK ==
    ASSUME StreamInv, AnswerFromSearch
    PROVE  StreamInv'
<1>1. /\ Quiet /\ stage = "searching" /\ stage' = "over" /\ sawAny' = TRUE /\ index' = index + 1
      /\ UNCHANGED <<run, open, held, signed, sawTool, finish, fault>>
  BY DEF AnswerFromSearch
<1>2. Agrees(Heard) /\ TextTypes /\ StagesOK
  BY <1>1, QuietKnown DEF StreamInv
<1>3. Resting(Heard, index) /\ index \in Nat /\ fault # "broken"
  BY <1>1, <1>2 DEF Agrees, Holding, StagesOK, TextTypes, Live
<1>4. PICK x : /\ Told(Heard, <<Opens("text", index), Fills("text", index), Closes(index)>>, x)
               /\ Resting(x, index + 1)
  BY <1>3, WholeBlockTold DEF Kind
<1>5. PICK d : /\ Told(x, <<Concludes("end_turn"), Said("message_stop")>>, d)
               /\ d.phase = "stopped" /\ d.blocks = index + 1 /\ d.reason = "end_turn"
  BY <1>4, GoodEndTold DEF EndReason
<1>6. Told(Heard, out', d)
  <2>1. /\ Opens("text", index) \in Event /\ Fills("text", index) \in Event /\ Closes(index) \in Event
        /\ Concludes("end_turn") \in Event /\ Said("message_stop") \in Event
    BY <1>3, EventsKnown DEF Kind, EndReason, What
  <2>2. out' = <<Opens("text", index), Fills("text", index), Closes(index)>>
               \o <<Concludes("end_turn"), Said("message_stop")>>
    BY <2>1, FiveSplit DEF AnswerFromSearch
  <2> QED
    BY <1>4, <1>5, <2>2, ToldBoth
<1>7. Agrees(d)'
  BY <1>1, <1>3, <1>5 DEF Agrees, Live
<1>8. TextTypes' /\ StagesOK'
  BY <1>1, <1>2 DEF TextTypes, StagesOK, Live
<1> QED
  BY <1>1, <1>6, <1>7, <1>8, TellingOK

LEMMA RequestOK ==
    ASSUME StreamInv, Submit \/ Answered
    PROVE  StreamInv'
<1>1. /\ Quiet /\ UNCHANGED out /\ UNCHANGED <<run, open, index, held, signed, sawAny, sawTool, finish>>
      /\ stage \in {"ready", "waiting"} /\ stage' \in {"waiting", "draining"}
      /\ stage' = "waiting" => stage = "ready"
      /\ fault' \in {"none", fault}
  BY DEF Submit, Answered, text
<1>2. Agrees(Heard) /\ TextTypes /\ StagesOK /\ Heard' = Heard
  BY <1>1, QuietKnown DEF StreamInv
<1>3. fault # "broken" /\ fault' # "broken"
  BY <1>1, <1>2 DEF StagesOK, Live
<1>4. Agrees(Heard)'
  BY <1>1, <1>2, <1>3 DEF Agrees, Holding, Resting, Within, Live
<1>5. TextTypes' /\ StagesOK'
  BY <1>1, <1>2, <1>3 DEF TextTypes, StagesOK, Live
<1> QED
  BY <1>1, <1>4, <1>5, SilentOK

LEMMA ThrownOK ==
    ASSUME StreamInv, Thrown
    PROVE  StreamInv'
<1>1. /\ Quiet /\ UNCHANGED <<open, index, held, signed, sawAny, sawTool, finish, fault>>
      /\ stage = "waiting"
  BY DEF Thrown, text
<1>2. Agrees(Heard) /\ TextTypes /\ StagesOK /\ Heard' = Heard /\ Heard \in ClientState
  BY <1>1, QuietKnown DEF StreamInv
<1>3. fault # "broken" /\ Holding(Heard)
  BY <1>1, <1>2 DEF StagesOK, Agrees, Live
<1>4. CASE stage' \in {"ready", "closing"} /\ UNCHANGED out
  <2>1. run'.of # "empty" => run.of # "empty"
    BY <1>4 DEF Thrown, GoOn
  <2>2. stage' = "ready" => run.of # "empty"
    BY <1>4 DEF Thrown, GoOn
  <2>3. Agrees(Heard)'
    BY <1>1, <1>2, <1>3, <1>4 DEF Agrees, Holding, Resting, Within, Live
  <2>4. TextTypes' /\ StagesOK'
    BY <1>1, <1>2, <1>3, <1>4, <2>1, <2>2 DEF TextTypes, StagesOK, Live
  <2> QED
    BY <1>1, <1>4, <2>3, <2>4, SilentOK
<1>5. CASE /\ (run.of = "first" /\ at = "failed") \/ (run.of = "extra" /\ run.n = 3)
           /\ stage' = "over" /\ out' = Gone /\ UNCHANGED run
  <2>1. open = "none"
    BY <1>1, <1>2, <1>5 DEF StagesOK
  <2>2. Resting(Heard, index)
    BY <1>3, <2>1 DEF Holding
  <2>3. PICK d : Told(Heard, Gone, d) /\ d.phase = "ended" /\ d.reason = Heard.reason
    BY <1>2, <2>2, GoneTold DEF Resting
  <2>4. Agrees(d)'
    BY <1>5, <2>2, <2>3 DEF Agrees, Live, Resting
  <2>5. TextTypes' /\ StagesOK'
    BY <1>1, <1>2, <1>5 DEF TextTypes, StagesOK, Live
  <2> QED
    BY <1>1, <1>5, <2>3, <2>4, <2>5, TellingOK
<1> QED
  BY <1>4, <1>5 DEF Thrown, GoOn

\* A chunk of the answer leaves the client where transformStream believes it.
LEMMA ChunkOK ==
    ASSUME StreamInv, Chunk, TextTypes', sawAny' \/ sawTool' => open' # "none",
           NEW q, NEW d, Told(Heard, q, d), out' = q, Holding(d)', sawTool' => d.tools
    PROVE  StreamInv'
<1>1. Quiet /\ stage = "draining" /\ stage' = "draining" /\ run' = run /\ fault' = fault
  BY DEF Chunk
<1>2. StagesOK'
  BY <1>1 DEF StreamInv, StagesOK, Live
<1>3. d.phase = "open" /\ d.reason = "none"
  BY DEF Holding, Resting, Within
<1>4. Agrees(d)'
  BY <1>1, <1>3 DEF Agrees, Live
<1> QED
  BY <1>1, <1>2, <1>4, TellingOK

LEMMA ThoughtOK ==
    ASSUME StreamInv, Thought
    PROVE  StreamInv'
<1>1. /\ Quiet /\ Chunk /\ stage = "draining" /\ sawAny' = TRUE
      /\ UNCHANGED <<held, sawTool, finish>>
  BY DEF Thought, Chunk
<1>2. TextTypes /\ Holding(Heard) /\ (sawTool => Heard.tools)
  BY <1>1, QuietKnown DEF StreamInv, Agrees, Live
<1>3. PICK s \in BOOLEAN :
         IF open = "thinking"
           THEN /\ out' = <<Fills("thinking", index)>> /\ signed' = (signed \/ s)
                /\ UNCHANGED <<index, open>>
           ELSE /\ out' = Closing \o <<Opens("thinking", NextIndex), Fills("thinking", NextIndex)>>
                /\ index' = NextIndex /\ open' = "thinking" /\ signed' = s
  BY DEF Thought
<1>4. NextIndex \in Nat
  BY <1>2 DEF NextIndex, TextTypes
<1>5. TextTypes'
  BY <1>1, <1>2, <1>3, <1>4 DEF TextTypes, Kind
<1>6. CASE open = "thinking"
  <2>1. Within(Heard, "thinking", index)
    BY <1>2, <1>6 DEF Holding
  <2>2. PICK d : /\ Told(Heard, <<Fills("thinking", index)>>, d) /\ Within(d, "thinking", index)
                 /\ Heard.tools => d.tools
    BY <2>1, FillsTold DEF Kind
  <2>3. Holding(d)'
    BY <1>3, <1>6, <2>2 DEF Holding, Within
  <2> QED
    BY <1>1, <1>2, <1>3, <1>5, <1>6, <2>2, <2>3, ChunkOK
<1>7. CASE open # "thinking"
  <2>1. PICK x : Told(Heard, Closing, x) /\ Resting(x, NextIndex) /\ (Heard.tools => x.tools)
    BY <1>2, ClosingTold
  <2>2. PICK d : /\ Told(x, <<Opens("thinking", NextIndex), Fills("thinking", NextIndex)>>, d)
                 /\ Within(d, "thinking", NextIndex) /\ (x.tools => d.tools)
    BY <2>1, BlockTold DEF Kind
  <2>3. Told(Heard, out', d)
    BY <1>3, <1>7, <2>1, <2>2, ToldBoth
  <2>4. Holding(d)'
    BY <1>3, <1>7, <2>2 DEF Holding, Within
  <2> QED
    BY <1>1, <1>2, <1>3, <1>5, <1>7, <2>1, <2>2, <2>3, <2>4, ChunkOK
<1> QED
  BY <1>6, <1>7

\* Text, shown or not.
LEMMA TextOK ==
    ASSUME StreamInv, ShowText \/ HideText
    PROVE  StreamInv'
<1>1. /\ Quiet /\ Chunk /\ stage = "draining" /\ open' = "text" /\ index' = TextIndex
      /\ held' \in BOOLEAN /\ signed' = (signed /\ open # "thinking")
      /\ sawAny' \in {TRUE, sawAny} /\ UNCHANGED <<sawTool, finish>>
  BY DEF ShowText, HideText, Chunk
<1>2. TextTypes /\ Holding(Heard) /\ (sawTool => Heard.tools)
  BY <1>1, QuietKnown DEF StreamInv, Agrees, Live
<1>3. PICK shown \in BOOLEAN : InText(TextIndex, IF shown THEN <<Fills("text", TextIndex)>> ELSE <<>>)
  BY DEF ShowText, HideText
<1>4. TextIndex \in Nat
  BY <1>2 DEF TextIndex, NextIndex, TextTypes
<1>5. TextTypes'
  BY <1>1, <1>2, <1>4 DEF TextTypes, Kind
<1>6. PICK x : /\ Told(Heard, IF open = "text" THEN <<>> ELSE Closing \o <<Opens("text", NextIndex)>>, x)
               /\ Within(x, "text", TextIndex) /\ (Heard.tools => x.tools)
  BY <1>2, TextBlockTold
<1>7. PICK d : /\ Told(x, IF shown THEN <<Fills("text", TextIndex)>> ELSE <<>>, d)
               /\ Within(d, "text", TextIndex) /\ (x.tools => d.tools)
  BY <1>6, MaybeFillsTold DEF Kind
<1>8. Told(Heard, out', d)
  BY <1>3, <1>6, <1>7, ToldBoth DEF InText
<1>9. Holding(d)'
  BY <1>1, <1>7 DEF Holding, Within
<1> QED
  BY <1>1, <1>2, <1>5, <1>6, <1>7, <1>8, <1>9, ChunkOK

LEMMA RecoverActionOK ==
    ASSUME StreamInv, RecoverAction
    PROVE  StreamInv'
<1> DEFINE i == TextIndex
<1>1. /\ Quiet /\ Chunk /\ stage = "draining" /\ open' = "text" /\ index' = i + 2
      /\ held' \in BOOLEAN /\ sawAny' = TRUE /\ sawTool' = TRUE
      /\ signed' = (signed /\ open # "thinking")
  BY DEF RecoverAction, Chunk
<1>2. TextTypes /\ Holding(Heard)
  BY <1>1, QuietKnown DEF StreamInv, Agrees, Live
<1> DEFINE between == <<Closes(i), Opens("tool_use", i + 1), Fills("tool_use", i + 1), Closes(i + 1),
                        Opens("text", i + 2)>>
<1>3. PICK before, after \in BOOLEAN :
         InText(i, (IF before THEN <<Fills("text", i)>> ELSE <<>>) \o between
                   \o (IF after THEN <<Fills("text", i + 2)>> ELSE <<>>))
  BY DEF RecoverAction
<1>4. i \in Nat /\ i + 1 \in Nat /\ i + 2 \in Nat /\ (i + 1) + 1 = i + 2
  BY <1>2 DEF TextIndex, NextIndex, TextTypes
<1>5. TextTypes'
  BY <1>1, <1>2, <1>4 DEF TextTypes, Kind
<1>6. PICK c1 : /\ Told(Heard, IF open = "text" THEN <<>> ELSE Closing \o <<Opens("text", NextIndex)>>, c1)
                /\ Within(c1, "text", i)
  BY <1>2, TextBlockTold
<1>7. between = (<<Closes(i)>> \o <<Opens("tool_use", i + 1), Fills("tool_use", i + 1)>>)
                \o (<<Closes(i + 1)>> \o <<Opens("text", i + 2)>>)
  <2>1. /\ Closes(i) \in Event /\ Opens("tool_use", i + 1) \in Event
        /\ Fills("tool_use", i + 1) \in Event /\ Closes(i + 1) \in Event /\ Opens("text", i + 2) \in Event
    BY <1>4, EventsKnown DEF Kind
  <2> HIDE DEF i
  <2> QED
    BY <2>1, FiveSplit
<1> HIDE DEF i, between
<1>8. PICK c2 : Told(c1, IF before THEN <<Fills("text", i)>> ELSE <<>>, c2) /\ Within(c2, "text", i)
  BY <1>6, MaybeFillsTold DEF Kind
<1>9. PICK c3 : Told(c2, <<Closes(i)>>, c3) /\ Resting(c3, i + 1)
  BY <1>8, ClosesTold DEF Kind
<1>10. PICK c4 : /\ Told(c3, <<Opens("tool_use", i + 1), Fills("tool_use", i + 1)>>, c4)
                 /\ Within(c4, "tool_use", i + 1) /\ c4.tools
  BY <1>9, BlockTold DEF Kind
<1>11. PICK c5 : Told(c4, <<Closes(i + 1)>>, c5) /\ Resting(c5, i + 2) /\ c5.tools
  BY <1>4, <1>10, ClosesTold DEF Kind
<1>12. PICK c6 : Told(c5, <<Opens("text", i + 2)>>, c6) /\ Within(c6, "text", i + 2) /\ c6.tools
  BY <1>11, OpensTold DEF Kind
<1>13. PICK d : /\ Told(c6, IF after THEN <<Fills("text", i + 2)>> ELSE <<>>, d)
                /\ Within(d, "text", i + 2) /\ d.tools
  BY <1>12, MaybeFillsTold DEF Kind
<1>14. Told(c2, between, c6)
  <2>1. Told(c2, <<Closes(i)>> \o <<Opens("tool_use", i + 1), Fills("tool_use", i + 1)>>, c4)
    BY <1>9, <1>10, ToldBoth
  <2>2. Told(c4, <<Closes(i + 1)>> \o <<Opens("text", i + 2)>>, c6)
    BY <1>11, <1>12, ToldBoth
  <2> QED
    BY <1>7, <2>1, <2>2, ToldBoth
<1>15. Told(Heard, out', d)
  <2>1. Told(c1, (IF before THEN <<Fills("text", i)>> ELSE <<>>) \o between, c6)
    BY <1>8, <1>14, ToldBoth
  <2>2. Told(c1, (IF before THEN <<Fills("text", i)>> ELSE <<>>) \o between
                 \o (IF after THEN <<Fills("text", i + 2)>> ELSE <<>>), d)
    BY <1>13, <2>1, ToldBoth
  <2> QED
    BY <1>3, <1>6, <2>2, ToldBoth DEF InText
<1>16. Holding(d)'
  BY <1>1, <1>13 DEF Holding, Within
<1> QED
  BY <1>1, <1>5, <1>13, <1>15, <1>16, ChunkOK

LEMMA CallToolOK ==
    ASSUME StreamInv, CallTool
    PROVE  StreamInv'
<1>1. /\ Quiet /\ Chunk /\ stage = "draining"
      /\ out' = Closing \o <<Opens("tool_use", NextIndex), Fills("tool_use", NextIndex)>>
      /\ open' = "tool_use" /\ index' = NextIndex /\ sawAny' = TRUE /\ sawTool' = TRUE
      /\ signed' = (signed /\ open # "thinking") /\ UNCHANGED held
  BY DEF CallTool, Chunk
<1>2. TextTypes /\ Holding(Heard)
  BY <1>1, QuietKnown DEF StreamInv, Agrees, Live
<1>3. NextIndex \in Nat
  BY <1>2 DEF NextIndex, TextTypes
<1>4. TextTypes'
  BY <1>1, <1>2, <1>3 DEF TextTypes, Kind
<1>5. PICK x : Told(Heard, Closing, x) /\ Resting(x, NextIndex)
  BY <1>2, ClosingTold
<1>6. PICK d : /\ Told(x, <<Opens("tool_use", NextIndex), Fills("tool_use", NextIndex)>>, d)
               /\ Within(d, "tool_use", NextIndex) /\ d.tools
  BY <1>5, BlockTold DEF Kind
<1>7. Told(Heard, out', d)
  BY <1>1, <1>5, <1>6, ToldBoth
<1>8. Holding(d)'
  BY <1>1, <1>6 DEF Holding, Within
<1> QED
  BY <1>1, <1>4, <1>6, <1>7, <1>8, ChunkOK

LEMMA QuietAnswerOK ==
    ASSUME StreamInv, Finish \/ EndAnswer \/ Again
    PROVE  StreamInv'
<1>1. /\ Quiet /\ stage \in {"draining", "drained"} /\ stage' \in {"draining", "drained", "ready", "closing"}
      /\ UNCHANGED <<open, index, sawAny, sawTool, out>>
      /\ held' \in {held, FALSE} /\ signed' \in {signed, FALSE}
      /\ fault' \in {fault, "none", "stalled"}
      /\ stage' = "ready" => run'.of = "empty"
  <2>1. CASE Finish
    BY <2>1 DEF Finish, Chunk
  <2>2. CASE EndAnswer
    BY <2>2 DEF EndAnswer, text
  <2>3. CASE Again
    <3>1. /\ Quiet /\ stage = "drained" /\ UNCHANGED <<open, index, sawAny, sawTool, fault, out>>
          /\ \/ \E n : /\ stage' = "ready" /\ run' = [of |-> "empty", n |-> n]
                       /\ held' = FALSE /\ signed' = FALSE
             \/ stage' = "closing" /\ UNCHANGED <<held, signed>>
      BY <2>3 DEF Again
    <3>2. stage' = "ready" => run'.of = "empty"
      BY <3>1
    <3>3. stage' \in {"ready", "closing"} /\ held' \in {held, FALSE} /\ signed' \in {signed, FALSE}
      BY <3>1
    <3> QED
      BY <3>1, <3>2, <3>3
  <2> QED
    BY <2>1, <2>2, <2>3
<1>2. Agrees(Heard) /\ TextTypes /\ StagesOK /\ Heard' = Heard
  BY <1>1, QuietKnown DEF StreamInv
<1>3. fault' # "broken"
  BY <1>1, <1>2 DEF StagesOK, Live
<1>4. Holding(Heard) /\ (sawTool => Heard.tools)
  BY <1>1, <1>2 DEF Agrees, Live
<1>5. Agrees(Heard)'
  BY <1>1, <1>2, <1>4 DEF Agrees, Holding, Resting, Within, Live
<1>6. TextTypes'
  BY <1>1, <1>2 DEF TextTypes
<1>7. StagesOK'
  BY <1>1, <1>2, <1>3 DEF StagesOK, Live
<1> QED
  BY <1>1, <1>5, <1>6, <1>7, SilentOK

LEMMA BreakOK ==
    ASSUME StreamInv, Break
    PROVE  StreamInv'
<1>1. /\ Quiet /\ stage = "draining" /\ fault' = "broken"
      /\ UNCHANGED <<run, open, index, held, signed, sawAny, sawTool, finish>>
  BY DEF Break, text
<1>2. Agrees(Heard) /\ TextTypes /\ StagesOK /\ Heard' = Heard
  BY <1>1, QuietKnown DEF StreamInv
<1>3. Holding(Heard) /\ (sawTool => Heard.tools)
  BY <1>1, <1>2 DEF Agrees, Live
<1>4. TextTypes'
  BY <1>1, <1>2 DEF TextTypes
<1>5. CASE run.of = "empty"
  <2>1. stage' = "closing" /\ UNCHANGED out
    BY <1>5 DEF Break
  <2>2. Agrees(Heard)' /\ StagesOK'
    BY <1>1, <1>2, <1>3, <1>5, <2>1 DEF Agrees, Holding, Resting, Within, StagesOK, Live
  <2> QED
    BY <1>1, <1>4, <2>1, <2>2, SilentOK
<1>6. CASE run.of # "empty"
  <2> DEFINE why == IF sawTool THEN "tool_use" ELSE "end_turn"
  <2>1. /\ stage' = "over"
        /\ out' = (IF open = "none" THEN <<>> ELSE <<Closes(index)>>) \o <<Concludes(why)>> \o Gone
    BY <1>6 DEF Break
  <2>2. PICK x : /\ Told(Heard, IF open = "none" THEN <<>> ELSE <<Closes(index)>>, x)
                 /\ Resting(x, NextIndex) /\ (Heard.tools => x.tools)
    <3>1. CASE open = "none"
      <4>1. Resting(Heard, NextIndex) /\ Heard \in ClientState
        BY <1>3, <3>1 DEF Holding, NextIndex, Resting
      <4> QED
        BY <3>1, <4>1, ToldNothing
    <3>2. CASE open # "none"
      <4>1. Within(Heard, open, index) /\ NextIndex = index + 1 /\ open \in Kind
        BY <1>2, <1>3, <3>2 DEF Holding, NextIndex, TextTypes
      <4> QED
        BY <3>2, <4>1, ClosesTold
    <3> QED
      BY <3>1, <3>2
  <2>3. PICK y : /\ Told(x, <<Concludes(why)>>, y) /\ y \in ClientState /\ y.phase = "concluded"
                 /\ y.block = "none" /\ y.reason = why
    <3>1. why \in EndReason /\ (why = "tool_use" => x.tools)
      BY <1>3, <2>2 DEF EndReason
    <3> HIDE DEF why
    <3> QED
      BY <2>2, <3>1, ConcludesTold
  <2> HIDE DEF why
  <2>4. PICK d : Told(y, Gone, d) /\ d.phase = "ended"
    BY <2>3, GoneTold
  <2>5. Told(Heard, (IF open = "none" THEN <<>> ELSE <<Closes(index)>>) \o <<Concludes(why)>>, y)
    BY <2>2, <2>3, ToldBoth
  <2>6. Told(Heard, out', d)
    BY <2>1, <2>4, <2>5, ToldBoth
  <2>7. Agrees(d)'
    BY <1>1, <2>1, <2>4 DEF Agrees, Live
  <2>8. StagesOK'
    BY <1>1, <2>1 DEF StagesOK, Live
  <2> QED
    BY <1>1, <1>4, <2>1, <2>6, <2>7, <2>8, TellingOK
<1> QED
  BY <1>5, <1>6

\* The closing events end with a block closed, and say how the answer went.
LEMMA CloseOK ==
    ASSUME StreamInv, Close
    PROVE  StreamInv'
<1> DEFINE shown == sawAny \/ sawTool \/ (open = "text" /\ held)
           apology == <<Opens("text", NextIndex), Fills("text", NextIndex), Closes(NextIndex)>>
           last == IF shown THEN <<>> ELSE apology
<1>1. /\ Quiet /\ stage = "closing" /\ stage' = "over"
      /\ out' = Closing \o last \o <<Concludes(StopReason), Said("message_stop")>>
      /\ sawAny' = (sawAny \/ (open = "text" /\ held))
      /\ UNCHANGED <<run, open, index, held, signed, sawTool, finish, fault>>
  BY DEF Close
<1>2. Agrees(Heard) /\ TextTypes /\ StagesOK
  BY <1>1, QuietKnown DEF StreamInv
<1>3. /\ Holding(Heard) /\ (sawTool => Heard.tools)
      /\ (sawAny \/ sawTool => open # "none") /\ (fault = "broken" => run.of = "empty")
  BY <1>1, <1>2 DEF Agrees, StagesOK, Live
<1>4. PICK x : Told(Heard, Closing, x) /\ Resting(x, NextIndex) /\ (Heard.tools => x.tools)
  BY <1>2, <1>3, ClosingTold
<1>5. PICK n, y : /\ n \in Nat /\ n > 0
                   /\ Told(x, last, y) /\ Resting(y, n) /\ (x.tools => y.tools)
  <2>1. CASE shown
    <3>1. NextIndex \in Nat /\ NextIndex > 0
      BY <1>2, <1>3, <2>1 DEF NextIndex, TextTypes
    <3>2. Told(x, <<>>, x)
      BY <1>4, ToldNothing DEF Resting
    <3> QED
      BY <1>4, <2>1, <3>1, <3>2
  <2>2. CASE ~shown
    <3>1. NextIndex \in Nat
      BY <1>2 DEF NextIndex, TextTypes
    <3>2. PICK z : Told(x, apology, z) /\ Resting(z, NextIndex + 1) /\ (x.tools => z.tools)
      BY <1>4, WholeBlockTold DEF Kind
    <3> HIDE DEF apology
    <3> QED
      BY <2>2, <3>1, <3>2
  <2> QED
    BY <2>1, <2>2
<1> HIDE DEF last, apology, shown
<1>6. StopReason \in EndReason /\ (StopReason = "tool_use" => sawTool /\ finish # "MAX_TOKENS")
  BY DEF StopReason, EndReason
<1>7. PICK d : /\ Told(y, <<Concludes(StopReason), Said("message_stop")>>, d)
               /\ d.phase = "stopped" /\ d.blocks = n /\ d.reason = StopReason
  BY <1>3, <1>4, <1>5, <1>6, GoodEndTold
<1>8. Told(Heard, out', d)
  <2>1. Told(Heard, Closing \o last, y)
    BY <1>4, <1>5, ToldBoth
  <2> QED
    BY <1>1, <1>7, <2>1, ToldBoth
<1>9. Agrees(d)'
  BY <1>1, <1>3, <1>5, <1>6, <1>7 DEF Agrees, Live
<1>10. TextTypes' /\ StagesOK'
  BY <1>1, <1>2 DEF TextTypes, StagesOK, Live
<1> QED
  BY <1>1, <1>8, <1>9, <1>10, TellingOK

\* What the engine does alone is not seen here.
LEMMA UnseenOK ==
    ASSUME StreamInv, UNCHANGED <<stage, run, text, fault, out, client>>
    PROVE  StreamInv'
<1>1. PICK d : Told(Heard, out, d) /\ Agrees(d)
  BY DEF StreamInv
<1>2. Heard' = Heard
  BY DEF client, Heard
<1>3. Told(Heard, out, d)' /\ Agrees(d)' /\ TextTypes' /\ StagesOK'
  BY <1>1, <1>2 DEF StreamInv, text, Agrees, Holding, TextTypes, StagesOK
<1> QED
  BY <1>3 DEF StreamInv

LEMMA StreamStepOK ==
    ASSUME StreamInv, [Next]_vars
    PROVE  StreamInv' /\ [Client!Next]_client
<1>1. CASE Deliver
  BY <1>1, DeliverOK
<1>2. CASE Cancel
  BY <1>2, CancelOK
<1>3. CASE Work \/ UNCHANGED vars
  BY <1>3, UnseenOK DEF Work, vars
<1>4. CASE Start \/ Reject \/ Transform \/ SearchOnly
  BY <1>4, BeforeOK DEF Start, Reject, Transform, SearchOnly, Quiet
<1>5. CASE AnswerFromSearch \/ Submit \/ Answered \/ Thrown
  BY <1>5, AnswerFromSearchOK, RequestOK, ThrownOK
     DEF AnswerFromSearch, Submit, Answered, Thrown, Quiet
<1>6. CASE Thought \/ ShowText \/ HideText \/ RecoverAction \/ CallTool
  BY <1>6, ThoughtOK, TextOK, RecoverActionOK, CallToolOK
     DEF Thought, ShowText, HideText, RecoverAction, CallTool, Chunk, Quiet
<1>7. CASE Finish \/ EndAnswer \/ Break \/ Again \/ Close
  BY <1>7, QuietAnswerOK, BreakOK, CloseOK DEF Finish, EndAnswer, Break, Again, Close, Chunk, Quiet
<1> QED
  BY <1>1, <1>2, <1>3, <1>4, <1>5, <1>6, <1>7 DEF Next, Progress, Answer

-----------------------------------------------------------------------------
(* The routes of the retries.                                              *)

\* Others, an element at a time.
Kept(k, m, x) ==
    IF x = m \/ \E j \in DOMAIN k : k[j] = x THEN k ELSE Append(k, x)

\* Elements of T other than m, each once.
Once(T, m) ==
    {k \in Seq(T) : /\ \A i \in DOMAIN k : k[i] # m
                    /\ \A i, j \in DOMAIN k : k[i] = k[j] => i = j}

LEMMA KeptOnce ==
    ASSUME NEW T, NEW m, NEW k \in Once(T, m), NEW x \in T
    PROVE  Kept(k, m, x) \in Once(T, m)
<1>1. CASE x = m \/ \E j \in DOMAIN k : k[j] = x
  BY <1>1 DEF Kept
<1>2. CASE ~(x = m \/ \E j \in DOMAIN k : k[j] = x)
  <2> DEFINE q == Append(k, x)
  <2>1. /\ k \in Seq(T) /\ Len(k) \in Nat /\ DOMAIN k = 1 .. Len(k)
        /\ q \in Seq(T) /\ DOMAIN q = 1 .. Len(k) + 1 /\ q[Len(k) + 1] = x
        /\ \A i \in 1 .. Len(k) : q[i] = k[i]
    BY DEF Once
  <2>2. Kept(k, m, x) = q
    BY <1>2 DEF Kept
  <2> HIDE DEF q
  <2>3. \A i \in DOMAIN q : i \in DOMAIN k \/ i = Len(k) + 1
    BY <2>1
  <2>4. \A i \in DOMAIN q : q[i] # m
    BY <1>2, <2>1, <2>3 DEF Once
  <2>5. \A i, j \in DOMAIN q : q[i] = q[j] => i = j
    BY <1>2, <2>1, <2>3 DEF Once
  <2> QED
    BY <2>1, <2>2, <2>4, <2>5 DEF Once
<1> QED
  BY <1>1, <1>2

\* What Others returns, for any sequence and any element.
LEMMA OthersOnce ==
    ASSUME NEW T, NEW s \in Seq(T), NEW m
    PROVE  Others(s, m) \in Once(T, m)
<1> DEFINE n == Len(s)
           Eqn(g, i) == g[i] = IF i = 0 THEN <<>> ELSE Kept(g[i - 1], m, s[i])
           Upto(k) == {g \in [0 .. k -> Once(T, m)] : \A i \in 0 .. k : Eqn(g, i)}
           fails == {k \in 0 .. n : Upto(k) = {}}
<1>1. n \in Nat /\ \A i \in 1 .. n : s[i] \in T
  OBVIOUS
<1>2. <<>> \in Once(T, m)
  BY DEF Once
<1>3. fails = {}
  <2> SUFFICES ASSUME fails # {} PROVE FALSE
    OBVIOUS
  <2>1. fails \in SUBSET Nat
    BY <1>1
  <2>2. PICK k \in fails : \A j \in fails : k <= j
    <3> HIDE DEF fails
    <3> QED
      BY <2>1, FirstOfSome
  <2>3. k \in 0 .. n /\ Upto(k) = {}
    OBVIOUS
  <2>4. k # 0
    <3> SUFFICES ASSUME k = 0 PROVE FALSE
      OBVIOUS
    <3> DEFINE g == [i \in 0 .. 0 |-> <<>>]
    <3>1. g \in [0 .. 0 -> Once(T, m)] /\ \A i \in 0 .. 0 : g[i] = <<>> /\ i = 0
      BY <1>2
    <3> HIDE DEF g
    <3>2. g \in Upto(0)
      BY <3>1
    <3> QED
      BY <2>3, <3>2
  <2>5. k - 1 \in 0 .. n /\ k - 1 < k
    BY <1>1, <2>3, <2>4
  <2>6. k - 1 \notin fails
    <3> HIDE DEF fails
    <3> QED
      BY <1>1, <2>2, <2>3, <2>5
  <2>7. PICK g : g \in Upto(k - 1)
    BY <2>5, <2>6
  <2> DEFINE e == Kept(g[k - 1], m, s[k])
             h == [i \in 0 .. k |-> IF i = k THEN e ELSE g[i]]
  <2>8. e \in Once(T, m)
    <3>1. g[k - 1] \in Once(T, m) /\ s[k] \in T
      BY <1>1, <2>3, <2>5, <2>7
    <3> QED
      BY <3>1, KeptOnce
  <2>9. h \in [0 .. k -> Once(T, m)]
    <3> HIDE DEF e
    <3>1. ASSUME NEW i \in 0 .. k, i # k PROVE g[i] \in Once(T, m)
      <4>1. i \in 0 .. k - 1
        BY <1>1, <2>3, <3>1
      <4> QED
        BY <2>7, <4>1
    <3> QED
      BY <2>8, <3>1
  <2>10. ASSUME NEW i \in 0 .. k PROVE Eqn(h, i)
    <3>1. CASE i = k
      <4>1. h[k] = e /\ h[k - 1] = g[k - 1]
        BY <1>1, <2>3, <2>5
      <4> QED
        BY <2>4, <3>1, <4>1
    <3>2. CASE i # k
      <4>1. i \in 0 .. k - 1 /\ h[i] = g[i] /\ (i # 0 => h[i - 1] = g[i - 1])
        BY <1>1, <2>3, <3>2
      <4>2. Eqn(g, i)
        BY <2>7, <4>1
      <4> QED
        BY <4>1, <4>2
    <3> QED
      BY <3>1, <3>2
  <2>11. h \in Upto(k)
    <3> HIDE DEF h, Eqn
    <3> QED
      BY <2>9, <2>10
  <2> QED
    BY <2>3, <2>11
<1> DEFINE Def(f) == [i \in 0 .. n |-> IF i = 0 THEN <<>>
                        ELSE IF s[i] = m \/ \E j \in DOMAIN f[i - 1] : f[i - 1][j] = s[i]
                               THEN f[i - 1] ELSE Append(f[i - 1], s[i])]
           kept == CHOOSE f : f = Def(f)
<1>4. Others(s, m) = kept[n]
  BY DEF Others
<1>5. \E f : f = Def(f)
  <2>1. n \in 0 .. n
    BY <1>1
  <2>2. PICK g : g \in Upto(n)
    BY <1>3, <2>1
  <2>3. \A i \in 0 .. n : g[i] = Def(g)[i]
    BY <2>2 DEF Kept
  <2>4. g = Def(g)
    <3>1. g \in [0 .. n -> Once(T, m)]
      BY <2>2
    <3> QED
      BY <2>3, <3>1
  <2> QED
    BY <2>4
<1>6. kept = Def(kept)
  <2> HIDE DEF Def
  <2> QED
    BY <1>5
<1>7. \A i \in 0 .. n : Eqn(kept, i)
  <2> HIDE DEF kept
  <2> QED
    BY <1>6 DEF Kept
<1> HIDE DEF kept
<1> DEFINE bad == {k \in 0 .. n : kept[k] \notin Once(T, m)}
<1>8. bad = {}
  <2> SUFFICES ASSUME bad # {} PROVE FALSE
    OBVIOUS
  <2>1. bad \in SUBSET Nat
    BY <1>1
  <2>2. PICK k \in bad : \A j \in bad : k <= j
    <3> HIDE DEF bad
    <3> QED
      BY <2>1, FirstOfSome
  <2>3. k \in 0 .. n /\ kept[k] \notin Once(T, m) /\ Eqn(kept, k)
    BY <1>7
  <2>4. k # 0
    BY <1>2, <2>3
  <2>5. k - 1 \in 0 .. n /\ k - 1 < k /\ s[k] \in T
    BY <1>1, <2>3, <2>4
  <2>6. k - 1 \notin bad
    <3> HIDE DEF bad
    <3> QED
      BY <1>1, <2>2, <2>3, <2>5
  <2>7. kept[k - 1] \in Once(T, m)
    BY <2>5, <2>6
  <2> QED
    BY <2>3, <2>4, <2>5, <2>7, KeptOnce
<1>9. n \in 0 .. n
  BY <1>1
<1> QED
  BY <1>4, <1>8, <1>9

RoutesDistinct == (\A r \in Routes : Distinct(r)) /\ Distinct(ForcedRoute)

\* What the engine is given, it may be given.
RequestInv ==
    /\ EngineInv
    /\ plan \in Routes /\ request \in Bodies
    /\ run.of = "empty" => run.n \in Nat \ {0}
    /\ RoutesDistinct => Distinct(route)
    /\ run.of # "empty" /\ at # "idle" => route = plan

\* The route of a retry is one, and names no model twice if the forced one does
\* not, whatever the route of the request.
LEMMA RetryRouteKnown ==
    ASSUME plan \in Routes, NEW n \in Nat \ {0}
    PROVE  /\ EmptyRetryRoute(n) \in Route
           /\ Distinct(ForcedRoute) => Distinct(EmptyRetryRoute(n))
<1>1. CASE Candidates = <<>>
  BY <1>1, StreamAssumption DEF EmptyRetryRoute
<1>2. CASE Candidates # <<>>
  <2> DEFINE c == Candidates
             i == Smaller(n, Len(c))
             rest == SubSeq(c, i + 1, Len(c))
             r == [primary |-> c[i], fallback |-> rest]
  <2>1. plan.fallback \in Seq(Models)
    BY StreamAssumption DEF Route
  <2>2. c \in Once(Models, plan.primary)
    BY <2>1, OthersOnce DEF Candidates
  <2>3. EmptyRetryRoute(n) = r
    BY <1>2 DEF EmptyRetryRoute
  <2> HIDE DEF c
  <2>4. c \in Seq(Models) /\ \A j, k \in DOMAIN c : c[j] = c[k] => j = k
    BY <2>2 DEF Once
  <2>5. Len(c) \in Nat \ {0} /\ DOMAIN c = 1 .. Len(c)
    BY <1>2, <2>4 DEF c
  <2>6. i \in 1 .. Len(c)
    BY <2>5 DEF Smaller
  <2> HIDE DEF i
  <2>7. rest \in Seq(Models) /\ Len(rest) = Len(c) - i /\ DOMAIN rest = 1 .. Len(c) - i
        /\ \A j \in 1 .. Len(c) - i : rest[j] = c[i + j]
    <3>1. i + 1 \in 1 .. Len(c) + 1 /\ Len(c) \in i .. Len(c)
      BY <2>5, <2>6
    <3>2. /\ rest \in Seq(Models)
          /\ Len(rest) = IF i + 1 <= Len(c) THEN Len(c) - (i + 1) + 1 ELSE 0
          /\ \A j \in 1 .. Len(c) - (i + 1) + 1 : rest[j] = c[(i + 1) + j - 1]
      BY <2>4, <2>5, <3>1, SubSeqProperties
    <3> HIDE DEF rest
    <3>3. Len(rest) = Len(c) - i
      <4>1. CASE i + 1 <= Len(c)
        <5>1. Len(rest) = Len(c) - (i + 1) + 1
          BY <3>2, <4>1
        <5> QED
          BY <2>5, <2>6, <5>1
      <4>2. CASE ~(i + 1 <= Len(c))
        <5>1. Len(rest) = 0
          BY <3>2, <4>2
        <5>2. \A k \in Nat : \A j \in 1 .. k : ~(j + 1 <= k) => j = k
          OBVIOUS
        <5>3. i = Len(c)
          BY <2>5, <2>6, <4>2, <5>2
        <5> QED
          BY <2>5, <5>1, <5>3
      <4> QED
        BY <4>1, <4>2
    <3>4. \A j \in 1 .. Len(c) - i : rest[j] = c[i + j]
      <4> SUFFICES ASSUME NEW j \in 1 .. Len(c) - i PROVE rest[j] = c[i + j]
        OBVIOUS
      <4>1. j \in 1 .. Len(c) - (i + 1) + 1 /\ (i + 1) + j - 1 = i + j
        BY <2>5, <2>6
      <4> QED
        BY <3>2, <4>1
    <3> QED
      BY <3>2, <3>3, <3>4
  <2> HIDE DEF rest
  <2>8. r \in Route
    <3>1. c[i] \in Models
      BY <2>4, <2>5, <2>6
    <3> QED
      BY <2>7, <3>1 DEF Route
  <2>9. Distinct(r)
    <3>1. \A j \in DOMAIN rest : i + j \in DOMAIN c /\ i + j # i /\ rest[j] = c[i + j]
      BY <2>5, <2>6, <2>7
    <3>2. \A j \in DOMAIN rest : rest[j] # c[i]
      BY <2>4, <2>5, <2>6, <3>1
    <3>3. \A j, k \in DOMAIN rest : rest[j] = rest[k] => j = k
      <4> SUFFICES ASSUME NEW j \in DOMAIN rest, NEW k \in DOMAIN rest, rest[j] = rest[k] PROVE j = k
        OBVIOUS
      <4>1. i + j = i + k
        BY <2>4, <3>1
      <4> QED
        BY <2>6, <2>7, <4>1
    <3> QED
      BY <3>2, <3>3 DEF Distinct
  <2> QED
    BY <2>3, <2>8, <2>9
<1> QED
  BY <1>1, <1>2

LEMMA RequestStartOK == Init => RequestInv
<1> SUFFICES ASSUME Init PROVE RequestInv
  OBVIOUS
<1>1. EngineInit /\ plan \in Routes /\ request \in Bodies /\ run.of = "first"
  BY DEF Init
<1>2. Distinct(route)
  BY <1>1 DEF EngineInit, NoRoute, Distinct
<1> QED
  BY <1>1, <1>2, EngineStartOK DEF RequestInv, EngineInit

LEMMA SubmitOK ==
    ASSUME RequestInv, Submit
    PROVE  RequestInv'
<1> DEFINE r == IF run.of = "empty" THEN EmptyRetryRoute(run.n) ELSE plan
<1>1. UNCHANGED <<plan, request, run>>
  BY DEF Submit
<1>2. PICK b : Begin(r, b) /\ b \in Compactions(request) \cup {request}
  BY DEF Submit
<1>3. request \in Body /\ Compactions(request) \subseteq Body
  BY RetryEngineAssumption, BodiesKnown DEF RequestInv
<1>4. r \in Route /\ (RoutesDistinct => Distinct(r))
  BY RetryRouteKnown, StreamAssumption DEF RequestInv, RoutesDistinct
<1>8. run.of # "empty" => r = plan
  OBVIOUS
<1> HIDE DEF r
<1>5. EngineInv'
  BY <1>2, <1>3, <1>4, BeginOK DEF RequestInv
<1>6. route' = r
  BY <1>2 DEF Begin
<1>7. (RoutesDistinct => Distinct(route))'
  BY <1>4, <1>6 DEF RoutesDistinct, Distinct
<1> QED
  BY <1>1, <1>5, <1>6, <1>7, <1>8 DEF RequestInv

\* The steps that leave the engine alone, but may order another call.
LEMMA OrdersOK ==
    ASSUME RequestInv, UNCHANGED <<engine, plan, request>>,
           run' = run \/ (run'.of = "empty" /\ run'.n \in Nat \ {0})
    PROVE  RequestInv'
<1>1. EngineInv'
  BY EngineStepOK DEF RequestInv
<1>2. (RoutesDistinct => Distinct(route))'
  BY DEF RequestInv, RoutesDistinct, Distinct, engine
<1> QED
  BY <1>1, <1>2 DEF RequestInv, engine

LEMMA RequestStepOK ==
    ASSUME RequestInv, [Next]_vars
    PROVE  RequestInv'
<1>1. CASE Submit
  BY <1>1, SubmitOK
<1>2. CASE Work
  <2>1. Execute /\ UNCHANGED <<plan, request, run>>
    BY <1>2 DEF Work
  <2>2. EngineInv'
    BY <2>1, EngineStepOK DEF RequestInv, EngineNext
  <2>3. route' = route /\ at # "idle"
    BY <2>1, ExecuteKnown DEF RequestInv, EngineInv
  <2> QED
    BY <2>1, <2>2, <2>3 DEF RequestInv, RoutesDistinct, Distinct
<1>3. CASE Thrown \/ Answered
  <2>1. Leave /\ UNCHANGED <<plan, request>> /\ (run'.of = "empty" => run' = run)
    BY <1>3 DEF Thrown, Answered, GoOn
  <2>2. EngineInv'
    BY <2>1, EngineStepOK DEF RequestInv, EngineNext
  <2>3. Distinct(route)' /\ at' = "idle"
    BY <2>1 DEF Leave, NoRoute, Distinct
  <2> QED
    BY <2>1, <2>2, <2>3 DEF RequestInv, RoutesDistinct
<1>4. CASE Again
  <2>1. UNCHANGED <<engine, plan, request>>
    BY <1>4 DEF Again
  <2>2. run' = run \/ (run'.of = "empty" /\ run'.n \in Nat \ {0})
    <3> DEFINE retries == IF run.of = "empty" THEN run.n ELSE 0
    <3>1. run' = [of |-> "empty", n |-> retries + 1] \/ run' = run
      BY <1>4 DEF Again
    <3>2. retries \in Nat
      BY DEF RequestInv
    <3> HIDE DEF retries
    <3>3. retries + 1 \in Nat \ {0}
      BY <3>2
    <3> QED
      BY <3>1, <3>3
  <2> QED
    BY <2>1, <2>2, OrdersOK
<1>5. CASE UNCHANGED <<engine, plan, request, run>>
  BY <1>5, OrdersOK
<1>6. CASE Deliver \/ Cancel \/ Start \/ Reject \/ Transform \/ AnswerFromSearch \/ SearchOnly
  BY <1>5, <1>6 DEF Deliver, Cancel, Start, Reject, Transform, AnswerFromSearch, SearchOnly
<1>7. CASE Thought \/ ShowText \/ HideText \/ RecoverAction \/ CallTool \/ Finish
  BY <1>5, <1>7 DEF Thought, ShowText, HideText, RecoverAction, CallTool, Finish, Chunk
<1>8. CASE EndAnswer \/ Break \/ Close \/ UNCHANGED vars
  BY <1>5, <1>8 DEF EndAnswer, Break, Close, vars
<1> QED
  BY <1>1, <1>2, <1>3, <1>4, <1>6, <1>7, <1>8 DEF Next, Progress, Answer

-----------------------------------------------------------------------------
(* The theorems.                                                           *)

\* There is always a way, event by event, from what the client has heard to what
\* transformStream takes it for.
THEOREM StreamInvariance == Spec => []StreamInv
BY StreamStartOK, StreamStepOK, PTL DEF Spec

\* The ways an answer may go.
FaultOK == fault \in {"none", "stalled", "broken"}

LEMMA FaultKnown == Spec => []FaultOK
<1>1. Init => FaultOK
  BY DEF Init, FaultOK
<1>2. FaultOK /\ [Next]_vars => FaultOK'
  <2> SUFFICES ASSUME FaultOK, [Next]_vars PROVE FaultOK'
    OBVIOUS
  <2>1. CASE Submit \/ Work \/ Thrown \/ Answered
    BY <2>1 DEF Submit, Work, Thrown, Answered, FaultOK
  <2>2. CASE Deliver \/ Cancel \/ Start \/ Reject \/ Transform \/ AnswerFromSearch \/ SearchOnly
    BY <2>2 DEF Deliver, Cancel, Start, Reject, Transform, AnswerFromSearch, SearchOnly, FaultOK
  <2>3. CASE Thought \/ ShowText \/ HideText \/ RecoverAction \/ CallTool \/ Finish
    BY <2>3 DEF Thought, ShowText, HideText, RecoverAction, CallTool, Finish, Chunk, FaultOK
  <2>4. CASE EndAnswer \/ Break \/ Again \/ Close \/ UNCHANGED vars
    BY <2>4 DEF EndAnswer, Break, Again, Close, vars, FaultOK
  <2> QED
    BY <2>1, <2>2, <2>3, <2>4 DEF Next, Progress, Answer
<1> QED
  BY <1>1, <1>2, PTL DEF Spec

\* transformStream, with the retry engine below it and cancellations from
\* outside, implements the protocol of its clients: whatever calls, failures,
\* retries and chunks come, and however many.
THEOREM ProtocolKept == Spec => KeepsToProtocol
<1>1. Init => Client!Init
  BY DEF Init
<1>2. StreamInv /\ [Next]_vars => [Client!Next]_Client!message
  BY StreamStepOK DEF client, Client!message
<1> QED
  BY <1>1, <1>2, StreamInvariance, PTL DEF Spec, Client!Spec, KeepsToProtocol

\* A message that ends well has a block and was read to its end, stalled, or broke
\* off in a retry of an empty answer; and one cut short for want of tokens does not say
\* that a tool was called, unless reading it failed.
THEOREM EndsTruly == Spec => []EndsAsItWent
<1>1. StreamInv /\ FaultOK => EndsAsItWent
  <2> SUFFICES ASSUME StreamInv, FaultOK PROVE EndsAsItWent
    OBVIOUS
  <2>1. PICK d : Told(Heard, out, d) /\ Agrees(d)
    BY DEF StreamInv
  <2> DEFINE h == Heard
  <2>2. h \in ClientState /\ h.reason \in {"none", d.reason}
    BY <2>1, ToldKnown
  <2>3. h.phase = phase /\ h.blocks = blocks /\ h.reason = reason
    BY DEF Heard
  <2> HIDE DEF h
  <2>4. reason = "tool_use" /\ finish = "MAX_TOKENS" => fault = "broken"
    BY <2>1, <2>2, <2>3 DEF Agrees
  <2>5. ASSUME Over
        PROVE  /\ (phase = "failed") <=> (stage = "rejected")
               /\ phase = "stopped" => blocks > 0 /\ (fault = "broken" => run.of = "empty")
    <3>1. d = h
      BY <2>1, <2>2, <2>5, ToldNothing DEF Over, h
    <3> QED
      BY <2>1, <2>3, <2>5, <3>1 DEF Agrees, Over
  <2> QED
    BY <2>4, <2>5 DEF EndsAsItWent, FaultOK, ReadToItsEnd
<1> QED
  BY <1>1, StreamInvariance, FaultKnown, PTL

\* However a message goes, every request the engine gets has a route and a body.
THEOREM RequestInvariance == Spec => []RequestInv
BY RequestStartOK, RequestStepOK, PTL DEF Spec

\* No request of a message, its retries included, makes more calls than its
\* retries and the one that is free.
THEOREM MessageWithinBudget == Spec => []CallsWithinBudget
<1>1. RequestInv => CallsWithinBudget
  BY PaidWithinBudget DEF RequestInv
<1> QED
  BY <1>1, RequestInvariance, PTL

\* No call of a message takes signatures or thinking away from the primary of its
\* plan, compacted requests and extra rounds included, but where models race or an
\* empty answer is asked for again; and none parts the two.
THEOREM MessageKeepsThought == Spec => []ThoughtStaysWithPrimary
<1>1. RequestInv => ThoughtStaysWithPrimary
  <2> SUFFICES ASSUME RequestInv PROVE ThoughtStaysWithPrimary
    OBVIOUS
  <2>1. ThinkingKeepsSignatures /\ (run.of # "empty" /\ at # "idle" => route = plan)
    BY DEF RequestInv, EngineInv
  <2> SUFFICES ASSUME CarriesThought, ~(Asked \subseteq {plan.primary}), at # "raced"
               PROVE  run.of = "empty" /\ Asked = {route.primary}
    BY <2>1 DEF ThoughtStaysWithPrimary
  <2>2. at = "calling" /\ Asked = {model}
    BY DEF Asked
  <2>3. Asked = {route.primary}
    BY <2>1, <2>2 DEF ThinkingKeepsSignatures
  <2>4. route # plan
    BY <2>3
  <2> QED
    BY <2>1, <2>2, <2>3, <2>4
<1> QED
  BY <1>1, RequestInvariance, PTL

\* Where no configured route names a model twice, neither does one made up for a
\* retry, and no request of a message returns to a model it found overloaded.
THEOREM MessageChangesToUntried ==
    ASSUME RoutesDistinct
    PROVE  Spec => ChangesToUntried
<1>1. ASSUME RequestInv, [Next]_vars
      PROVE  [model' # model /\ at = "calling" /\ ~glitched => model' \notin overloaded]_engine
  <2>1. CASE Execute
    BY <1>1, <2>1, ExecuteToUntried DEF RequestInv
  <2>2. CASE at # "calling" \/ UNCHANGED engine
    BY <2>2
  <2>3. CASE Submit \/ Thrown \/ Answered
    BY <2>2, <2>3 DEF Submit, Thrown, Answered, Begin, Leave, Outcomes
  <2>4. CASE Work
    BY <2>1, <2>4 DEF Work
  <2>5. CASE Deliver \/ Cancel \/ Start \/ Reject \/ Transform \/ AnswerFromSearch \/ SearchOnly
    BY <2>2, <2>5 DEF Deliver, Cancel, Start, Reject, Transform, AnswerFromSearch, SearchOnly
  <2>6. CASE Thought \/ ShowText \/ HideText \/ RecoverAction \/ CallTool \/ Finish
    BY <2>2, <2>6 DEF Thought, ShowText, HideText, RecoverAction, CallTool, Finish, Chunk
  <2>7. CASE EndAnswer \/ Break \/ Again \/ Close \/ UNCHANGED vars
    BY <2>2, <2>7 DEF EndAnswer, Break, Again, Close, vars
  <2> QED
    BY <1>1, <2>3, <2>4, <2>5, <2>6, <2>7 DEF Next, Progress, Answer
<1> QED
  BY <1>1, RequestInvariance, PTL DEF Spec, ChangesToUntried
=============================================================================
