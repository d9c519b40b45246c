-------------------------- MODULE Conversation_proofs --------------------------
(***************************************************************************)
(* Proofs about what a request does with its conversation: the limits it   *)
(* sets (GenerationConfig), for any models, what it tells the model of its *)
(* conduct (Guidance), for any steps, windows and order of saves, and what *)
(* of its history it sends (History), for any number of turns and any      *)
(* numbers of messages kept.                                               *)
(*                                                                         *)
(* Guidance rests on SaveOK: a save that missed no turn holds what the     *)
(* turns it has seen say of the file and of the server.  History rests on  *)
(* Kept, which joining (JoinKeeps), cutting (CutKeeps), compacting         *)
(* (CompactKeeps) and the client (HistoryGrows) preserve.                  *)
(***************************************************************************)
EXTENDS GenerationConfig, Guidance, History,
        SequenceTheorems, WellFoundedInduction, FiniteSetTheorems, TLAPS

-----------------------------------------------------------------------------
(* Functions defined by recursion on a number.                             *)

\* Some places have a first one.
LEMMA FirstOfSome ==
    ASSUME NEW S \in SUBSET Nat, S # {}
    PROVE  \E i \in S : \A j \in S : i <= j
<1>1. PICK i \in S : \A j \in S : ~(<<j, i>> \in OpToRel(<, Nat))
  BY NatLessThanWellFounded, WFMin
<1>2. \A j \in S : ~(j < i)
  BY <1>1 DEF OpToRel
<1> QED
  BY <1>2

\* Induction up to a number, on the set of those a fact holds of.
LEMMA UpTo ==
    ASSUME NEW n \in Nat, NEW T \in SUBSET (0 .. n), 0 \in T, \A i \in 1 .. n : i - 1 \in T => i \in T
    PROVE  T = 0 .. n
<1> DEFINE bad == {k \in 0 .. n : k \notin T}
<1>1. bad = {}
  <2> SUFFICES ASSUME bad # {} PROVE FALSE
    OBVIOUS
  <2>1. bad \in SUBSET Nat
    OBVIOUS
  <2>2. PICK k \in bad : \A j \in bad : k <= j
    <3> HIDE DEF bad
    <3> QED
      BY <2>1, FirstOfSome
  <2>3. k \in 1 .. n /\ k \notin T
    OBVIOUS
  <2>4. k - 1 \in T
    BY <2>2, <2>3
  <2> QED
    BY <2>3, <2>4
<1> QED
  BY <1>1

\* n steps, and what they give, from x, when each is made from what the one before
\* has given.
Series(n, X) == [1 .. n -> [X -> X]]

Made(n, X, x, f) == {g \in [0 .. n -> X] : g[0] = x /\ \A i \in 1 .. n : g[i] = f[i][g[i - 1]]}

\* Steps can be made in turn.
LEMMA Iterates ==
    ASSUME NEW n \in Nat, NEW X, NEW x \in X, NEW f \in Series(n, X)
    PROVE  Made(n, X, x, f) # {}
<1> DEFINE Upto(k) == \E g \in [0 .. k -> X] : g[0] = x /\ \A i \in 1 .. k : g[i] = f[i][g[i - 1]]
           T == {k \in 0 .. n : Upto(k)}
<1>1. 0 \in T
  <2> DEFINE g == [i \in 0 .. 0 |-> x]
  <2>1. g \in [0 .. 0 -> X] /\ g[0] = x /\ \A i \in 1 .. 0 : FALSE
    OBVIOUS
  <2>2. Upto(0)
    <3> HIDE DEF g
    <3> QED
      BY <2>1
  <2> QED
    BY <2>2
<1>2. ASSUME NEW k \in 1 .. n, k - 1 \in T PROVE k \in T
  <2>1. PICK g \in [0 .. k - 1 -> X] : g[0] = x /\ \A i \in 1 .. k - 1 : g[i] = f[i][g[i - 1]]
    BY <1>2
  <2>2. PICK e : e = f[k][g[k - 1]]
    OBVIOUS
  <2> DEFINE h == [i \in 0 .. k |-> IF i = k THEN e ELSE g[i]]
  <2>3. e \in X
    <3>1. g[k - 1] \in X
      BY <2>1
    <3>2. f[k] \in [X -> X]
      BY DEF Series
    <3> QED
      BY <2>2, <3>1, <3>2
  <2>4. \A i \in 0 .. k : i = k \/ i \in 0 .. k - 1
    OBVIOUS
  <2>5. h \in [0 .. k -> X]
    BY <2>1, <2>3, <2>4
  <2>6. /\ h[0] = g[0] /\ h[k] = e /\ h[k - 1] = g[k - 1]
        /\ \A i \in 1 .. k - 1 : h[i] = g[i] /\ h[i - 1] = g[i - 1]
    OBVIOUS
  <2> HIDE DEF h
  <2>7. ASSUME NEW i \in 1 .. k PROVE h[i] = f[i][h[i - 1]]
    <3>1. CASE i = k
      BY <2>2, <2>6, <3>1
    <3>2. CASE i # k
      <4>1. i \in 1 .. k - 1
        BY <3>2
      <4> QED
        BY <2>1, <2>6, <4>1
    <3> QED
      BY <3>1, <3>2
  <2>8. Upto(k)
    BY <2>1, <2>5, <2>6, <2>7
  <2> HIDE DEF Upto
  <2> QED
    BY <2>8
<1>3. T = 0 .. n
  <2> HIDE DEF T
  <2>1. T \in SUBSET (0 .. n)
    BY DEF T
  <2> QED
    BY <1>1, <1>2, <2>1, UpTo
<1>4. Upto(n)
  <2>1. n \in T
    <3> HIDE DEF T
    <3> QED
      BY <1>3
  <2> HIDE DEF Upto
  <2> QED
    BY <2>1
<1> QED
  BY <1>4 DEF Made

-----------------------------------------------------------------------------
(* The limits of a request.                                                *)

Asking == [model : Models, maxTokens : AskedTokens, budget : AskedBudgets]

\* What was set is what the request asks for.
ConfigInv ==
    config # None =>
        /\ asked \in Asking
        /\ config.thinkingBudget = thinkingBudget(asked)

\* The limit is a number of tokens the model can write.
LEMMA LimitOfModel ==
    ASSUME NEW r \in Asking
    PROVE  /\ maxTotal(r) \in Int /\ maxTotal(r) > 0
           /\ maxTotal(r) <= Ceiling[r.model] /\ Ceiling[r.model] \in Nat
<1>1. Ceiling[r.model] \in Nat \ {0} /\ r.maxTokens \in Int \cup {None} /\ None \notin Int
  BY ConfigAssumption DEF Asking
<1>2. CASE r.maxTokens = None
  BY <1>1, <1>2 DEF maxTotal, maxOutputTokens, AtMost, DEFAULT_MAX_OUTPUT
<1>3. CASE r.maxTokens # None /\ r.maxTokens > 0
  BY <1>1, <1>3 DEF maxTotal, maxOutputTokens, AtMost
<1>4. CASE r.maxTokens # None /\ ~ (r.maxTokens > 0)
  <2>1. maxOutputTokens(r) = None
    BY <1>4 DEF maxOutputTokens
  <2> QED
    BY <1>1, <2>1 DEF maxTotal
<1> QED
  BY <1>2, <1>3, <1>4

\* A budget that was asked for, and is a number, leaves room for a token of text.
LEMMA AskedLeavesRoom ==
    ASSUME NEW r \in Asking, r.budget # None
    PROVE  AskedBudget(r) \in Int /\ (AskedBudget(r) = DYNAMIC \/ AskedBudget(r) < maxTotal(r))
<1>1. maxTotal(r) \in Int /\ maxTotal(r) > 0
  BY LimitOfModel
<1>2. r.budget \in Int \cup {Invalid}
  BY ConfigAssumption DEF Asking
<1> QED
  BY <1>1, <1>2 DEF AskedBudget, AtMost, AtLeast0, TEXT_RESERVE, GEMINI_MAX_THINKING_BUDGET, DYNAMIC

\* For any models with any ceilings: a budget for thinking leaves tokens for the
\* answer, but for the default one.
THEOREM BudgetsFit == CSpec => []ThinkingFits
<1>1. CInit => ConfigInv
  BY DEF CInit, ConfigInv
<1>2. ConfigInv /\ [Configure]_cvars => ConfigInv'
  <2> SUFFICES ASSUME ConfigInv, [Configure]_cvars PROVE ConfigInv'
    OBVIOUS
  <2>1. CASE Configure
    BY <2>1 DEF Configure, ConfigInv, Asking
  <2>2. CASE UNCHANGED cvars
    BY <2>2 DEF cvars, ConfigInv
  <2> QED
    BY <2>1, <2>2
<1>3. ConfigInv => ThinkingFits
  <2> SUFFICES ASSUME ConfigInv, config # None PROVE ThinkingFits
    BY DEF ThinkingFits
  <2>1. asked \in Asking /\ config.thinkingBudget = thinkingBudget(asked)
    BY DEF ConfigInv
  <2>2. maxTotal(asked) \in Int /\ maxTotal(asked) <= Ceiling[asked.model]
    BY <2>1, LimitOfModel
  <2>3. ASSUME thinkingBudget(asked) \notin {None, DYNAMIC}, thinkingBudget(asked) >= maxTotal(asked)
        PROVE  asked.budget = None /\ maxTotal(asked) <= DEFAULT_THINKING_BUDGET
    <3>1. Thinks[asked.model] = "budget"
      BY <2>3 DEF thinkingBudget
    <3>2. CASE asked.budget # None
      <4>1. thinkingBudget(asked) = AskedBudget(asked)
        BY <3>1, <3>2 DEF thinkingBudget
      <4> QED
        BY <2>1, <2>2, <2>3, <3>2, <4>1, AskedLeavesRoom
    <3>3. CASE asked.budget = None
      <4>1. thinkingBudget(asked) = DEFAULT_THINKING_BUDGET
        BY <3>1, <3>3 DEF thinkingBudget
      <4> QED
        BY <2>2, <2>3, <3>3, <4>1 DEF DEFAULT_THINKING_BUDGET
    <3> QED
      BY <3>2, <3>3
  <2> QED
    BY <2>1, <2>2, <2>3 DEF ThinkingFits
<1> QED
  BY <1>1, <1>2, <1>3, PTL DEF CSpec

-----------------------------------------------------------------------------
(* What a request tells the model of its conversation.                     *)

LogTurn == [tool : Tools, res : Outcomes] \cup {Claim, Clear}

LEMMA StepsAreTurns == Steps \subseteq LogTurn
BY GuidanceAssumption DEF LogTurn

\* The last n turns, counted from their end.
LEMMA LastOfThem ==
    ASSUME NEW h \in Seq(LogTurn), NEW n \in Nat \ {0}
    PROVE  LET m == Len(LastTurns(h, n))
           IN  /\ LastTurns(h, n) \in Seq(LogTurn)
               /\ m = IF Len(h) > n THEN n ELSE Len(h)
               /\ \A i \in 1 .. m : LastTurns(h, n)[i] = h[Len(h) - m + i]
<1>1. CASE Len(h) > n
  <2>1. LastTurns(h, n) = SubSeq(h, Len(h) - n + 1, Len(h))
    BY <1>1 DEF LastTurns
  <2>2. Len(h) - n + 1 \in 1 .. Len(h) + 1 /\ Len(h) \in 0 .. Len(h)
    BY <1>1
  <2>3. /\ LastTurns(h, n) \in Seq(LogTurn) /\ Len(LastTurns(h, n)) = n
        /\ \A i \in 1 .. n : LastTurns(h, n)[i] = h[Len(h) - n + i]
    BY <1>1, <2>1, <2>2, SubSeqProperties
  <2> QED
    BY <1>1, <2>3
<1>2. CASE ~(Len(h) > n)
  <2>1. LastTurns(h, n) = h
    BY <1>2 DEF LastTurns
  <2> QED
    BY <1>2, <2>1
<1> QED
  BY <1>1, <1>2

\* The calls of a conversation come one by one.
LEMMA CallsInTurn ==
    ASSUME NEW h \in Seq(LogTurn)
    PROVE  \E g \in [0 .. Len(h) -> Seq(LogTurn)] :
             /\ CallsOf(h) = g[Len(h)] /\ g[0] = <<>>
             /\ \A i \in 1 .. Len(h) : g[i] = IF h[i].tool = "none" THEN g[i - 1] ELSE Append(g[i - 1], h[i])
<1> DEFINE n == Len(h)
           X == Seq(LogTurn)
           f == [i \in 1 .. n |-> [x \in X |-> IF h[i].tool = "none" THEN x ELSE Append(x, h[i])]]
           Def(g) == [i \in 0 .. n |-> IF i = 0 THEN <<>>
                        ELSE IF h[i].tool = "none" THEN g[i - 1] ELSE Append(g[i - 1], h[i])]
           calls == CHOOSE g : g = Def(g)
<1>1. n \in Nat
  OBVIOUS
<1>2. CallsOf(h) = calls[n]
  BY DEF CallsOf
<1>3. \E g : g = Def(g)
  <2>1. <<>> \in X /\ f \in Series(n, X)
    <3>1. ASSUME NEW i \in 1 .. n, NEW x \in X PROVE Append(x, h[i]) \in X
      BY AppendProperties
    <3> QED
      BY <3>1 DEF Series
  <2>2. PICK g \in [0 .. n -> X] : g[0] = <<>> /\ \A i \in 1 .. n : g[i] = f[i][g[i - 1]]
    <3> HIDE DEF f, n, X
    <3>1. Made(n, X, <<>>, f) # {}
      BY <1>1, <2>1, Iterates
    <3> QED
      BY <3>1 DEF Made
  <2>3. ASSUME NEW i \in 1 .. n
        PROVE  g[i] = IF h[i].tool = "none" THEN g[i - 1] ELSE Append(g[i - 1], h[i])
    <3>1. g[i - 1] \in X /\ g[i] = f[i][g[i - 1]]
      <4> HIDE DEF f, X, n
      <4>1. i - 1 \in 0 .. n
        BY <1>1
      <4> QED
        BY <2>2, <4>1
    <3>2. f[i] = [x \in X |-> IF h[i].tool = "none" THEN x ELSE Append(x, h[i])]
      OBVIOUS
    <3> HIDE DEF f, X
    <3> QED
      BY <3>1, <3>2
  <2>4. g = Def(g)
    <3>1. \A i \in 0 .. n : i = 0 \/ i \in 1 .. n
      BY <1>1
    <3>2. \A i \in 0 .. n : g[i] = Def(g)[i]
      BY <2>2, <2>3, <3>1
    <3>3. DOMAIN g = 0 .. n /\ g = [i \in DOMAIN g |-> g[i]]
      BY <2>2
    <3> QED
      BY <3>2, <3>3
  <2> QED
    BY <2>4
<1>4. calls = Def(calls)
  <2> HIDE DEF Def
  <2> QED
    BY <1>3
<1> HIDE DEF calls
<1>5. /\ calls[0] = <<>>
      /\ \A i \in 1 .. n : calls[i] = IF h[i].tool = "none" THEN calls[i - 1] ELSE Append(calls[i - 1], h[i])
  <2>1. \A i \in 0 .. n : calls[i] = Def(calls)[i]
    <3> HIDE DEF Def
    <3> QED
      BY <1>4
  <2>2. 0 \in 0 .. n /\ \A i \in 1 .. n : i \in 0 .. n /\ i # 0
    BY <1>1
  <2> HIDE DEF n
  <2> QED
    BY <2>1, <2>2
<1>6. \A i \in 0 .. n : calls[i] \in X
  <2> DEFINE T == {i \in 0 .. n : calls[i] \in X}
  <2>1. 0 \in T
    <3>1. <<>> \in X /\ 0 \in 0 .. n
      BY <1>1
    <3> HIDE DEF X, n
    <3> QED
      BY <1>5, <3>1
  <2>2. ASSUME NEW i \in 1 .. n, i - 1 \in T PROVE i \in T
    <3>1. PICK x, y, t : x = calls[i - 1] /\ y = calls[i] /\ t = h[i]
      OBVIOUS
    <3>2. x \in X /\ t \in LogTurn /\ i \in 0 .. n
      BY <2>2, <3>1
    <3>3. y = IF t.tool = "none" THEN x ELSE Append(x, t)
      <4> HIDE DEF n
      <4> QED
        BY <1>5, <3>1
    <3>4. y \in X
      BY <3>2, <3>3, AppendProperties
    <3> QED
      BY <3>1, <3>2, <3>4
  <2>3. T = 0 .. n
    <3> HIDE DEF T
    <3>1. T \in SUBSET (0 .. n)
      BY DEF T
    <3> QED
      BY <1>1, <2>1, <2>2, <3>1, UpTo
  <2> QED
    BY <2>3
<1>7. calls \in [0 .. n -> X]
  <2>1. DOMAIN calls = 0 .. n /\ calls = [i \in DOMAIN calls |-> calls[i]]
    <3>1. calls = Def(calls) /\ DOMAIN Def(calls) = 0 .. n
      BY <1>4
    <3>2. Def(calls) = [i \in DOMAIN Def(calls) |-> Def(calls)[i]]
      OBVIOUS
    <3> HIDE DEF Def
    <3> QED
      BY <3>1, <3>2
  <2> QED
    BY <1>6, <2>1
<1> QED
  BY <1>2, <1>5, <1>7

\* The last turns of a conversation, if they are calls, are its last calls.
LEMMA LastCalls ==
    ASSUME NEW h \in Seq(LogTurn), NEW k \in 1 .. 3, Len(h) >= k,
           \A i \in Len(h) - k + 1 .. Len(h) : h[i].tool # "none"
    PROVE  /\ CallsOf(h) \in Seq(LogTurn) /\ Len(CallsOf(h)) >= k
           /\ \A j \in 0 .. k - 1 : CallsOf(h)[Len(CallsOf(h)) - j] = h[Len(h) - j]
<1> DEFINE n == Len(h)
<1>1. PICK g \in [0 .. n -> Seq(LogTurn)] :
        /\ CallsOf(h) = g[n] /\ g[0] = <<>>
        /\ \A i \in 1 .. n : g[i] = IF h[i].tool = "none" THEN g[i - 1] ELSE Append(g[i - 1], h[i])
  BY CallsInTurn
<1>2. ASSUME NEW i \in 1 .. n, h[i].tool # "none"
      PROVE  /\ g[i - 1] \in Seq(LogTurn) /\ g[i] \in Seq(LogTurn) /\ Len(g[i]) = Len(g[i - 1]) + 1
             /\ g[i][Len(g[i])] = h[i] /\ \A j \in 1 .. Len(g[i - 1]) : g[i][j] = g[i - 1][j]
  <2>1. g[i - 1] \in Seq(LogTurn) /\ h[i] \in LogTurn /\ g[i] = Append(g[i - 1], h[i])
    <3>1. i - 1 \in 0 .. n /\ h[i] \in LogTurn
      BY <1>2
    <3> HIDE DEF n
    <3> QED
      BY <1>1, <1>2, <3>1
  <2> QED
    BY <2>1, AppendProperties
<1>3. n \in 1 .. n /\ h[n].tool # "none"
  OBVIOUS
<1>4. k > 1 => n - 1 \in 1 .. n /\ h[n - 1].tool # "none"
  OBVIOUS
<1>5. k > 2 => n - 2 \in 1 .. n /\ h[n - 2].tool # "none"
  OBVIOUS
<1>6. n - 1 - 1 = n - 2 /\ n - 2 - 1 = n - 3
  OBVIOUS
<1> HIDE DEF n
<1>7. /\ g[n] \in Seq(LogTurn) /\ g[n - 1] \in Seq(LogTurn) /\ Len(g[n]) = Len(g[n - 1]) + 1
      /\ g[n][Len(g[n])] = h[n] /\ \A j \in 1 .. Len(g[n - 1]) : g[n][j] = g[n - 1][j]
  BY <1>2, <1>3
<1>8. k > 1 => /\ g[n - 2] \in Seq(LogTurn) /\ Len(g[n - 1]) = Len(g[n - 2]) + 1
               /\ g[n - 1][Len(g[n - 1])] = h[n - 1]
               /\ \A j \in 1 .. Len(g[n - 2]) : g[n - 1][j] = g[n - 2][j]
  <2> SUFFICES ASSUME k > 1
               PROVE  /\ g[n - 2] \in Seq(LogTurn) /\ Len(g[n - 1]) = Len(g[n - 2]) + 1
                      /\ g[n - 1][Len(g[n - 1])] = h[n - 1]
                      /\ \A j \in 1 .. Len(g[n - 2]) : g[n - 1][j] = g[n - 2][j]
    OBVIOUS
  <2>1. PICK i : i = n - 1
    OBVIOUS
  <2>2. i \in 1 .. n /\ h[i].tool # "none" /\ i - 1 = n - 2
    BY <1>4, <1>6, <2>1
  <2>3. /\ g[i - 1] \in Seq(LogTurn) /\ Len(g[i]) = Len(g[i - 1]) + 1
        /\ g[i][Len(g[i])] = h[i] /\ \A j \in 1 .. Len(g[i - 1]) : g[i][j] = g[i - 1][j]
    BY <1>2, <2>2
  <2> QED
    BY ONLY <2>1, <2>2, <2>3
<1>9. k > 2 => /\ g[n - 3] \in Seq(LogTurn) /\ Len(g[n - 2]) = Len(g[n - 3]) + 1
               /\ g[n - 2][Len(g[n - 2])] = h[n - 2]
  BY <1>2, <1>5, <1>6
<1>10. PICK c, c1, c2, c3 : c = g[n] /\ c1 = g[n - 1] /\ c2 = g[n - 2] /\ c3 = g[n - 3]
  OBVIOUS
<1>11. /\ Len(c) \in Nat /\ Len(c1) \in Nat /\ Len(c) = Len(c1) + 1 /\ c[Len(c)] = h[n]
       /\ \A j \in 1 .. Len(c1) : c[j] = c1[j]
  <2>1. c \in Seq(LogTurn) /\ c1 \in Seq(LogTurn)
    BY <1>7, <1>10
  <2>2. /\ Len(c) = Len(c1) + 1 /\ c[Len(c)] = h[n]
        /\ \A j \in 1 .. Len(c1) : c[j] = c1[j]
    BY ONLY <1>7, <1>10
  <2> QED
    BY <2>1, <2>2
<1>12. k > 1 => Len(c2) \in Nat /\ Len(c1) = Len(c2) + 1 /\ c[Len(c) - 1] = h[n - 1]
  <2> SUFFICES ASSUME k > 1 PROVE Len(c2) \in Nat /\ Len(c1) = Len(c2) + 1 /\ c[Len(c) - 1] = h[n - 1]
    OBVIOUS
  <2>1. c2 \in Seq(LogTurn) /\ Len(c1) = Len(c2) + 1 /\ c1[Len(c1)] = h[n - 1]
    BY ONLY <1>8, <1>10, k > 1
  <2>2. Len(c2) \in Nat
    BY <2>1
  <2>3. Len(c1) = Len(c) - 1 /\ Len(c1) \in 1 .. Len(c1)
    BY <1>11, <2>1, <2>2
  <2> QED
    BY <1>11, <2>1, <2>2, <2>3
<1>13. k > 2 => Len(c3) \in Nat /\ Len(c2) = Len(c3) + 1 /\ c[Len(c) - 2] = h[n - 2]
  <2> SUFFICES ASSUME k > 2 PROVE Len(c3) \in Nat /\ Len(c2) = Len(c3) + 1 /\ c[Len(c) - 2] = h[n - 2]
    OBVIOUS
  <2>1. Len(c3) \in Nat /\ Len(c2) = Len(c3) + 1 /\ c2[Len(c2)] = h[n - 2]
    BY <1>9, <1>10
  <2>2. k > 1
    OBVIOUS
  <2>3. Len(c2) \in 1 .. Len(c2) /\ Len(c1) = Len(c2) + 1 /\ \A j \in 1 .. Len(c2) : c1[j] = c2[j]
    BY <1>8, <1>10, <2>1, <2>2
  <2>4. Len(c2) = Len(c) - 2 /\ Len(c2) \in 1 .. Len(c1)
    BY <1>11, <2>1, <2>3
  <2> QED
    BY <1>11, <2>1, <2>3, <2>4
<1>14. Len(c) >= k
  BY <1>11, <1>12, <1>13
<1>15. \A j \in 0 .. k - 1 : c[Len(c) - j] = h[n - j]
  <2>1. \A j \in 0 .. k - 1 : j = 0 \/ (j = 1 /\ k > 1) \/ (j = 2 /\ k > 2)
    OBVIOUS
  <2>2. Len(c) - 0 = Len(c) /\ n - 0 = n
    BY <1>11 DEF n
  <2> QED
    BY <1>11, <1>12, <1>13, <2>1, <2>2
<1> QED
  BY <1>1, <1>7, <1>10, <1>14, <1>15 DEF n

\* A call right before a claim is one of the calls.
LEMMA CallBeforeClaim ==
    ASSUME NEW h \in Seq(LogTurn), Len(h) > 1, h[Len(h)] = Claim, h[Len(h) - 1].tool # "none"
    PROVE  h[Len(h) - 1] \in ToSet(CallsOf(h))
<1> DEFINE n == Len(h)
<1>1. PICK g \in [0 .. n -> Seq(LogTurn)] :
        /\ CallsOf(h) = g[n] /\ g[0] = <<>>
        /\ \A i \in 1 .. n : g[i] = IF h[i].tool = "none" THEN g[i - 1] ELSE Append(g[i - 1], h[i])
  BY CallsInTurn
<1>2. n \in 1 .. n /\ n - 1 \in 1 .. n /\ n - 2 \in 0 .. n /\ n - 1 - 1 = n - 2
  OBVIOUS
<1>3. g[n] = g[n - 1] /\ g[n - 1] = Append(g[n - 2], h[n - 1]) /\ g[n - 2] \in Seq(LogTurn) /\ h[n - 1] \in LogTurn
  <2> HIDE DEF n
  <2>1. h[n].tool = "none" /\ h[n - 1].tool # "none" /\ h[n - 1] \in LogTurn
    BY <1>2 DEF n, Claim
  <2> QED
    BY <1>1, <1>2, <2>1
<1> HIDE DEF n
<1>4. PICK c, t : c = g[n - 2] /\ t = h[n - 1] /\ CallsOf(h) = Append(c, t)
  BY <1>1, <1>3
<1>5. /\ Append(c, t) \in Seq(LogTurn) /\ Len(Append(c, t)) \in 1 .. Len(Append(c, t))
      /\ Append(c, t)[Len(Append(c, t))] = t
  BY <1>3, <1>4, AppendProperties
<1>6. t \in ToSet(Append(c, t))
  BY <1>5 DEF ToSet
<1> QED
  BY <1>4, <1>6 DEF n

\* Only calls fail.
LEMMA FailedIsCall == \A t \in LogTurn : Failed(t) => t.tool \in Tools /\ t.tool # "none"
BY DEF LogTurn, Failed, Claim, Clear, Tools, Flagged

\* Turns that failed alike, at the end of the conversation, are a run of its calls.
LEMMA RunAtEnd ==
    ASSUME NEW h \in Seq(LogTurn), NEW k \in {2, 3}, AuditTurns >= k, Len(h) >= k,
           \A i \in Len(h) - k + 1 .. Len(h) : Failed(h[i]) /\ h[i].tool = h[Len(h)].tool
    PROVE  LET cs == Audited(h)
           IN  Run(cs, k) /\ cs[Len(cs)] = h[Len(h)] /\ cs[Len(cs) - 1] = h[Len(h) - 1]
<1> DEFINE a == LastTurns(h, AuditTurns)
           cs == Audited(h)
           m == Len(cs)
<1>1. AuditTurns \in Nat \ {0}
  BY GuidanceAssumption
<1>2. /\ a \in Seq(LogTurn) /\ Len(a) = IF Len(h) > AuditTurns THEN AuditTurns ELSE Len(h)
      /\ \A i \in 1 .. Len(a) : a[i] = h[Len(h) - Len(a) + i]
  BY <1>1, LastOfThem
<1>3. Len(a) \in Nat /\ Len(a) >= k /\ Len(a) <= Len(h)
  BY <1>1, <1>2
<1>4. \A j \in 0 .. k - 1 : /\ a[Len(a) - j] = h[Len(h) - j]
                            /\ Failed(h[Len(h) - j]) /\ h[Len(h) - j].tool = h[Len(h)].tool
  <2> SUFFICES ASSUME NEW j \in 0 .. k - 1
               PROVE  /\ a[Len(a) - j] = h[Len(h) - j]
                      /\ Failed(h[Len(h) - j]) /\ h[Len(h) - j].tool = h[Len(h)].tool
    OBVIOUS
  <2>1. Len(a) - j \in 1 .. Len(a) /\ Len(h) - Len(a) + (Len(a) - j) = Len(h) - j
    BY <1>3
  <2>2. Len(h) - j \in Len(h) - k + 1 .. Len(h)
    OBVIOUS
  <2> HIDE DEF a
  <2> QED
    BY <1>2, <2>1, <2>2
<1>5. \A i \in Len(a) - k + 1 .. Len(a) : a[i].tool # "none"
  <2> SUFFICES ASSUME NEW i \in Len(a) - k + 1 .. Len(a) PROVE a[i].tool # "none"
    OBVIOUS
  <2>1. Len(a) - i \in 0 .. k - 1 /\ Len(a) - (Len(a) - i) = i
    BY <1>3
  <2> HIDE DEF a
  <2>2. Failed(a[i]) /\ a[i] \in LogTurn
    <3>1. i \in 1 .. Len(a)
      BY <1>3
    <3> QED
      BY <1>2, <1>4, <2>1, <3>1
  <2> QED
    BY <2>2, FailedIsCall
<1>6. k \in 1 .. 3
  OBVIOUS
<1>7. cs = CallsOf(a)
  BY DEF Audited
<1>8. /\ cs \in Seq(LogTurn) /\ m >= k
      /\ \A j \in 0 .. k - 1 : cs[m - j] = a[Len(a) - j]
  <2> HIDE DEF a, cs
  <2> QED
    BY <1>2, <1>3, <1>5, <1>6, <1>7, LastCalls
<1>9. m \in Nat /\ \A j \in 0 .. k - 1 : cs[m - j] = h[Len(h) - j]
  <2> HIDE DEF a, cs
  <2>1. cs \in Seq(LogTurn)
    BY <1>8
  <2>2. m \in Nat
    BY ONLY <2>1
  <2> HIDE DEF m
  <2>3. ASSUME NEW j \in 0 .. k - 1 PROVE cs[m - j] = h[Len(h) - j]
    BY <1>4, <1>8, <2>3
  <2> QED
    BY ONLY <2>2, <2>3
<1> HIDE DEF a, cs
<1>10. cs[m] = h[Len(h)] /\ cs[m - 1] = h[Len(h) - 1]
  <2>1. 0 \in 0 .. k - 1 /\ 1 \in 0 .. k - 1 /\ m - 0 = m /\ Len(h) - 0 = Len(h)
    BY <1>9
  <2> QED
    BY <1>9, <2>1
<1>11. \A t \in ToSet(LastTurns(cs, k)) : Failed(t) /\ t.tool = Last(cs).tool
  <2>1. /\ LastTurns(cs, k) \in Seq(LogTurn) /\ Len(LastTurns(cs, k)) = k
        /\ \A i \in 1 .. k : LastTurns(cs, k)[i] = cs[m - k + i]
    <3>1. k \in Nat \ {0} /\ (m > k \/ m = k)
      BY <1>8, <1>9
    <3> QED
      BY <1>8, <3>1, LastOfThem
  <2>2. \A i \in 1 .. k : Failed(cs[m - k + i]) /\ cs[m - k + i].tool = cs[m].tool
    <3> SUFFICES ASSUME NEW i \in 1 .. k PROVE Failed(cs[m - k + i]) /\ cs[m - k + i].tool = cs[m].tool
      OBVIOUS
    <3>1. k - i \in 0 .. k - 1 /\ m - (k - i) = m - k + i
      BY <1>9
    <3> QED
      BY <1>4, <1>9, <1>10, <3>1
  <2>3. Last(cs) = cs[m]
    BY DEF Last
  <2>4. ASSUME NEW t \in ToSet(LastTurns(cs, k)) PROVE \E i \in 1 .. k : t = LastTurns(cs, k)[i]
    <3>1. DOMAIN LastTurns(cs, k) = 1 .. k
      BY <2>1
    <3> QED
      BY <2>4, <3>1 DEF ToSet
  <2> QED
    BY <2>1, <2>2, <2>3, <2>4
<1> QED
  BY <1>8, <1>10, <1>11 DEF Run, cs

LEMMA MaxIs ==
    ASSUME NEW S \in SUBSET Int, NEW x \in S, \A y \in S : y <= x
    PROVE  Max(S) = x
<1>1. \A z \in S : (\A y \in S : z >= y) => z = x
  OBVIOUS
<1>2. x \in S /\ \A y \in S : x >= y
  OBVIOUS
<1> QED
  BY <1>1, <1>2 DEF Max

\* The last k turns failed, and are calls of one tool.
Repeat(h, k) ==
    Len(h) >= k /\ \A i \in Len(h) - k + 1 .. Len(h) : Failed(h[i]) /\ h[i].tool = h[Len(h)].tool

\* The file is written and deleted by turns.
ByTurns(h) ==
    Len(h) > 2 /\ \A i \in Len(h) - 1 .. Len(h) : {h[i - 1].tool, h[i].tool} = {"edit", "remove"}

LEMMA LoopIsFound ==
    ASSUME NEW h \in Seq(LogTurn), Repeat(h, MinRepeats)
    PROVE  detectFailureLoop(h)
BY RunAtEnd, GuidanceAssumption DEF Repeat, detectFailureLoop

LEMMA StagnationIsFound ==
    ASSUME NEW h \in Seq(LogTurn), Repeat(h, 2), h[Len(h)].res = h[Len(h) - 1].res, h[Len(h)].tool = "edit"
    PROVE  detectEditStagnation(h)
<1>1. AuditTurns \in Nat /\ AuditTurns >= 2
  BY GuidanceAssumption
<1>2. PICK cs : cs = Audited(h)
  OBVIOUS
<1>3. Run(cs, 2) /\ cs[Len(cs)] = h[Len(h)] /\ cs[Len(cs) - 1] = h[Len(h) - 1]
  BY <1>1, <1>2, RunAtEnd DEF Repeat
<1> QED
  BY <1>2, <1>3 DEF detectEditStagnation, classifyEditFailure

LEMMA TurningIsFound ==
    ASSUME NEW h \in Seq(LogTurn), ByTurns(h)
    PROVE  detectContradiction(h)
<1> DEFINE n == Len(h)
           events == {i \in 1 .. n : h[i].tool \in {"edit", "remove"}}
           Before(i) == {j \in events : j < i}
           turned == {i \in events : LET before == {j \in events : j < i}
                                     IN  before # {} /\ h[Max(before)].tool # h[i].tool}
<1>1. n \in Nat /\ n > 2
  BY DEF ByTurns
<1>2. \A i \in {n - 1, n} : /\ i \in events /\ i - 1 \in events /\ h[i - 1].tool # h[i].tool
  <2> SUFFICES ASSUME NEW i \in {n - 1, n}
               PROVE  /\ i \in events /\ i - 1 \in events /\ h[i - 1].tool # h[i].tool
    OBVIOUS
  <2>1. i \in 1 .. n /\ i - 1 \in 1 .. n
    BY <1>1
  <2>2. {h[i - 1].tool, h[i].tool} = {"edit", "remove"}
    <3>1. i \in Len(h) - 1 .. Len(h)
      BY <1>1
    <3> QED
      BY <3>1 DEF ByTurns
  <2>3. \A a, b : {a, b} = {"edit", "remove"} => a \in {"edit", "remove"} /\ b \in {"edit", "remove"} /\ a # b
    OBVIOUS
  <2>4. PICK a, b : a = h[i - 1].tool /\ b = h[i].tool
    OBVIOUS
  <2>5. a \in {"edit", "remove"} /\ b \in {"edit", "remove"} /\ a # b
    BY ONLY <2>2, <2>3, <2>4
  <2> QED
    BY <2>1, <2>4, <2>5
<1>3. ASSUME NEW i \in {n - 1, n} PROVE i \in turned
  <2>1. /\ Before(i) \in SUBSET Int /\ i - 1 \in Before(i)
        /\ \A j \in Before(i) : j <= i - 1
    BY <1>1, <1>2
  <2>2. Max(Before(i)) = i - 1 /\ Before(i) # {}
    <3> HIDE DEF Before
    <3> QED
      BY <2>1, MaxIs
  <2>3. i \in events /\ h[i - 1].tool # h[i].tool
    BY <1>2
  <2> HIDE DEF events
  <2> QED
    BY <2>2, <2>3
<1>4. IsFiniteSet(turned)
  <2>1. turned \subseteq 1 .. n
    OBVIOUS
  <2>2. IsFiniteSet(1 .. n)
    <3> HIDE DEF n
    <3> QED
      BY <1>1, FS_Interval
  <2> HIDE DEF turned
  <2> QED
    BY <2>1, <2>2, FS_Subset
<1> HIDE DEF turned
<1>5. Cardinality(turned) >= 2
  <2>1. {n - 1, n} \subseteq turned
    BY <1>3
  <2>2. Cardinality({n - 1, n}) = 2
    <3>1. IsFiniteSet({n}) /\ Cardinality({n}) = 1
      BY FS_Singleton
    <3>2. n - 1 \notin {n} /\ {n - 1, n} = {n} \cup {n - 1}
      BY <1>1
    <3> HIDE DEF n
    <3>3. Cardinality({n} \cup {n - 1}) = Cardinality({n}) + 1
      BY <3>1, <3>2, FS_AddElement
    <3> QED
      BY <3>1, <3>2, <3>3
  <2>3. Cardinality(turned) \in Nat
    BY <1>4, FS_CardinalityType
  <2> QED
    BY <1>4, <2>1, <2>2, <2>3, FS_Subset
<1> QED
  BY <1>5 DEF detectContradiction, turned

LEMMA EarlyIsFound ==
    ASSUME NEW h \in Seq(LogTurn), Len(h) > 1, h[Len(h)] = Claim,
           h[Len(h) - 1].tool # "none", verifyToolResult(h[Len(h) - 1]) = "failure"
    PROVE  detectPrematureCompletion(h)
<1> DEFINE n == Len(h)
           a == LastTurns(h, AuditTurns)
<1>1. AuditTurns \in Nat \ {0} /\ AuditTurns >= 2
  BY GuidanceAssumption
<1>2. /\ a \in Seq(LogTurn) /\ Len(a) = IF n > AuditTurns THEN AuditTurns ELSE n
      /\ \A i \in 1 .. Len(a) : a[i] = h[n - Len(a) + i]
  BY <1>1, LastOfThem
<1>3. Len(a) > 1 /\ a[Len(a)] = h[n] /\ a[Len(a) - 1] = h[n - 1]
  <2>1. Len(a) \in Nat /\ Len(a) > 1 /\ n \in Nat
    BY <1>1, <1>2
  <2>2. /\ Len(a) \in 1 .. Len(a) /\ n - Len(a) + Len(a) = n
        /\ Len(a) - 1 \in 1 .. Len(a) /\ n - Len(a) + (Len(a) - 1) = n - 1
    BY <2>1
  <2> HIDE DEF a, n
  <2> QED
    BY <1>2, <2>1, <2>2
<1>4. h[n - 1].tool # "none"
  OBVIOUS
<1>5. h[n - 1] \in ToSet(Audited(h))
  <2> HIDE DEF a
  <2>1. a[Len(a) - 1] \in ToSet(CallsOf(a))
    BY <1>2, <1>3, <1>4, CallBeforeClaim
  <2> QED
    BY <1>3, <2>1 DEF Audited, a
<1>6. verifyToolResult(h[n - 1]) = "failure"
  OBVIOUS
<1>7. Claims(h)
  <2>1. n \in 1 .. Len(h) /\ n + 5 > Len(h) /\ \A j \in n + 1 .. Len(h) : h[j] # Clear
    OBVIOUS
  <2> QED
    BY <2>1 DEF Claims, ClaimScan
<1> QED
  BY <1>5, <1>6, <1>7 DEF detectPrematureCompletion

-----------------------------------------------------------------------------
(* The operational state.                                                  *)

OpState == [root : {"unknown", "here", "elsewhere"},
            file : {"unknown", "exists", "failed_create", "missing"},
            task : {"none", "unknown", "running", "failed"},
            count : 0 .. 2, blocked : BOOLEAN]

\* What a turn says of the place, of the file and of the server.
Names(t)     == t.tool # "none" /\ t.res \in {"here", "elsewhere"}
Touch(t)     == t.tool = "edit" \/ t.res = "gone"
FileAfter(t) == IF t.res = "gone" THEN "missing" ELSE IF t.res = "error" THEN "failed_create" ELSE "exists"
FlaggedServe(t) == t.tool = "serve" /\ t.res \in Flagged

LEMMA LooksAt ==
    ASSUME NEW s \in OpState, NEW t \in LogTurn
    PROVE  LET u == LookAt(s, t)
           IN  /\ u \in OpState
               /\ u.root = IF s.root = "unknown" /\ Names(t) THEN t.res ELSE s.root
               /\ u.file = IF Touch(t) THEN FileAfter(t) ELSE s.file
               /\ s.task = "failed" \/ FlaggedServe(t) => u.task = "failed"
               /\ u.count = IF KnownFailure(t) THEN AtMost2(s.count + 1) ELSE s.count
               /\ u.blocked => s.blocked \/ (KnownFailure(t) /\ s.count >= 1)
<1>1. CASE t \in {Claim, Clear}
  BY <1>1 DEF LookAt, Claim, Clear, Names, Touch, FlaggedServe, KnownFailure
<1>2. CASE t \notin {Claim, Clear}
  <2> DEFINE u1 == detectBackgroundTask(s, t)
             u0 == extractArtifactUpdates(u1, t)
             u2 == NoteRoot(u0, t)
             u3 == RecordFailure(u2, t)
             u4 == StartupSignal(u3, t)
  <2>1. t.tool \in Tools /\ t.res \in Outcomes /\ t.tool # "none"
    BY <1>2 DEF LogTurn, Tools
  <2>2. /\ u1 \in OpState /\ u1.root = s.root /\ u1.file = s.file /\ u1.count = s.count /\ u1.blocked = s.blocked
        /\ s.task = "failed" => u1.task = "failed"
        /\ t.tool = "serve" => u1.task \in {"unknown", "running", "failed"}
    BY DEF detectBackgroundTask, OpState
  <2>a. /\ u0 \in OpState /\ u0.file = IF Touch(t) THEN FileAfter(t) ELSE s.file
        /\ u0.root = s.root /\ u0.count = s.count /\ u0.blocked = s.blocked /\ u0.task = u1.task
    <3> HIDE DEF u1
    <3>1. CASE t.res = "gone"
      <4>1. u0 = [u1 EXCEPT !.file = "missing"]
        BY <3>1 DEF extractArtifactUpdates
      <4>2. Touch(t) /\ FileAfter(t) = "missing"
        BY <2>1, <3>1 DEF Touch, FileAfter
      <4> QED
        BY <2>2, <4>1, <4>2 DEF OpState
    <3>2. CASE t.res # "gone" /\ t.tool = "edit"
      <4>1. t.res \in Flagged <=> t.res = "error"
        BY <3>2 DEF Flagged
      <4>2. u0 = [u1 EXCEPT !.file = FileAfter(t)]
        BY <3>2, <4>1 DEF extractArtifactUpdates, FileAfter
      <4>3. FileAfter(t) \in {"exists", "failed_create"}
        BY <3>2 DEF FileAfter
      <4> QED
        BY <2>2, <3>2, <4>2, <4>3 DEF OpState, Touch
    <3>3. CASE t.res # "gone" /\ t.tool # "edit"
      BY <2>2, <3>3 DEF extractArtifactUpdates, Touch
    <3> QED
      BY <3>1, <3>2, <3>3
  <2>3. /\ u2 \in OpState /\ u2.file = u0.file
        /\ u2.root = IF s.root = "unknown" /\ Names(t) THEN t.res ELSE s.root
        /\ u2.count = s.count /\ u2.blocked = s.blocked /\ u2.task = u1.task
    <3> HIDE DEF u1, u0
    <3> QED
      BY <2>a, <2>1 DEF NoteRoot, OpState, Names
  <2>4. /\ u3 \in OpState /\ u3.root = u2.root /\ u3.file = u2.file /\ u3.task = u1.task
        /\ u3.count = IF KnownFailure(t) THEN AtMost2(s.count + 1) ELSE s.count
        /\ u3.blocked => s.blocked \/ (KnownFailure(t) /\ s.count >= 1)
    <3> HIDE DEF u1, u0, u2
    <3>1. CASE KnownFailure(t)
      <4>1. PICK c, b : c = AtMost2(u2.count + 1) /\ b = (u2.blocked \/ u2.count >= 1)
        OBVIOUS
      <4>2. u3 = [u2 EXCEPT !.count = c, !.blocked = b]
        BY <3>1, <4>1 DEF RecordFailure
      <4>3. c \in 0 .. 2
        BY <2>3, <4>1 DEF AtMost2, OpState
      <4>4. b \in BOOLEAN /\ (b => u2.blocked \/ u2.count >= 1)
        BY <4>1
      <4>5. u3 \in OpState /\ u3.root = u2.root /\ u3.file = u2.file /\ u3.task = u2.task /\ u3.count = c /\ u3.blocked = b
        BY <2>3, <4>2, <4>3, <4>4 DEF OpState
      <4> HIDE DEF u3
      <4> QED
        BY <2>3, <3>1, <4>1, <4>4, <4>5
    <3>2. CASE ~KnownFailure(t)
      BY <2>3, <3>2 DEF RecordFailure, OpState, AtMost2
    <3> QED
      BY <3>1, <3>2
  <2>5. /\ u4 \in OpState /\ u4.root = u3.root /\ u4.file = u3.file /\ u4.count = u3.count /\ u4.blocked = u3.blocked
        /\ u3.task = "failed" => u4.task = "failed"
        /\ t.res \in Flagged /\ u3.task # "none" => u4.task = "failed"
    <3> HIDE DEF u1, u0, u2, u3
    <3> QED
      BY <2>4 DEF StartupSignal, OpState
  <2>6. LookAt(s, t) = u4
    BY <2>1 DEF LookAt
  <2>7. s.task = "failed" \/ FlaggedServe(t) => u4.task = "failed"
    <3> HIDE DEF u1, u0, u2, u3, u4
    <3> QED
      BY <2>2, <2>4, <2>5 DEF FlaggedServe
  <2> HIDE DEF u1, u0, u2, u3, u4
  <2> QED
    BY <2>a, <2>3, <2>4, <2>5, <2>6, <2>7
<1> QED
  BY <1>1, <1>2

\* The turns that are looked at change the state one by one.
LEMMA LooksInTurn ==
    ASSUME NEW s \in OpState, NEW h, Scanned(h) \in Seq(LogTurn)
    PROVE  \E g \in [0 .. Len(Scanned(h)) -> OpState] :
             /\ updateStateFromMessages(s, h) = g[Len(Scanned(h))] /\ g[0] = s
             /\ \A i \in 1 .. Len(Scanned(h)) : g[i] = LookAt(g[i - 1], Scanned(h)[i])
<1> DEFINE n == Len(Scanned(h))
           f == [i \in 1 .. n |-> [x \in OpState |-> LookAt(x, Scanned(h)[i])]]
           Def(g) == [i \in 0 .. n |-> IF i = 0 THEN s ELSE LookAt(g[i - 1], Scanned(h)[i])]
           after == CHOOSE g : g = Def(g)
<1>1. n \in Nat
  OBVIOUS
<1>2. updateStateFromMessages(s, h) = after[n]
  BY DEF updateStateFromMessages
<1>3. \E g : g = Def(g)
  <2>1. f \in Series(n, OpState)
    <3>1. ASSUME NEW i \in 1 .. n, NEW x \in OpState PROVE LookAt(x, Scanned(h)[i]) \in OpState
      BY LooksAt
    <3> QED
      BY <3>1 DEF Series
  <2>2. PICK g \in [0 .. n -> OpState] : g[0] = s /\ \A i \in 1 .. n : g[i] = f[i][g[i - 1]]
    <3> HIDE DEF f, n
    <3>1. Made(n, OpState, s, f) # {}
      BY <1>1, <2>1, Iterates
    <3> QED
      BY <3>1 DEF Made
  <2>3. ASSUME NEW i \in 1 .. n PROVE g[i] = LookAt(g[i - 1], Scanned(h)[i])
    <3>1. g[i - 1] \in OpState /\ g[i] = f[i][g[i - 1]]
      <4> HIDE DEF f, n
      <4>1. i - 1 \in 0 .. n
        BY <1>1
      <4> QED
        BY <2>2, <4>1
    <3>2. f[i] = [x \in OpState |-> LookAt(x, Scanned(h)[i])]
      OBVIOUS
    <3> HIDE DEF f
    <3> QED
      BY <3>1, <3>2
  <2>4. g = Def(g)
    <3>1. \A i \in 0 .. n : i = 0 \/ i \in 1 .. n
      BY <1>1
    <3>2. \A i \in 0 .. n : g[i] = Def(g)[i]
      BY <2>2, <2>3, <3>1
    <3>3. DOMAIN g = 0 .. n /\ g = [i \in DOMAIN g |-> g[i]]
      BY <2>2
    <3> QED
      BY <3>2, <3>3
  <2> QED
    BY <2>4
<1>4. after = Def(after)
  <2> HIDE DEF Def
  <2> QED
    BY <1>3
<1> HIDE DEF after
<1>5. after[0] = s /\ \A i \in 1 .. n : after[i] = LookAt(after[i - 1], Scanned(h)[i])
  <2>1. \A i \in 0 .. n : after[i] = Def(after)[i]
    <3> HIDE DEF Def
    <3> QED
      BY <1>4
  <2>2. 0 \in 0 .. n /\ \A i \in 1 .. n : i \in 0 .. n /\ i # 0
    BY <1>1
  <2> HIDE DEF n
  <2> QED
    BY <2>1, <2>2
<1>6. \A i \in 0 .. n : after[i] \in OpState
  <2> DEFINE T == {i \in 0 .. n : after[i] \in OpState}
  <2>1. 0 \in T
    <3>1. 0 \in 0 .. n
      BY <1>1
    <3> HIDE DEF n
    <3> QED
      BY <1>5, <3>1
  <2>2. ASSUME NEW i \in 1 .. n, i - 1 \in T PROVE i \in T
    <3>1. i \in 0 .. n /\ after[i - 1] \in OpState /\ Scanned(h)[i] \in LogTurn
      BY <2>2
    <3>2. after[i] \in OpState
      <4> HIDE DEF n
      <4> QED
        BY <1>5, <3>1, LooksAt
    <3> QED
      BY <3>1, <3>2
  <2>3. T = 0 .. n
    <3> HIDE DEF T
    <3>1. T \in SUBSET (0 .. n)
      BY DEF T
    <3> QED
      BY <1>1, <2>1, <2>2, <3>1, UpTo
  <2> QED
    BY <2>3
<1>7. after \in [0 .. n -> OpState]
  <2>1. after = Def(after) /\ DOMAIN Def(after) = 0 .. n
    BY <1>4
  <2>2. Def(after) = [i \in DOMAIN Def(after) |-> Def(after)[i]]
    OBVIOUS
  <2>3. DOMAIN after = 0 .. n /\ after = [i \in DOMAIN after |-> after[i]]
    <3> HIDE DEF Def
    <3> QED
      BY <2>1, <2>2
  <2> QED
    BY <1>6, <2>3
<1> QED
  BY <1>2, <1>5, <1>7

\* What the state u holds after a look at the first n turns of h, from state s.
FileFollows(u, s, h, n) ==
    \/ u.file = s.file /\ \A i \in 1 .. n : ~Touch(h[i])
    \/ \E i \in 1 .. n : /\ Touch(h[i]) /\ u.file = FileAfter(h[i])
                         /\ \A j \in i + 1 .. n : ~Touch(h[j])

RootFollows(u, s, h, n) ==
    \/ s.root # "unknown" /\ u.root = s.root
    \/ s.root = "unknown" /\ u.root = "unknown" /\ \A i \in 1 .. n : ~Names(h[i])
    \/ /\ s.root = "unknown" /\ u.root # "unknown"
       /\ \E i \in 1 .. n : /\ Names(h[i]) /\ u.root = h[i].res
                            /\ \A j \in 1 .. i - 1 : ~Names(h[j])

ServerFollows(u, s, h, n) ==
    s.task = "failed" \/ (\E i \in 1 .. n : FlaggedServe(h[i])) => u.task = "failed"

CountFollows(u, l, h, n) ==
    LET seen == l + Cardinality({i \in 1 .. n : KnownFailure(h[i])})
    IN  u.count <= seen /\ (u.blocked => seen >= 2)

\* One more failure, or none, among one turn more.
LEMMA OneMore ==
    ASSUME NEW h, NEW n \in Nat \ {0}
    PROVE  LET Failures(k) == {i \in 1 .. k : KnownFailure(h[i])}
           IN  /\ Cardinality(Failures(n)) \in Nat /\ Cardinality(Failures(n - 1)) \in Nat
               /\ Cardinality(Failures(n)) = Cardinality(Failures(n - 1)) + (IF KnownFailure(h[n]) THEN 1 ELSE 0)
<1> DEFINE Failures(k) == {i \in 1 .. k : KnownFailure(h[i])}
<1>1. IsFiniteSet(Failures(n - 1))
  <2>1. Failures(n - 1) \subseteq 1 .. n - 1 /\ n - 1 \in Nat
    OBVIOUS
  <2> HIDE DEF Failures
  <2> QED
    BY <2>1, FS_Interval, FS_Subset
<1>2. n \notin Failures(n - 1)
  OBVIOUS
<1>3. CASE KnownFailure(h[n])
  <2>1. Failures(n) = Failures(n - 1) \cup {n}
    BY <1>3
  <2> HIDE DEF Failures
  <2> QED
    BY <1>1, <1>2, <1>3, <2>1, FS_AddElement, FS_CardinalityType DEF Failures
<1>4. CASE ~KnownFailure(h[n])
  <2>1. Failures(n) = Failures(n - 1)
    <3>1. \A i \in 1 .. n : i = n \/ i \in 1 .. n - 1
      OBVIOUS
    <3> QED
      BY <1>4, <3>1
  <2>2. Cardinality(Failures(n - 1)) \in Nat
    <3> HIDE DEF Failures
    <3> QED
      BY <1>1, FS_CardinalityType
  <2> QED
    BY <1>4, <2>1, <2>2
<1> QED
  BY <1>3, <1>4

LEMMA StateFollows ==
    ASSUME NEW s \in OpState, NEW h, Scanned(h) \in Seq(LogTurn),
           NEW l \in 0 .. 2, s.count <= l, s.blocked => l = 2
    PROVE  LET u == updateStateFromMessages(s, h)
               n == Len(Scanned(h))
           IN  /\ u \in OpState
               /\ RootFollows(u, s, Scanned(h), n)
               /\ FileFollows(u, s, Scanned(h), n) /\ ServerFollows(u, s, Scanned(h), n)
               /\ CountFollows(u, l, Scanned(h), n)
<1>1. PICK sc : sc = Scanned(h) /\ sc \in Seq(LogTurn)
  OBVIOUS
<1> DEFINE n == Len(sc)
           All(u, i) == /\ RootFollows(u, s, sc, i) /\ FileFollows(u, s, sc, i)
                        /\ ServerFollows(u, s, sc, i) /\ CountFollows(u, l, sc, i)
<1>2. PICK g \in [0 .. n -> OpState] :
        /\ updateStateFromMessages(s, h) = g[n] /\ g[0] = s
        /\ \A i \in 1 .. n : g[i] = LookAt(g[i - 1], sc[i])
  BY <1>1, LooksInTurn
<1> DEFINE T == {i \in 0 .. n : All(g[i], i)}
<1>3. n \in Nat
  BY <1>1
<1>4. 0 \in T
  <2>1. RootFollows(s, s, sc, 0) /\ FileFollows(s, s, sc, 0) /\ ServerFollows(s, s, sc, 0)
    BY DEF RootFollows, FileFollows, ServerFollows
  <2>2. CountFollows(s, l, sc, 0)
    <3>1. {i \in 1 .. 0 : KnownFailure(sc[i])} = {}
      OBVIOUS
    <3>2. l + Cardinality({i \in 1 .. 0 : KnownFailure(sc[i])}) = l
      BY <3>1, FS_EmptySet
    <3> QED
      BY <3>2 DEF CountFollows
  <2> HIDE DEF n
  <2> QED
    BY <1>2, <1>3, <2>1, <2>2
<1>5. ASSUME NEW i \in 1 .. n, i - 1 \in T PROVE i \in T
  <2>1. PICK v, u, t : v = g[i - 1] /\ u = g[i] /\ t = sc[i]
    OBVIOUS
  <2>2. i \in 0 .. n /\ i - 1 \in 0 .. n /\ i \in Nat \ {0} /\ t \in LogTurn
    BY <1>1, <2>1
  <2>3. v \in OpState /\ u = LookAt(v, t) /\ All(v, i - 1)
    <3> HIDE DEF n, All
    <3> QED
      BY <1>2, <1>5, <2>1, <2>2
  <2>4. /\ u.root = IF v.root = "unknown" /\ Names(t) THEN t.res ELSE v.root
        /\ u.file = IF Touch(t) THEN FileAfter(t) ELSE v.file
        /\ v.task = "failed" \/ FlaggedServe(t) => u.task = "failed"
        /\ u.count = IF KnownFailure(t) THEN AtMost2(v.count + 1) ELSE v.count
        /\ u.blocked => v.blocked \/ (KnownFailure(t) /\ v.count >= 1)
    BY <2>2, <2>3, LooksAt
  <2>5. \A j \in 1 .. i : j = i \/ j \in 1 .. i - 1
    BY <2>2
  <2>6. FileFollows(u, s, sc, i)
    <3>1. CASE Touch(t)
      <4>1. i \in 1 .. i /\ \A j \in i + 1 .. i : FALSE
        BY <2>2
      <4> QED
        BY <2>1, <2>4, <3>1, <4>1 DEF FileFollows
    <3>2. CASE ~Touch(t)
      <4>1. CASE v.file = s.file /\ \A j \in 1 .. i - 1 : ~Touch(sc[j])
        BY <2>1, <2>4, <2>5, <3>2, <4>1 DEF FileFollows
      <4>2. ASSUME NEW k \in 1 .. i - 1, Touch(sc[k]), v.file = FileAfter(sc[k]),
                   \A j \in k + 1 .. i - 1 : ~Touch(sc[j])
            PROVE  FileFollows(u, s, sc, i)
        <5>1. k \in 1 .. i /\ \A j \in k + 1 .. i : j = i \/ j \in k + 1 .. i - 1
          BY <2>2
        <5> QED
          BY <2>1, <2>4, <3>2, <4>2, <5>1 DEF FileFollows
      <4> QED
        BY <2>3, <4>1, <4>2 DEF FileFollows
    <3> QED
      BY <3>1, <3>2
  <2>7. ServerFollows(u, s, sc, i)
    <3>1. s.task = "failed" \/ (\E j \in 1 .. i - 1 : FlaggedServe(sc[j])) => v.task = "failed"
      BY <2>3 DEF ServerFollows
    <3> QED
      BY <2>1, <2>4, <2>5, <3>1 DEF ServerFollows
  <2>8. CountFollows(u, l, sc, i)
    <3>1. PICK a, b : /\ a = Cardinality({j \in 1 .. i - 1 : KnownFailure(sc[j])})
                      /\ b = Cardinality({j \in 1 .. i : KnownFailure(sc[j])})
      OBVIOUS
    <3>2. a \in Nat /\ b \in Nat /\ b = a + (IF KnownFailure(t) THEN 1 ELSE 0)
      BY <2>1, <2>2, <3>1, OneMore
    <3>3. v.count <= l + a /\ (v.blocked => l + a >= 2)
      BY <2>3, <3>1 DEF CountFollows
    <3>4. v.count \in 0 .. 2 /\ l \in Nat
      BY <2>3 DEF OpState
    <3>5. u.count <= l + b
      BY <2>4, <3>2, <3>3, <3>4 DEF AtMost2
    <3>6. u.blocked => l + b >= 2
      <4>1. v.blocked => l + b >= 2
        BY <3>2, <3>3, <3>4
      <4>2. KnownFailure(t) /\ v.count >= 1 => l + b >= 2
        BY <3>2, <3>3, <3>4
      <4> QED
        BY <2>4, <4>1, <4>2
    <3> QED
      BY <3>1, <3>5, <3>6 DEF CountFollows
  <2>a. RootFollows(u, s, sc, i)
    <3>1. Names(t) => t.res # "unknown"
      BY DEF Names
    <3>2. CASE v.root # "unknown"
      <4>1. u.root = v.root
        BY <2>4, <3>2
      <4>2. CASE s.root # "unknown" /\ v.root = s.root
        BY <4>1, <4>2 DEF RootFollows
      <4>3. ASSUME s.root = "unknown", NEW k \in 1 .. i - 1, Names(sc[k]), v.root = sc[k].res,
                   \A j \in 1 .. k - 1 : ~Names(sc[j])
            PROVE  RootFollows(u, s, sc, i)
        <5>1. k \in 1 .. i
          BY <2>2
        <5> QED
          BY <3>2, <4>1, <4>3, <5>1 DEF RootFollows
      <4> QED
        BY <2>3, <3>2, <4>2, <4>3 DEF RootFollows
    <3>3. CASE v.root = "unknown"
      <4>1. s.root = "unknown" /\ \A j \in 1 .. i - 1 : ~Names(sc[j])
        BY <2>3, <3>3 DEF RootFollows
      <4>2. CASE Names(t)
        <5>1. i \in 1 .. i /\ u.root = sc[i].res /\ u.root # "unknown" /\ Names(sc[i])
          BY <2>1, <2>2, <2>4, <3>1, <3>3, <4>2
        <5> QED
          BY <4>1, <5>1 DEF RootFollows
      <4>3. CASE ~Names(t)
        <5>1. u.root = "unknown" /\ \A j \in 1 .. i : ~Names(sc[j])
          BY <2>1, <2>4, <2>5, <3>3, <4>1, <4>3
        <5> QED
          BY <4>1, <5>1 DEF RootFollows
      <4> QED
        BY <4>2, <4>3
    <3> QED
      BY <3>2, <3>3
  <2>9. All(u, i)
    BY <2>6, <2>7, <2>8, <2>a
  <2> HIDE DEF n, All
  <2> QED
    BY <2>1, <2>2, <2>9
<1>6. T = 0 .. n
  <2> HIDE DEF T
  <2>1. T \in SUBSET (0 .. n)
    BY DEF T
  <2> QED
    BY <1>3, <1>4, <1>5, <2>1, UpTo
<1>7. n \in 0 .. n /\ g[n] \in OpState /\ All(g[n], n)
  <2>1. n \in 0 .. n
    BY <1>3
  <2> HIDE DEF n, All
  <2> QED
    BY <1>2, <1>6, <2>1
<1> QED
  BY <1>1, <1>2, <1>7

\* Looking at the last turns of h after its first n, with none left out between,
\* comes to looking at all of them.
LEMMA FileJoins ==
    ASSUME NEW h \in Seq(LogTurn), NEW n \in 0 .. Len(h), NEW l \in 0 .. Len(h), Len(h) - l <= n,
           NEW sc, \A i \in 1 .. l : sc[i] = h[Len(h) - l + i],
           NEW d, NEW v, FileFollows(v, d, h, n), NEW u, FileFollows(u, v, sc, l)
    PROVE  FileFollows(u, d, h, Len(h))
<1>1. PICK m : m = Len(h) /\ m \in Nat
  OBVIOUS
<1>2. ASSUME NEW j \in 1 .. m, j > m - l PROVE j - (m - l) \in 1 .. l /\ h[j] = sc[j - (m - l)]
  <2>1. j - (m - l) \in 1 .. l /\ m - l + (j - (m - l)) = j
    BY <1>1, <1>2
  <2> QED
    BY <1>1, <2>1
<1>3. CASE u.file = v.file /\ \A i \in 1 .. l : ~Touch(sc[i])
  <2>1. \A j \in 1 .. m : j > n => ~Touch(h[j])
    BY <1>1, <1>2, <1>3
  <2>2. CASE v.file = d.file /\ \A i \in 1 .. n : ~Touch(h[i])
    <3>1. \A j \in 1 .. m : j \in 1 .. n \/ j > n
      BY <1>1
    <3> QED
      BY <1>1, <1>3, <2>1, <2>2, <3>1 DEF FileFollows
  <2>3. ASSUME NEW i \in 1 .. n, Touch(h[i]), v.file = FileAfter(h[i]), \A j \in i + 1 .. n : ~Touch(h[j])
        PROVE  FileFollows(u, d, h, m)
    <3>1. i \in 1 .. m /\ \A j \in i + 1 .. m : j \in 1 .. m /\ (j \in i + 1 .. n \/ j > n)
      BY <1>1
    <3>2. \A j \in i + 1 .. m : ~Touch(h[j])
      BY <2>1, <2>3, <3>1
    <3> QED
      BY <1>3, <2>3, <3>1, <3>2 DEF FileFollows
  <2> QED
    BY <1>1, <2>2, <2>3 DEF FileFollows
<1>4. ASSUME NEW i \in 1 .. l, Touch(sc[i]), u.file = FileAfter(sc[i]), \A j \in i + 1 .. l : ~Touch(sc[j])
      PROVE  FileFollows(u, d, h, m)
  <2>1. PICK k : k = m - l + i /\ k \in 1 .. m
    BY <1>1
  <2>2. sc[i] = h[k]
    BY <1>1, <2>1
  <2>3. \A j \in k + 1 .. m : j \in 1 .. m /\ j > m - l /\ j - (m - l) \in i + 1 .. l
    BY <1>1, <2>1
  <2>4. \A j \in k + 1 .. m : ~Touch(h[j])
    BY <1>2, <1>4, <2>3
  <2> QED
    BY <1>4, <2>1, <2>2, <2>4 DEF FileFollows
<1> QED
  BY <1>1, <1>3, <1>4 DEF FileFollows

LEMMA RootJoins ==
    ASSUME NEW h \in Seq(LogTurn), NEW n \in 0 .. Len(h), NEW l \in 0 .. Len(h), Len(h) - l <= n,
           NEW sc, \A i \in 1 .. l : sc[i] = h[Len(h) - l + i],
           NEW d, NEW v, RootFollows(v, d, h, n), NEW u, RootFollows(u, v, sc, l)
    PROVE  RootFollows(u, d, h, Len(h))
<1>1. PICK m : m = Len(h) /\ m \in Nat
  OBVIOUS
<1>2. ASSUME NEW j \in 1 .. m, j > m - l PROVE j - (m - l) \in 1 .. l /\ h[j] = sc[j - (m - l)]
  <2>1. j - (m - l) \in 1 .. l /\ m - l + (j - (m - l)) = j
    BY <1>1, <1>2
  <2> QED
    BY <1>1, <2>1
<1>3. CASE v.root # "unknown"
  <2>1. u.root = v.root
    BY <1>3 DEF RootFollows
  <2>2. CASE d.root # "unknown"
    <3>1. v.root = d.root
      BY <2>2 DEF RootFollows
    <3> QED
      BY <1>1, <2>1, <2>2, <3>1 DEF RootFollows
  <2>3. CASE d.root = "unknown"
    <3>1. PICK i \in 1 .. n : Names(h[i]) /\ v.root = h[i].res /\ \A j \in 1 .. i - 1 : ~Names(h[j])
      BY <1>3, <2>3 DEF RootFollows
    <3>2. i \in 1 .. m
      BY <1>1
    <3> QED
      BY <1>1, <1>3, <2>1, <2>3, <3>1, <3>2 DEF RootFollows
  <2> QED
    BY <2>2, <2>3
<1>4. CASE v.root = "unknown"
  <2>1. d.root = "unknown" /\ \A i \in 1 .. n : ~Names(h[i])
    BY <1>4 DEF RootFollows
  <2>2. CASE u.root = "unknown"
    <3>1. \A i \in 1 .. l : ~Names(sc[i])
      BY <1>4, <2>2 DEF RootFollows
    <3>2. \A j \in 1 .. m : ~Names(h[j])
      <4> SUFFICES ASSUME NEW j \in 1 .. m PROVE ~Names(h[j])
        OBVIOUS
      <4>1. j \in 1 .. n \/ j > m - l
        BY <1>1
      <4> QED
        BY <1>2, <2>1, <3>1, <4>1
    <3> QED
      BY <1>1, <2>1, <2>2, <3>2 DEF RootFollows
  <2>3. CASE u.root # "unknown"
    <3>1. PICK i \in 1 .. l : Names(sc[i]) /\ u.root = sc[i].res /\ \A j \in 1 .. i - 1 : ~Names(sc[j])
      BY <1>4, <2>3 DEF RootFollows
    <3>2. PICK k : k = m - l + i /\ k \in 1 .. m
      BY <1>1
    <3>3. sc[i] = h[k]
      BY <1>1, <3>2
    <3>4. \A j \in 1 .. k - 1 : ~Names(h[j])
      <4> SUFFICES ASSUME NEW j \in 1 .. k - 1 PROVE ~Names(h[j])
        OBVIOUS
      <4>1. j \in 1 .. m /\ (j \in 1 .. n \/ (j > m - l /\ j - (m - l) \in 1 .. i - 1))
        BY <1>1, <3>2
      <4> QED
        BY <1>2, <2>1, <3>1, <4>1
    <3> QED
      BY <1>1, <2>1, <2>3, <3>1, <3>2, <3>3, <3>4 DEF RootFollows
  <2> QED
    BY <2>2, <2>3
<1> QED
  BY <1>3, <1>4

LEMMA ServerJoins ==
    ASSUME NEW h \in Seq(LogTurn), NEW n \in 0 .. Len(h), NEW l \in 0 .. Len(h), Len(h) - l <= n,
           NEW sc, \A i \in 1 .. l : sc[i] = h[Len(h) - l + i],
           NEW d, NEW v, ServerFollows(v, d, h, n), NEW u, ServerFollows(u, v, sc, l)
    PROVE  ServerFollows(u, d, h, Len(h))
<1>1. PICK m : m = Len(h) /\ m \in Nat
  OBVIOUS
<1>2. v.task = "failed" => u.task = "failed"
  BY DEF ServerFollows
<1>3. ASSUME NEW j \in 1 .. m, FlaggedServe(h[j]) PROVE u.task = "failed"
  <2>1. CASE j \in 1 .. n
    BY <1>2, <1>3, <2>1 DEF ServerFollows
  <2>2. CASE j \notin 1 .. n
    <3>1. PICK i : i = j - (m - l) /\ i \in 1 .. l /\ m - l + i = j
      BY <1>1, <2>2
    <3>2. FlaggedServe(sc[i])
      BY <1>1, <1>3, <3>1
    <3> QED
      BY <3>1, <3>2 DEF ServerFollows
  <2> QED
    BY <2>1, <2>2
<1>4. d.task = "failed" => u.task = "failed"
  BY <1>2 DEF ServerFollows
<1> QED
  BY <1>1, <1>3, <1>4 DEF ServerFollows

-----------------------------------------------------------------------------
(* Every save holds what the part of the conversation it has seen says of  *)
(* the file and the server, as long as it has missed none of it; and what  *)
(* the last request told is what its save holds, and what the detectors    *)
(* found in the whole conversation.                                        *)

Save == [state : OpState, seen : Nat, whole : BOOLEAN]

SaveOK(r) ==
    /\ r \in Save /\ r.seen <= Len(log)
    /\ r.whole => /\ RootFollows(r.state, defaultOperationalState, log, r.seen)
                  /\ FileFollows(r.state, defaultOperationalState, log, r.seen)
                  /\ ServerFollows(r.state, defaultOperationalState, log, r.seen)
    /\ r.state.count <= looks /\ (r.state.blocked => looks = 2)

TellsTruly ==
    \E s \in OpState : /\ told = Guide(IF Approved(s.root, log) THEN s ELSE defaultOperationalState, log)
                       /\ SaveOK([state |-> s, seen |-> Len(log), whole |-> whole])

GuidanceInv ==
    /\ place \in {"unknown", "here"}
    /\ log \in Seq(LogTurn) /\ looks \in 0 .. 2 /\ whole \in BOOLEAN
    /\ SaveOK(stored) /\ \A r \in pending : SaveOK(r)
    /\ TellsTruly

\* What nobody saved is right of the first turns, of which there are none.
LEMMA UnsavedOK == ASSUME looks \in 0 .. 2, log \in Seq(LogTurn) PROVE SaveOK(Unsaved)
<1>1. defaultOperationalState \in OpState
  BY DEF defaultOperationalState, OpState
<1>2. Unsaved \in Save /\ Unsaved.seen = 0 /\ Unsaved.state = defaultOperationalState
  BY <1>1 DEF Unsaved, Save
<1>3. /\ RootFollows(defaultOperationalState, defaultOperationalState, log, 0)
      /\ FileFollows(defaultOperationalState, defaultOperationalState, log, 0)
      /\ ServerFollows(defaultOperationalState, defaultOperationalState, log, 0)
  BY DEF RootFollows, FileFollows, ServerFollows, defaultOperationalState
<1>4. defaultOperationalState.count = 0 /\ ~defaultOperationalState.blocked
  BY DEF defaultOperationalState
<1> QED
  BY <1>2, <1>3, <1>4 DEF SaveOK

\* It stays so while the conversation and the count of looks grow.
LEMMA SaveStaysOK ==
    ASSUME log \in Seq(LogTurn), log' \in Seq(LogTurn), Len(log) <= Len(log'),
           \A i \in 1 .. Len(log) : log'[i] = log[i],
           looks \in 0 .. 2, looks' \in 0 .. 2, looks <= looks', NEW r, SaveOK(r)
    PROVE  SaveOK(r)'
<1>1. PICK h, k, n, o : h = log /\ k = log' /\ n = r.seen /\ o = r.state
  OBVIOUS
<1>2. r \in Save /\ n \in Nat /\ n <= Len(h) /\ o \in OpState /\ \A i \in 1 .. n : k[i] = h[i]
  BY <1>1 DEF SaveOK, Save
<1>3. FileFollows(o, defaultOperationalState, h, n) => FileFollows(o, defaultOperationalState, k, n)
  <2>1. CASE o.file = defaultOperationalState.file /\ \A i \in 1 .. n : ~Touch(h[i])
    BY <1>2, <2>1 DEF FileFollows
  <2>2. ASSUME NEW i \in 1 .. n, Touch(h[i]), o.file = FileAfter(h[i]), \A j \in i + 1 .. n : ~Touch(h[j])
        PROVE  FileFollows(o, defaultOperationalState, k, n)
    <3>1. \A j \in i + 1 .. n : j \in 1 .. n
      BY <1>2
    <3>2. k[i] = h[i] /\ \A j \in i + 1 .. n : k[j] = h[j]
      BY <1>2, <3>1
    <3> QED
      BY <2>2, <3>2 DEF FileFollows
  <2> QED
    BY <2>1, <2>2 DEF FileFollows
<1>4. ServerFollows(o, defaultOperationalState, h, n) => ServerFollows(o, defaultOperationalState, k, n)
  BY <1>2 DEF ServerFollows
<1>a. RootFollows(o, defaultOperationalState, h, n) => RootFollows(o, defaultOperationalState, k, n)
  <2>1. CASE o.root = "unknown"
    BY <1>2, <2>1 DEF RootFollows, defaultOperationalState
  <2>2. ASSUME o.root # "unknown", NEW i \in 1 .. n, Names(h[i]), o.root = h[i].res,
               \A j \in 1 .. i - 1 : ~Names(h[j])
        PROVE  RootFollows(o, defaultOperationalState, k, n)
    <3>1. \A j \in 1 .. i - 1 : j \in 1 .. n
      BY <1>2
    <3>2. k[i] = h[i] /\ \A j \in 1 .. i - 1 : k[j] = h[j]
      BY <1>2, <3>1
    <3> QED
      BY <2>2, <3>2 DEF RootFollows, defaultOperationalState
  <2> QED
    BY <2>1, <2>2 DEF RootFollows, defaultOperationalState
<1>5. /\ r.whole => /\ RootFollows(o, defaultOperationalState, h, n)
                    /\ FileFollows(o, defaultOperationalState, h, n)
                    /\ ServerFollows(o, defaultOperationalState, h, n)
      /\ o.count <= looks /\ (o.blocked => looks = 2)
  BY <1>1 DEF SaveOK
<1>6. n <= Len(k) /\ o.count \in Nat
  BY <1>1, <1>2 DEF OpState
<1>7. o.count <= looks' /\ (o.blocked => looks' = 2)
  BY <1>5, <1>6
<1> QED
  BY <1>1, <1>2, <1>3, <1>4, <1>5, <1>6, <1>7, <1>a DEF SaveOK

LEMMA RequestOK ==
    ASSUME GuidanceInv, Request(log'),
           log' \in Seq(LogTurn), Len(log) <= Len(log'), \A i \in 1 .. Len(log) : log'[i] = log[i]
    PROVE  GuidanceInv'
<1> DEFINE New(from) == updateStateFromMessages(from.state, log')
           Loads(found, from) ==
             /\ stored' = found
             /\ told' = Guide(IF Approved(New(from).root, log') THEN New(from) ELSE defaultOperationalState, log')
             /\ whole' = (from.whole /\ Len(log') <= from.seen + ScanTurns)
             /\ looks' = AtMost2(looks + Cardinality(KnownFailures(Scanned(log'))))
             /\ pending' = (pending \ {found})
                             \cup {[state |-> New(from), seen |-> Len(log'), whole |-> whole']}
             /\ UNCHANGED <<place, explicit>>
<1>f. PICK found \in Findable(log') : \E from \in {found, Unsaved} : Loads(found, from)
  BY DEF Request
<1>0. PICK from \in {found, Unsaved} : Loads(found, from)
  BY <1>f
<1>1. PICK h, s, w : /\ h = log' /\ w = whole'
                     /\ s = updateStateFromMessages(from.state, h)
  OBVIOUS
<1>2. PICK sc, l : sc = Scanned(h) /\ l = Len(sc)
  OBVIOUS
<1>3. /\ told' = Guide(IF Approved(s.root, h) THEN s ELSE defaultOperationalState, h)
      /\ w = (from.whole /\ Len(h) <= from.seen + ScanTurns)
      /\ looks' = AtMost2(looks + Cardinality(KnownFailures(sc)))
      /\ pending' = (pending \ {found}) \cup {[state |-> s, seen |-> Len(h), whole |-> w]}
      /\ stored' = found /\ place' = place
  BY <1>0, <1>1, <1>2
<1>4. log \in Seq(LogTurn) /\ looks \in 0 .. 2 /\ SaveOK(found) /\ SaveOK(from)
  <2>1. SaveOK(Unsaved) /\ log \in Seq(LogTurn) /\ looks \in 0 .. 2
    BY UnsavedOK DEF GuidanceInv
  <2>2. found = stored \/ found \in pending \/ found = Unsaved
    BY DEF Findable
  <2>3. SaveOK(found)
    <3>1. PICK r : r = stored
      OBVIOUS
    <3>2. SaveOK(r)
      BY <3>1 DEF GuidanceInv
    <3> QED
      BY <2>1, <2>2, <3>1, <3>2 DEF GuidanceInv
  <2> QED
    BY <2>1, <2>3
<1>5. PICK v, n : v = from.state /\ n = from.seen
  OBVIOUS
<1>6. /\ v \in OpState /\ n \in 0 .. Len(log) /\ v.count <= looks /\ (v.blocked => looks = 2)
      /\ from.whole \in BOOLEAN /\ from.whole => RootFollows(v, defaultOperationalState, log, n)
      /\ from.whole => FileFollows(v, defaultOperationalState, log, n)
      /\ from.whole => ServerFollows(v, defaultOperationalState, log, n)
  BY <1>4, <1>5 DEF SaveOK, Save
<1>7. /\ h \in Seq(LogTurn) /\ l \in 0 .. Len(h) /\ sc \in Seq(LogTurn)
      /\ Len(h) - l <= n \/ Len(h) > n + ScanTurns
      /\ \A i \in 1 .. l : sc[i] = h[Len(h) - l + i]
  <2>1. ScanTurns \in Nat \ {0}
    BY GuidanceAssumption
  <2>2. /\ sc \in Seq(LogTurn) /\ l = IF Len(h) > ScanTurns THEN ScanTurns ELSE Len(h)
        /\ \A i \in 1 .. l : sc[i] = h[Len(h) - l + i]
    BY <1>1, <1>2, <2>1, LastOfThem DEF Scanned
  <2>3. Len(h) \in Nat /\ n \in Nat
    BY <1>1, <1>4, <1>6
  <2>4. Len(h) - l <= n \/ Len(h) > n + ScanTurns
    BY ONLY <2>1, <2>2, <2>3
  <2>5. l \in 0 .. Len(h)
    BY ONLY <2>1, <2>2, <2>3
  <2> QED
    BY <1>1, <2>2, <2>4, <2>5
<1>8. /\ s \in OpState /\ RootFollows(s, v, sc, l) /\ FileFollows(s, v, sc, l) /\ ServerFollows(s, v, sc, l)
      /\ CountFollows(s, looks, sc, l)
  BY <1>1, <1>2, <1>4, <1>5, <1>6, <1>7, StateFollows
<1>9. looks' \in 0 .. 2 /\ looks <= looks' /\ s.count <= looks' /\ (s.blocked => looks' = 2)
  <2>1. PICK c : c = Cardinality(KnownFailures(sc))
    OBVIOUS
  <2>2. c \in Nat
    <3>1. KnownFailures(sc) \subseteq 1 .. l /\ l \in Int
      BY <1>2, <1>7 DEF KnownFailures
    <3>2. IsFiniteSet(1 .. l)
      BY <3>1, FS_Interval
    <3> QED
      BY <2>1, <3>1, <3>2, FS_Subset, FS_CardinalityType
  <2>3. s.count <= looks + c /\ (s.blocked => looks + c >= 2)
    BY <1>2, <1>8, <2>1 DEF CountFollows, KnownFailures
  <2>4. s.count \in 0 .. 2
    BY <1>8 DEF OpState
  <2> QED
    BY <1>3, <1>4, <2>1, <2>2, <2>3, <2>4 DEF AtMost2
<1>10. w \in BOOLEAN /\ (w => /\ RootFollows(s, defaultOperationalState, h, Len(h))
                              /\ FileFollows(s, defaultOperationalState, h, Len(h))
                              /\ ServerFollows(s, defaultOperationalState, h, Len(h)))
  <2>1. w \in BOOLEAN /\ (w => from.whole /\ Len(h) - l <= n)
    <3>1. Len(h) <= n + ScanTurns => Len(h) - l <= n
      BY <1>6, <1>7, GuidanceAssumption
    <3> QED
      BY <1>3, <1>5, <3>1
  <2> SUFFICES ASSUME w
               PROVE  /\ RootFollows(s, defaultOperationalState, h, Len(h))
                      /\ FileFollows(s, defaultOperationalState, h, Len(h))
                      /\ ServerFollows(s, defaultOperationalState, h, Len(h))
    BY <2>1
  <2>2. SaveOK(from)'
    BY <1>4, <1>9, SaveStaysOK
  <2>3. /\ RootFollows(v, defaultOperationalState, h, n)
        /\ FileFollows(v, defaultOperationalState, h, n) /\ ServerFollows(v, defaultOperationalState, h, n)
    BY <1>1, <1>5, <2>1, <2>2 DEF SaveOK
  <2>4. n \in 0 .. Len(h)
    BY <1>1, <1>4, <1>6
  <2> QED
    BY <1>7, <1>8, <2>1, <2>3, <2>4, RootJoins, FileJoins, ServerJoins
<1>11. PICK new : new = [state |-> s, seen |-> Len(h), whole |-> w]
  OBVIOUS
<1>12. SaveOK(new)'
  <2>1. new \in Save /\ new.seen = Len(h) /\ new.state = s /\ new.whole = w
    BY <1>1, <1>7, <1>8, <1>10, <1>11 DEF Save
  <2> QED
    BY <1>1, <1>7, <1>9, <1>10, <2>1 DEF SaveOK
<1>13. (\A r \in pending : SaveOK(r))'
  <2> SUFFICES ASSUME NEW r \in pending' PROVE SaveOK(r)'
    OBVIOUS
  <2>1. CASE r = new
    BY <1>12, <2>1
  <2>2. CASE r # new
    <3>1. SaveOK(r)
      BY <1>3, <1>11, <2>2 DEF GuidanceInv
    <3> QED
      BY <1>4, <1>9, <3>1, SaveStaysOK
  <2> QED
    BY <2>1, <2>2
<1>14. SaveOK(stored)'
  <2>1. SaveOK(found)'
    BY <1>4, <1>9, SaveStaysOK
  <2> QED
    BY <1>3, <2>1 DEF SaveOK
<1>15. TellsTruly'
  BY <1>1, <1>3, <1>8, <1>11, <1>12 DEF TellsTruly, Approved, workspacesMatch
<1>16. (place \in {"unknown", "here"} /\ log \in Seq(LogTurn) /\ looks \in 0 .. 2 /\ whole \in BOOLEAN)'
  BY <1>1, <1>3, <1>9, <1>10 DEF GuidanceInv
<1> QED
  BY <1>13, <1>14, <1>15, <1>16 DEF GuidanceInv

LEMMA GuidanceStep == GuidanceInv /\ [GNext]_gvars => GuidanceInv'
<1> SUFFICES ASSUME GuidanceInv, [GNext]_gvars PROVE GuidanceInv'
  OBVIOUS
<1>1. CASE Advance
  <2>1. PICK t \in Steps : log' = Append(log, t) /\ Request(log')
    BY <1>1 DEF Advance
  <2>2. t \in LogTurn /\ log \in Seq(LogTurn)
    BY <1>1, StepsAreTurns DEF Advance, GuidanceInv
  <2>3. log' \in Seq(LogTurn) /\ Len(log) <= Len(log') /\ \A i \in 1 .. Len(log) : log'[i] = log[i]
    BY <2>1, <2>2, AppendProperties
  <2> QED
    BY <2>1, <2>2, <2>3, RequestOK
<1>2. CASE Resend
  <2>1. Request(log)
    BY <1>2 DEF Resend
  <2>2. log' = log /\ log \in Seq(LogTurn)
    BY <1>2 DEF Resend, GuidanceInv
  <2>3. log' \in Seq(LogTurn) /\ Len(log) <= Len(log') /\ \A i \in 1 .. Len(log) : log'[i] = log[i]
    BY <2>2
  <2>4. Request(log')
    BY <2>1, <2>2 DEF Request, Findable
  <2> QED
    BY <2>2, <2>3, <2>4, RequestOK
<1>3. CASE saveOperationalState
  BY <1>3 DEF saveOperationalState, GuidanceInv, SaveOK, TellsTruly, Approved, workspacesMatch
<1>4. CASE UNCHANGED gvars
  BY <1>4 DEF gvars, GuidanceInv, SaveOK, TellsTruly, Approved, workspacesMatch
<1> QED
  BY <1>1, <1>2, <1>3, <1>4 DEF GNext

LEMMA GuidanceStart == GInit => GuidanceInv
<1> SUFFICES ASSUME GInit PROVE GuidanceInv
  OBVIOUS
<1>1. place \in {"unknown", "here"} /\ log = <<>> /\ looks = 0 /\ whole = TRUE /\ stored = Unsaved /\ pending = {}
  BY DEF GInit
<1>2. log \in Seq(LogTurn) /\ looks \in 0 .. 2
  BY <1>1
<1>3. SaveOK(Unsaved)
  BY <1>2, UnsavedOK
<1>4. Unsaved = [state |-> defaultOperationalState, seen |-> Len(log), whole |-> whole]
  BY <1>1 DEF Unsaved
<1>5. defaultOperationalState \in OpState /\ told = Guide(defaultOperationalState, log)
  BY DEF GInit, defaultOperationalState, OpState
<1>6. TellsTruly
  BY <1>3, <1>4, <1>5 DEF TellsTruly
<1> QED
  BY <1>1, <1>2, <1>3, <1>6 DEF GuidanceInv

\* The inductive invariant: every save is right of what it has seen, however late
\* it arrives, and the last request told what its own save holds.
THEOREM GuidanceInvariance == GSpec => []GuidanceInv
BY GuidanceStart, GuidanceStep, PTL DEF GSpec

\* Some numbers up to a bound have a greatest.
LEMMA MaxExists ==
    ASSUME NEW n \in Nat, NEW S \in SUBSET (1 .. n), S # {}
    PROVE  Max(S) \in S /\ \A i \in S : i <= Max(S)
<1> DEFINE D == {n - i : i \in S}
<1>1. D \in SUBSET Nat /\ D # {}
  <2>1. \A i \in S : n - i \in Nat
    OBVIOUS
  <2>2. PICK i \in S : TRUE
    OBVIOUS
  <2>3. n - i \in D
    OBVIOUS
  <2> QED
    BY <2>1, <2>3
<1>2. PICK d \in D : \A e \in D : d <= e
  <2> HIDE DEF D
  <2> QED
    BY <1>1, FirstOfSome
<1>3. PICK x \in S : d = n - x
  BY <1>2
<1>4. \A i \in S : i <= x
  <2> SUFFICES ASSUME NEW i \in S PROVE i <= x
    OBVIOUS
  <2>1. d <= n - i
    BY <1>2
  <2> QED
    BY <1>3, <2>1
<1>5. Max(S) = x
  BY <1>4, MaxIs
<1> QED
  BY <1>4, <1>5

LEMMA MinIs ==
    ASSUME NEW S \in SUBSET Int, NEW x \in S, \A y \in S : x <= y
    PROVE  Min(S) = x
<1>1. \A z \in S : (\A y \in S : z <= y) => z = x
  OBVIOUS
<1> QED
  BY <1>1 DEF Min

\* The last request told of the state its save holds, or of none.
LEMMA WhatIsTold ==
    ASSUME GuidanceInv
    PROVE  \E s \in OpState :
             /\ SaveOK([state |-> s, seen |-> Len(log), whole |-> whole])
             /\ told.audit = runBehaviorAudit(log)
             /\ told.state.file =
                  IF Approved(s.root, log) /\ s.file # "failed_create" THEN s.file ELSE "unknown"
             /\ told.state.task = "running" => s.task = "running"
             /\ told.state.blocked => s.blocked
<1>1. PICK s \in OpState :
        /\ told = Guide(IF Approved(s.root, log) THEN s ELSE defaultOperationalState, log)
        /\ SaveOK([state |-> s, seen |-> Len(log), whole |-> whole])
  BY DEF GuidanceInv, TellsTruly
<1>2. CASE Approved(s.root, log)
  <2>1. told = Guide(s, log)
    BY <1>1, <1>2
  <2>2. /\ told.audit = runBehaviorAudit(log)
        /\ told.state.file = IF s.file = "failed_create" THEN "unknown" ELSE s.file
        /\ told.state.task = "running" => s.task = "running"
        /\ told.state.blocked => s.blocked
    BY <2>1 DEF Guide, buildOperationalGuidance
  <2> QED
    BY <1>1, <1>2, <2>2
<1>3. CASE ~Approved(s.root, log)
  <2>1. told = Guide(defaultOperationalState, log)
    BY <1>1, <1>3
  <2>2. /\ told.audit = runBehaviorAudit(log) /\ told.state.file = "unknown"
        /\ told.state.task # "running" /\ ~told.state.blocked
    BY <2>1 DEF Guide, buildOperationalGuidance, defaultOperationalState
  <2> QED
    BY <1>1, <1>3, <2>2
<1> QED
  BY <1>2, <1>3

\* A /clear is seen while it is among the last turns.
LEMMA ClearIsSeen ==
    ASSUME NEW h \in Seq(LogTurn)
    PROVE  detectClearReset(h) <=> \E i \in 1 .. Len(h) : h[i] = Clear /\ i + ClearTurns > Len(h)
<1>1. ClearTurns \in Nat \ {0}
  BY GuidanceAssumption
<1>2. PICK w, m : w = LastTurns(h, ClearTurns) /\ m = Len(w)
  OBVIOUS
<1>3. /\ w \in Seq(LogTurn) /\ m = IF Len(h) > ClearTurns THEN ClearTurns ELSE Len(h)
      /\ \A i \in 1 .. m : w[i] = h[Len(h) - m + i]
  BY <1>1, <1>2, LastOfThem
<1>4. detectClearReset(h) <=> \E i \in 1 .. m : w[i] = Clear
  <2>1. DOMAIN w = 1 .. m
    <3>1. w \in Seq(LogTurn) /\ m = Len(w)
      BY <1>2, <1>3
    <3> QED
      BY ONLY <3>1
  <2>2. detectClearReset(h) <=> Clear \in {w[i] : i \in DOMAIN w}
    BY <1>2 DEF detectClearReset, ToSet
  <2> QED
    BY <2>1, <2>2
<1>5. ASSUME NEW i \in 1 .. m, w[i] = Clear
      PROVE  \E k \in 1 .. Len(h) : h[k] = Clear /\ k + ClearTurns > Len(h)
  <2>0. Len(h) \in Nat /\ m = IF Len(h) > ClearTurns THEN ClearTurns ELSE Len(h)
    BY <1>3
  <2>1. Len(h) - m + i \in 1 .. Len(h) /\ (Len(h) - m + i) + ClearTurns > Len(h)
    <3>1. i \in 1 .. m
      OBVIOUS
    <3>2. CASE Len(h) > ClearTurns
      <4>1. m = ClearTurns
        BY <2>0, <3>2
      <4> QED
        BY ONLY <1>1, <2>0, <3>1, <4>1, <3>2
    <3>3. CASE ~(Len(h) > ClearTurns)
      <4>1. m = Len(h)
        BY <2>0, <3>3
      <4> QED
        BY ONLY <1>1, <2>0, <3>1, <4>1, <3>3
    <3> QED
      BY <3>2, <3>3
  <2> QED
    BY <1>3, <1>5, <2>1
<1>6. ASSUME NEW k \in 1 .. Len(h), h[k] = Clear, k + ClearTurns > Len(h)
      PROVE  \E i \in 1 .. m : w[i] = Clear
  <2>0. Len(h) \in Nat /\ k \in Nat /\ 1 <= k /\ k <= Len(h) /\ k + ClearTurns > Len(h)
    BY <1>6
  <2>1. k - (Len(h) - m) \in 1 .. m /\ Len(h) - m + (k - (Len(h) - m)) = k
    <3>1. CASE Len(h) > ClearTurns
      <4>1. m = ClearTurns
        BY <1>3, <3>1
      <4> QED
        BY ONLY <1>1, <2>0, <4>1
    <3>2. CASE ~(Len(h) > ClearTurns)
      <4>1. m = Len(h)
        BY <1>3, <3>2
      <4> QED
        BY ONLY <2>0, <4>1
    <3> QED
      BY <3>1, <3>2
  <2> QED
    BY <1>3, <1>6, <2>1
<1> QED
  BY <1>4, <1>5, <1>6

\* The second guard approves as the first root the conversation named has it.
LEMMA ApprovedByFirst ==
    ASSUME log \in Seq(LogTurn), place \in {"unknown", "here"},
           NEW s \in OpState, RootFollows(s, defaultOperationalState, log, Len(log))
    PROVE  LET named == {i \in 1 .. Len(log) : Names(log[i])}
           IN  Approved(s.root, log) <=>
                 /\ ~\E i \in 1 .. Len(log) : log[i] = Clear /\ i + ClearTurns > Len(log)
                 /\ IF named = {} THEN place = "here"
                    ELSE place = "unknown" \/ log[Min(named)].res = place
<1> DEFINE named == {i \in 1 .. Len(log) : Names(log[i])}
<1>1. defaultOperationalState.root = "unknown"
  BY DEF defaultOperationalState
<1>2. CASE s.root = "unknown"
  <2>1. named = {}
    BY <1>1, <1>2 DEF RootFollows
  <2>2. workspacesMatch(place, s.root) <=> place = "here"
    BY <1>2 DEF workspacesMatch
  <2> HIDE DEF named
  <2> QED
    BY <2>1, <2>2, ClearIsSeen DEF Approved, named
<1>3. CASE s.root # "unknown"
  <2>1. PICK i \in 1 .. Len(log) : /\ Names(log[i]) /\ s.root = log[i].res
                                   /\ \A j \in 1 .. i - 1 : ~Names(log[j])
    BY <1>1, <1>3 DEF RootFollows
  <2>2. i \in named /\ named \in SUBSET Int /\ \A j \in named : i <= j
    <3>1. \A j \in 1 .. Len(log) : i <= j \/ j \in 1 .. i - 1
      OBVIOUS
    <3> QED
      BY <2>1, <3>1
  <2> HIDE DEF named
  <2>3. Min(named) = i /\ named # {}
    BY <2>2, MinIs
  <2>4. workspacesMatch(place, s.root) <=> place = "unknown" \/ log[Min(named)].res = place
    BY <1>3, <2>1, <2>3 DEF workspacesMatch
  <2> QED
    BY <2>3, <2>4, ClearIsSeen DEF Approved, named
<1> QED
  BY <1>2, <1>3

\* The file is told to be what the last edit, or the last error that named it as
\* missing, found, and to nobody whom the guard denies it, for any steps, windows and
\* order of saves, as long as no turn was missed.
THEOREM FileIsCurrent == GSpec => []ToldFileIsCurrent
<1>1. GuidanceInv => ToldFileIsCurrent
  <2> SUFFICES ASSUME GuidanceInv, whole PROVE ToldFileIsCurrent
    BY DEF ToldFileIsCurrent
  <2>1. PICK s \in OpState :
          /\ SaveOK([state |-> s, seen |-> Len(log), whole |-> whole])
          /\ told.state.file =
               IF Approved(s.root, log) /\ s.file # "failed_create" THEN s.file ELSE "unknown"
    BY WhatIsTold
  <2>2. /\ FileFollows(s, defaultOperationalState, log, Len(log))
        /\ RootFollows(s, defaultOperationalState, log, Len(log))
    BY <2>1 DEF SaveOK
  <2>3. log \in Seq(LogTurn) /\ place \in {"unknown", "here"}
    BY DEF GuidanceInv
  <2> DEFINE named   == {i \in 1 .. Len(log) : log[i].tool # "none" /\ log[i].res \in {"here", "elsewhere"}}
             cleared == \E i \in 1 .. Len(log) : log[i] = Clear /\ i + ClearTurns > Len(log)
             told_   == ~cleared /\ IF named = {} THEN place = "here"
                                    ELSE place = "unknown" \/ log[Min(named)].res = place
             touches == {i \in 1 .. Len(log) : log[i].tool = "edit" \/ log[i].res = "gone"}
             last    == log[Max(touches)]
             truth   == IF ~told_ \/ touches = {} THEN "unknown"
                        ELSE IF last.res = "gone" THEN "missing"
                        ELSE IF last.res = "error" THEN "unknown" ELSE "exists"
  <2>4. Approved(s.root, log) <=> told_
    <3>1. named = {i \in 1 .. Len(log) : Names(log[i])}
      BY DEF Names
    <3> QED
      BY <2>2, <2>3, <3>1, ApprovedByFirst
  <2>5. touches = {i \in 1 .. Len(log) : Touch(log[i])}
    BY DEF Touch
  <2> HIDE DEF told_, named, cleared
  <2>6. told.state.file = truth
    <3> HIDE DEF touches
    <3>1. CASE \A i \in 1 .. Len(log) : ~Touch(log[i])
      <4>1. touches = {} /\ s.file = "unknown"
        BY <2>2, <2>5, <3>1 DEF FileFollows, defaultOperationalState
      <4> QED
        BY <2>1, <2>4, <4>1
    <3>2. ASSUME NEW i \in 1 .. Len(log), Touch(log[i]), s.file = FileAfter(log[i]),
                 \A j \in i + 1 .. Len(log) : ~Touch(log[j])
          PROVE  told.state.file = truth
      <4>1. i \in touches /\ touches \in SUBSET Int /\ \A j \in touches : j <= i
        BY <2>3, <2>5, <3>2
      <4>2. Max(touches) = i /\ touches # {}
        BY <4>1, MaxIs
      <4> QED
        BY <2>1, <2>4, <3>2, <4>2 DEF FileAfter
    <3> QED
      BY <2>2, <3>1, <3>2 DEF FileFollows
  <2> QED
    BY <2>6 DEF ToldFileIsCurrent, told_, named, cleared
<1> QED
  BY <1>1, GuidanceInvariance, PTL

\* The two reports on a server disagree only on a failure that was not flagged, for
\* any steps, windows and order of saves, as long as no turn was missed.
THEOREM AgreesOnServer == GSpec => []GuidanceAgreesOnServer
<1>1. GuidanceInv => GuidanceAgreesOnServer
  <2> DEFINE served == {i \in 1 .. Len(log) : log[i].tool = "serve"}
  <2> SUFFICES ASSUME GuidanceInv, whole, told.state.task = "running", told.audit.server = "FAILED"
               PROVE  log[Max(served)].res \in Unheard
    BY DEF GuidanceAgreesOnServer
  <2>1. PICK s \in OpState : /\ SaveOK([state |-> s, seen |-> Len(log), whole |-> whole])
                             /\ told.audit = runBehaviorAudit(log) /\ s.task = "running"
    BY WhatIsTold
  <2>2. ServerFollows(s, defaultOperationalState, log, Len(log))
    BY <2>1 DEF SaveOK
  <2>4. \A i \in 1 .. Len(log) : ~FlaggedServe(log[i])
    BY <2>1, <2>2 DEF ServerFollows
  <2>5. assessLongRunningProcessHistory(log) = "FAILED"
    BY <2>1 DEF runBehaviorAudit
  <2>6. served # {} /\ analyzeLongRunningProcessOutput(log[Max(served)].res) = "FAILED"
    BY <2>5 DEF assessLongRunningProcessHistory
  <2>7. Max(served) \in served
    <3>1. served \in SUBSET (1 .. Len(log)) /\ Len(log) \in Nat
      BY DEF GuidanceInv
    <3> HIDE DEF served
    <3> QED
      BY <2>6, <3>1, MaxExists
  <2>8. PICK t : t = log[Max(served)]
    OBVIOUS
  <2>9. t.tool = "serve" /\ ~FlaggedServe(t)
    BY <2>4, <2>7, <2>8
  <2>10. t.res \in Flagged \cup {"odd", "exit", "shout"}
    BY <2>6, <2>8 DEF analyzeLongRunningProcessOutput
  <2> QED
    BY <2>8, <2>9, <2>10 DEF FlaggedServe, Unheard
<1> QED
  BY <1>1, GuidanceInvariance, PTL

\* A failure whose words the loop detector has is one to it, and one whose words the
\* verification has is one to that.
LEMMA FailuresAreSeen ==
    ASSUME NEW t
    PROVE  /\ t.res \in (Flagged \cup Unheard) \ {"odd", "exit"} => Failed(t)
           /\ t.res \in (Flagged \cup Unheard) \ {"odd", "usage"} => verifyToolResult(t) = "failure"
BY DEF Flagged, Unheard, Failed, verifyToolResult

\* A model that is stuck is told so, for any steps and windows of the audit no
\* shorter than the repeats they look for, but of the failures that are neither flagged
\* nor among the detector's words; and nothing is told to be blocked that was not
\* looked at twice.
THEOREM StuckTold == GSpec => []StuckIsTold
<1>1. GuidanceInv => StuckIsTold
  <2> SUFFICES ASSUME GuidanceInv PROVE StuckIsTold
    OBVIOUS
  <2>1. PICK s \in OpState : /\ SaveOK([state |-> s, seen |-> Len(log), whole |-> whole])
                             /\ told.audit = runBehaviorAudit(log)
                             /\ told.state.blocked => s.blocked
    BY WhatIsTold
  <2>2. log \in Seq(LogTurn)
    BY DEF GuidanceInv
  <2>3. told.state.blocked => looks >= 2
    BY <2>1 DEF SaveOK
  <2>4. /\ told.audit.loop = detectFailureLoop(log)
        /\ told.audit.stagnant = detectEditStagnation(log)
        /\ told.audit.early = detectPrematureCompletion(log)
        /\ told.audit.contradiction = detectContradiction(log)
    BY <2>1 DEF runBehaviorAudit
  <2> DEFINE n == Len(log)
             Fails(t, unheard) == t.tool # "none" /\ t.res \in (Flagged \cup Unheard) \ unheard
             Repeats(k) == /\ n >= k
                           /\ \A i \in n - k + 1 .. n :
                                Fails(log[i], {"odd", "exit"}) /\ log[i].tool = log[n].tool
  <2>5. \A k \in {2, 3} : Repeats(k) => Repeat(log, k)
    BY FailuresAreSeen DEF Repeat
  <2>6. Repeats(MinRepeats) => told.audit.loop
    BY <2>2, <2>4, <2>5, LoopIsFound, GuidanceAssumption
  <2>7. Repeats(2) /\ log[n].res = log[n - 1].res /\ log[n].tool = "edit" => told.audit.stagnant
    <3>1. Repeats(2) => Repeat(log, 2)
      BY <2>5
    <3> HIDE DEF Repeats
    <3> QED
      BY <2>2, <2>4, <3>1, StagnationIsFound
  <2>8. ByTurns(log) => told.audit.contradiction
    BY <2>2, <2>4, TurningIsFound
  <2>9. n > 1 /\ log[n] = Claim /\ Fails(log[n - 1], {"odd", "usage"}) => told.audit.early
    BY <2>2, <2>4, EarlyIsFound, FailuresAreSeen
  <2> QED
    BY <2>3, <2>6, <2>7, <2>8, <2>9 DEF StuckIsTold, ByTurns
<1> QED
  BY <1>1, GuidanceInvariance, PTL

-----------------------------------------------------------------------------
(* The history of a request.  A message is sound if calls are the model's  *)
(* and results the client's.  A history is kept (Kept) if each result      *)
(* comes right after its call, and each call right before its result or    *)
(* the text that came instead, but for a summary beside them; c says       *)
(* whether a result may be parted from its call.                           *)

Piece   == [says : {"text", "call", "result", "failed", "summary", "continue"}, turn : Nat]
Sound   == {m \in [role : {"user", "assistant"}, blocks : Seq(Piece)] :
              /\ Calls(m) # {} => m.role = "assistant"
              /\ Results(m) # {} => m.role = "user"}
Sums(m) == Has(m, {"summary"})

Answers(m, n) == m.role = "user" /\ (n \in Results(m) \/ Block("text", n) \in ToSet(m.blocks))

AfterCall(ms, k, n, c) ==
    \/ k > 1 /\ n \in Calls(ms[k - 1])
    \/ c /\ (Sums(ms[k]) \/ (k > 1 /\ Sums(ms[k - 1])))

BeforeAnswer(ms, k, n) ==
    Sums(ms[k]) \/ (k < Len(ms) /\ (Sums(ms[k + 1]) \/ Answers(ms[k + 1], n)))

Kept(ms, c) ==
    /\ ms \in Seq(Sound)
    /\ \A k \in 1 .. Len(ms) : /\ \A n \in Results(ms[k]) : AfterCall(ms, k, n, c)
                               /\ \A n \in Calls(ms[k]) : BeforeAnswer(ms, k, n)

\* A message that goes on with the blocks of another has what both have.
GoesOn(x, y) == [x EXCEPT !.blocks = @ \o y.blocks]

LEMMA Merged ==
    ASSUME NEW x \in Sound, NEW y \in Sound, x.role = y.role, NEW m, m = GoesOn(x, y)
    PROVE  /\ m \in Sound /\ m.role = x.role /\ ToSet(m.blocks) = ToSet(x.blocks) \cup ToSet(y.blocks)
           /\ Calls(m) = Calls(x) \cup Calls(y) /\ Results(m) = Results(x) \cup Results(y)
           /\ Sums(m) <=> Sums(x) \/ Sums(y)
<1>1. x.blocks \in Seq(Piece) /\ y.blocks \in Seq(Piece) /\ x.role \in {"user", "assistant"}
  BY DEF Sound
<1>2. m.role = x.role /\ m.blocks = x.blocks \o y.blocks
  BY DEF Sound, GoesOn
<1>3. ToSet(m.blocks) = ToSet(x.blocks) \cup ToSet(y.blocks)
  <2>1. PICK a, b, d : a = x.blocks /\ b = y.blocks /\ d = a \o b
    OBVIOUS
  <2>2. /\ a \in Seq(Piece) /\ b \in Seq(Piece) /\ d \in Seq(Piece) /\ Len(d) = Len(a) + Len(b)
        /\ \A i \in 1 .. Len(d) : d[i] = IF i <= Len(a) THEN a[i] ELSE b[i - Len(a)]
    <3>1. a \in Seq(Piece) /\ b \in Seq(Piece)
      BY <1>1, <2>1
    <3>2. /\ a \o b \in Seq(Piece) /\ Len(a \o b) = Len(a) + Len(b)
          /\ \A i \in 1 .. Len(a) + Len(b) : (a \o b)[i] = IF i <= Len(a) THEN a[i] ELSE b[i - Len(a)]
      BY ONLY <3>1, ConcatProperties
    <3> QED
      BY ONLY <2>1, <3>1, <3>2
  <2>3. /\ DOMAIN a = 1 .. Len(a) /\ DOMAIN b = 1 .. Len(b) /\ DOMAIN d = 1 .. Len(d)
        /\ Len(a) \in Nat /\ Len(b) \in Nat
    BY <2>2
  <2>4. \A i \in 1 .. Len(a) : i \in 1 .. Len(d) /\ d[i] = a[i]
    BY <2>2, <2>3
  <2>5. \A i \in 1 .. Len(b) : Len(a) + i \in 1 .. Len(d) /\ d[Len(a) + i] = b[i]
    <3> SUFFICES ASSUME NEW i \in 1 .. Len(b) PROVE Len(a) + i \in 1 .. Len(d) /\ d[Len(a) + i] = b[i]
      OBVIOUS
    <3>1. Len(a) + i \in 1 .. Len(d) /\ ~(Len(a) + i <= Len(a)) /\ Len(a) + i - Len(a) = i
      BY <2>2, <2>3
    <3> QED
      BY <2>2, <3>1
  <2>6. \A i \in 1 .. Len(d) : (i \in 1 .. Len(a) /\ d[i] = a[i]) \/ (i - Len(a) \in 1 .. Len(b) /\ d[i] = b[i - Len(a)])
    BY <2>2, <2>3
  <2>7. ToSet(d) = ToSet(a) \cup ToSet(b)
    <3>1. ASSUME NEW e \in ToSet(a) \cup ToSet(b) PROVE e \in ToSet(d)
      BY ONLY <2>3, <2>4, <2>5, <3>1 DEF ToSet
    <3>2. ASSUME NEW e \in ToSet(d) PROVE e \in ToSet(a) \cup ToSet(b)
      BY ONLY <2>3, <2>6, <3>2 DEF ToSet
    <3> QED
      BY <3>1, <3>2
  <2> QED
    BY <1>2, <2>1, <2>7
<1>4. m.blocks \in Seq(Piece)
  BY <1>1, <1>2, ConcatProperties
<1>5. Calls(m) = Calls(x) \cup Calls(y) /\ Results(m) = Results(x) \cup Results(y)
  BY <1>3 DEF Calls, Results
<1>6. Sums(m) <=> Sums(x) \/ Sums(y)
  BY <1>3 DEF Sums, Has
<1>7. m \in Sound
  <2>1. m \in [role : {"user", "assistant"}, blocks : Seq(Piece)]
    BY <1>1, <1>4 DEF Sound, GoesOn
  <2>2. Calls(m) # {} => m.role = "assistant"
    BY <1>2, <1>5 DEF Sound
  <2>3. Results(m) # {} => m.role = "user"
    BY <1>2, <1>5 DEF Sound
  <2> QED
    BY <2>1, <2>2, <2>3 DEF Sound
<1> QED
  BY <1>2, <1>3, <1>5, <1>6, <1>7

LEMMA Shows ==
    ASSUME NEW x, NEW m, ToSet(m.blocks) \subseteq ToSet(x.blocks)
    PROVE  Calls(m) \subseteq Calls(x) /\ Results(m) \subseteq Results(x) /\ (Sums(m) => Sums(x))
BY DEF Calls, Results, Sums, Has

\* The last content x stands for the last message m: what of its calls is not m's
\* is beside a summary.
EndsAs(x, m) ==
    /\ x.role = m.role /\ ToSet(m.blocks) \subseteq ToSet(x.blocks)
    /\ \A n \in Calls(x) : Sums(x) \/ n \in Calls(m)

\* The first i messages, joined to cs.
JoinedUpTo(cs, ms, i, c) ==
    /\ cs \in Seq(Sound) /\ Len(cs) <= i
    /\ \A k \in 1 .. Len(cs) - 1 : cs[k].role # cs[k + 1].role
    /\ \A k \in 1 .. Len(cs) : \A n \in Results(cs[k]) : AfterCall(cs, k, n, c)
    /\ \A k \in 1 .. Len(cs) - 1 : \A n \in Calls(cs[k]) : BeforeAnswer(cs, k, n)
    /\ i > 0 => cs # <<>> /\ EndsAs(cs[Len(cs)], ms[i])

LEMMA JoinStep ==
    ASSUME NEW c \in BOOLEAN, NEW ms, Kept(ms, c), NEW i \in 1 .. Len(ms), NEW cs, JoinedUpTo(cs, ms, i - 1, c)
    PROVE  JoinedUpTo(Join(cs, ms[i]), ms, i, c)
<1>1. PICK m, p, L, x, ds : m = ms[i] /\ p = ms[i - 1] /\ L = Len(cs) /\ x = cs[L] /\ ds = Join(cs, m)
  OBVIOUS
<1>2. /\ m \in Sound /\ i \in Nat /\ i >= 1 /\ (i > 1 => p \in Sound)
      /\ cs \in Seq(Sound) /\ L \in Nat /\ L <= i - 1 /\ (L >= 1 => x \in Sound)
  BY <1>1 DEF Kept, JoinedUpTo
<1>3. \A n \in Results(m) : \/ i > 1 /\ n \in Calls(p)
                            \/ c /\ (Sums(m) \/ (i > 1 /\ Sums(p)))
  BY <1>1 DEF Kept, AfterCall
<1>4. i > 1 => \A n \in Calls(p) : Sums(p) \/ Sums(m) \/ Answers(m, n)
  <2> SUFFICES ASSUME i > 1, NEW n \in Calls(p) PROVE Sums(p) \/ Sums(m) \/ Answers(m, n)
    OBVIOUS
  <2>1. i - 1 \in 1 .. Len(ms) /\ i - 1 + 1 = i
    BY <1>2
  <2>2. BeforeAnswer(ms, i - 1, n)
    BY <1>1, <2>1 DEF Kept
  <2> QED
    BY <1>1, <2>1, <2>2 DEF BeforeAnswer
<1>5. i > 1 => L >= 1 /\ EndsAs(x, p)
  <2> SUFFICES ASSUME i > 1 PROVE L >= 1 /\ EndsAs(x, p)
    OBVIOUS
  <2>1. cs # <<>> /\ EndsAs(x, p)
    BY <1>1, <1>2 DEF JoinedUpTo
  <2> QED
    BY <1>1, <1>2, <2>1
<1>6. i > 1 => Calls(p) \subseteq Calls(x) /\ (Sums(p) => Sums(x))
  BY <1>5, Shows DEF EndsAs
<1>7. /\ \A k \in 1 .. L - 1 : cs[k].role # cs[k + 1].role
      /\ \A k \in 1 .. L : \A n \in Results(cs[k]) :
            \/ k > 1 /\ n \in Calls(cs[k - 1])
            \/ c /\ (Sums(cs[k]) \/ (k > 1 /\ Sums(cs[k - 1])))
      /\ \A k \in 1 .. L - 1 : \A n \in Calls(cs[k]) :
            Sums(cs[k]) \/ (k < L /\ (Sums(cs[k + 1]) \/ Answers(cs[k + 1], n)))
  BY <1>1 DEF JoinedUpTo, AfterCall, BeforeAnswer
<1>8. CASE L >= 1 /\ x.role = m.role
  <2>1. PICK y : y = GoesOn(x, m)
    OBVIOUS
  <2>2. /\ y \in Sound /\ y.role = x.role /\ ToSet(y.blocks) = ToSet(x.blocks) \cup ToSet(m.blocks)
        /\ Calls(y) = Calls(x) \cup Calls(m) /\ Results(y) = Results(x) \cup Results(m)
        /\ Sums(y) <=> Sums(x) \/ Sums(m)
    <3>1. x \in Sound /\ m \in Sound /\ x.role = m.role
      BY <1>2, <1>8
    <3> QED
      BY ONLY <2>1, <3>1, Merged
  <2>3. ds = [cs EXCEPT ![L] = y]
    <3>1. cs # <<>> /\ Last(cs) = x
      BY <1>1, <1>8 DEF Last
    <3> QED
      BY <1>1, <1>8, <2>1, <3>1 DEF Join, GoesOn
  <2>4. ds \in Seq(Sound) /\ Len(ds) = L /\ ds[L] = y /\ \A k \in 1 .. L - 1 : ds[k] = cs[k]
    <3>1. L \in 1 .. Len(cs)
      BY <1>1, <1>2, <1>8
    <3>2. /\ [cs EXCEPT ![L] = y] \in Seq(Sound) /\ Len([cs EXCEPT ![L] = y]) = Len(cs)
          /\ \A j \in 1 .. Len(cs) : [cs EXCEPT ![L] = y][j] = IF j = L THEN y ELSE cs[j]
      BY <1>2, <2>2, <3>1, ExceptSeq
    <3> QED
      BY <1>1, <1>2, <2>3, <3>1, <3>2
  <2>5. i > 1
    BY <1>2, <1>8
  <2>6. p.role = m.role
    BY <1>5, <1>8, <2>5 DEF EndsAs
  <2>7. \A k \in 1 .. L - 1 : ds[k].role # ds[k + 1].role
    <3> SUFFICES ASSUME NEW k \in 1 .. L - 1 PROVE ds[k].role # ds[k + 1].role
      OBVIOUS
    <3>1. k + 1 \in 1 .. L - 1 \/ k + 1 = L
      BY <1>2
    <3> QED
      BY <1>1, <1>7, <2>2, <2>4, <3>1
  <2>8. \A k \in 1 .. L : \A n \in Results(ds[k]) : AfterCall(ds, k, n, c)
    <3> SUFFICES ASSUME NEW k \in 1 .. L, NEW n \in Results(ds[k])
                 PROVE  \/ k > 1 /\ n \in Calls(ds[k - 1])
                        \/ c /\ (Sums(ds[k]) \/ (k > 1 /\ Sums(ds[k - 1])))
      BY DEF AfterCall
    <3>1. k > 1 => ds[k - 1] = cs[k - 1]
      BY <1>2, <2>4
    <3>2. CASE k < L
      <4>1. ds[k] = cs[k]
        BY <1>2, <2>4, <3>2
      <4> QED
        BY <1>7, <3>1, <4>1
    <3>3. CASE k = L /\ n \in Results(x)
      BY <1>1, <1>7, <2>2, <2>4, <3>1, <3>3
    <3>4. CASE k = L /\ n \in Results(m)
      <4>1. n \notin Calls(p)
        BY <1>2, <2>5, <2>6, <3>4 DEF Sound
      <4>2. c /\ (Sums(m) \/ Sums(p))
        BY <1>3, <3>4, <4>1
      <4> QED
        BY <1>6, <2>2, <2>4, <2>5, <3>4, <4>2
    <3>5. k = L => n \in Results(x) \/ n \in Results(m)
      BY <2>2, <2>4
    <3>6. k < L \/ k = L
      BY <1>2
    <3> QED
      BY <3>2, <3>3, <3>4, <3>5, <3>6
  <2>9. \A k \in 1 .. L - 1 : \A n \in Calls(ds[k]) : BeforeAnswer(ds, k, n)
    <3> SUFFICES ASSUME NEW k \in 1 .. L - 1, NEW n \in Calls(ds[k])
                 PROVE  Sums(ds[k]) \/ (k < L /\ (Sums(ds[k + 1]) \/ Answers(ds[k + 1], n)))
      BY <2>4 DEF BeforeAnswer
    <3>1. ds[k] = cs[k] /\ k < L
      BY <1>2, <2>4
    <3>2. CASE k + 1 = L
      <4>1. Answers(x, n) => Answers(y, n)
        BY <2>2 DEF Answers
      <4>2. cs[k + 1] = x /\ ds[k + 1] = y
        BY <1>1, <2>4, <3>2
      <4> QED
        BY <1>7, <2>2, <3>1, <4>1, <4>2
    <3>3. CASE k + 1 # L
      <4>1. ds[k + 1] = cs[k + 1]
        BY <1>2, <2>4, <3>3
      <4> QED
        BY <1>7, <3>1, <4>1
    <3> QED
      BY <3>2, <3>3
  <2>10. EndsAs(y, m)
    <3>1. ASSUME NEW n \in Calls(y), ~Sums(y) PROVE n \in Calls(m)
      <4>1. ~Sums(x) /\ ~Sums(m) /\ ~Sums(p)
        BY <1>6, <2>2, <2>5, <3>1
      <4>2. ~Answers(m, n) \/ n \notin Calls(p)
        BY <1>2, <2>5, <2>6 DEF Answers, Sound
      <4>3. n \notin Calls(p)
        BY <1>4, <2>5, <4>1, <4>2
      <4>4. n \notin Calls(x)
        BY <1>5, <2>5, <4>1, <4>3 DEF EndsAs
      <4> QED
        BY <2>2, <3>1, <4>4
    <3> QED
      BY <1>8, <2>2, <3>1 DEF EndsAs
  <2>11. L <= i /\ i > 0 /\ ds # <<>>
    BY <1>2, <1>8, <2>4
  <2> QED
    BY <1>1, <2>4, <2>7, <2>8, <2>9, <2>10, <2>11 DEF JoinedUpTo
<1>9. CASE ~(L >= 1 /\ x.role = m.role)
  <2>1. ds = Append(cs, m)
    <3>1. L >= 1 => Last(cs) = x
      BY <1>1 DEF Last
    <3>2. cs # <<>> => L >= 1
      BY <1>1, <1>2
    <3> QED
      BY <1>1, <1>9, <3>1, <3>2 DEF Join
  <2>2. /\ ds \in Seq(Sound) /\ ds # <<>> /\ Len(ds) = L + 1 /\ ds[L + 1] = m
        /\ \A k \in 1 .. L : ds[k] = cs[k]
    <3>1. /\ Append(cs, m) \in Seq(Sound) /\ Append(cs, m) # <<>> /\ Len(Append(cs, m)) = Len(cs) + 1
          /\ \A k \in 1 .. Len(cs) : Append(cs, m)[k] = cs[k]
          /\ Append(cs, m)[Len(cs) + 1] = m
      BY <1>2, AppendProperties
    <3> QED
      BY <1>1, <2>1, <3>1
  <2>3. \A k \in 1 .. L : ds[k].role # ds[k + 1].role
    <3> SUFFICES ASSUME NEW k \in 1 .. L PROVE ds[k].role # ds[k + 1].role
      OBVIOUS
    <3>1. CASE k = L
      BY <1>1, <1>2, <1>9, <2>2, <3>1
    <3>2. CASE k # L
      <4>1. k \in 1 .. L - 1 /\ k + 1 \in 1 .. L
        BY <1>2, <3>2
      <4> QED
        BY <1>7, <2>2, <4>1
    <3> QED
      BY <3>1, <3>2
  <2>4. \A k \in 1 .. L + 1 : \A n \in Results(ds[k]) : AfterCall(ds, k, n, c)
    <3> SUFFICES ASSUME NEW k \in 1 .. L + 1, NEW n \in Results(ds[k])
                 PROVE  \/ k > 1 /\ n \in Calls(ds[k - 1])
                        \/ c /\ (Sums(ds[k]) \/ (k > 1 /\ Sums(ds[k - 1])))
      BY DEF AfterCall
    <3>1. k > 1 => ds[k - 1] = cs[k - 1]
      <4>1. k > 1 => k - 1 \in 1 .. L
        BY <1>2
      <4> QED
        BY <2>2, <4>1
    <3>2. CASE k \in 1 .. L
      BY <1>7, <2>2, <3>1, <3>2
    <3>3. CASE k = L + 1
      <4>1. i > 1 => k > 1 /\ ds[k - 1] = x
        BY <1>1, <1>2, <1>5, <2>2, <3>3
      <4>2. n \in Results(m) /\ ds[k] = m
        BY <2>2, <3>3
      <4> QED
        BY <1>3, <1>6, <4>1, <4>2
    <3> QED
      BY <1>2, <3>2, <3>3
  <2>5. \A k \in 1 .. L : \A n \in Calls(ds[k]) : BeforeAnswer(ds, k, n)
    <3> SUFFICES ASSUME NEW k \in 1 .. L, NEW n \in Calls(ds[k])
                 PROVE  Sums(ds[k]) \/ (k < L + 1 /\ (Sums(ds[k + 1]) \/ Answers(ds[k + 1], n)))
      BY <2>2 DEF BeforeAnswer
    <3>1. ds[k] = cs[k] /\ k < L + 1
      BY <1>2, <2>2
    <3>2. CASE k = L
      <4>1. i > 1 /\ cs[k] = x /\ ds[k + 1] = m
        BY <1>1, <1>2, <2>2, <3>2
      <4>2. Sums(x) \/ n \in Calls(p)
        BY <1>5, <3>1, <4>1 DEF EndsAs
      <4> QED
        BY <1>4, <1>6, <3>1, <4>1, <4>2
    <3>3. CASE k # L
      <4>1. k \in 1 .. L - 1 /\ k + 1 \in 1 .. L
        BY <1>2, <3>3
      <4> QED
        BY <1>7, <2>2, <3>1, <4>1
    <3> QED
      BY <3>2, <3>3
  <2>6. EndsAs(m, m)
    BY DEF EndsAs
  <2>7. L + 1 <= i /\ L + 1 - 1 = L
    BY <1>2
  <2> QED
    BY <1>1, <2>2, <2>3, <2>4, <2>5, <2>6, <2>7 DEF JoinedUpTo
<1> QED
  BY <1>8, <1>9

LEMMA JoinType ==
    ASSUME NEW cs \in Seq(Sound), NEW m \in Sound
    PROVE  Join(cs, m) \in Seq(Sound)
<1>1. CASE cs # <<>> /\ Last(cs).role = m.role
  <2>1. PICK x, L : L = Len(cs) /\ x = cs[L] /\ L \in 1 .. Len(cs)
    BY <1>1
  <2>2. x \in Sound /\ x.role = m.role
    BY <1>1, <2>1 DEF Last
  <2>3. PICK y : y = GoesOn(x, m)
    OBVIOUS
  <2>4. y \in Sound
    BY ONLY <2>2, <2>3, m \in Sound, Merged
  <2>5. Join(cs, m) = [cs EXCEPT ![L] = y]
    BY <1>1, <2>1, <2>3 DEF Join, GoesOn
  <2> QED
    BY <2>1, <2>4, <2>5, ExceptSeq
<1>2. CASE ~(cs # <<>> /\ Last(cs).role = m.role)
  BY <1>2, AppendProperties DEF Join
<1> QED
  BY <1>1, <1>2

\* The messages are joined one by one.
LEMMA JoinsInTurn ==
    ASSUME NEW c \in BOOLEAN, NEW ms, Kept(ms, c)
    PROVE  \E cs : Joined(ms) = UserFirstAndLast(cs) /\ JoinedUpTo(cs, ms, Len(ms), c)
<1> DEFINE n == Len(ms)
           X == Seq(Sound)
           f == [i \in 1 .. n |-> [x \in X |-> Join(x, ms[i])]]
           Def(g) == [i \in 0 .. n |-> IF i = 0 THEN <<>> ELSE Join(g[i - 1], ms[i])]
           joined == CHOOSE g : g = Def(g)
<1>1. ms \in X /\ n \in Nat
  BY DEF Kept
<1>2. Joined(ms) = UserFirstAndLast(joined[n])
  BY DEF Joined
<1>3. \E g : g = Def(g)
  <2>1. <<>> \in X /\ f \in Series(n, X)
    <3>1. ASSUME NEW i \in 1 .. n, NEW x \in X PROVE Join(x, ms[i]) \in X
      <4>1. ms[i] \in Sound
        BY <1>1
      <4> QED
        BY <4>1, JoinType
    <3> QED
      BY <3>1 DEF Series
  <2>2. PICK g \in [0 .. n -> X] : g[0] = <<>> /\ \A i \in 1 .. n : g[i] = f[i][g[i - 1]]
    <3> HIDE DEF f, n, X
    <3>1. Made(n, X, <<>>, f) # {}
      BY <1>1, <2>1, Iterates
    <3> QED
      BY <3>1 DEF Made
  <2>3. ASSUME NEW i \in 1 .. n PROVE g[i] = Join(g[i - 1], ms[i])
    <3>1. g[i - 1] \in X /\ g[i] = f[i][g[i - 1]]
      <4> HIDE DEF f, X, n
      <4>1. i - 1 \in 0 .. n
        BY <1>1
      <4> QED
        BY <2>2, <4>1
    <3>2. f[i] = [x \in X |-> Join(x, ms[i])]
      OBVIOUS
    <3> HIDE DEF f, X
    <3> QED
      BY <3>1, <3>2
  <2>4. g = Def(g)
    <3>1. \A i \in 0 .. n : i = 0 \/ i \in 1 .. n
      BY <1>1
    <3>2. \A i \in 0 .. n : g[i] = Def(g)[i]
      BY <2>2, <2>3, <3>1
    <3>3. DOMAIN g = 0 .. n /\ g = [i \in DOMAIN g |-> g[i]]
      BY <2>2
    <3> QED
      BY <3>2, <3>3
  <2> QED
    BY <2>4
<1>4. joined = Def(joined)
  <2> HIDE DEF Def
  <2> QED
    BY <1>3
<1> HIDE DEF joined
<1>5. joined[0] = <<>> /\ \A i \in 1 .. n : joined[i] = Join(joined[i - 1], ms[i])
  <2>1. \A i \in 0 .. n : joined[i] = Def(joined)[i]
    <3> HIDE DEF Def
    <3> QED
      BY <1>4
  <2>2. 0 \in 0 .. n /\ \A i \in 1 .. n : i \in 0 .. n /\ i # 0
    BY <1>1
  <2> HIDE DEF n
  <2> QED
    BY <2>1, <2>2
<1> DEFINE T == {i \in 0 .. n : JoinedUpTo(joined[i], ms, i, c)}
<1>6. 0 \in T
  <2>1. JoinedUpTo(<<>>, ms, 0, c)
    BY DEF JoinedUpTo
  <2> HIDE DEF n
  <2> QED
    BY <1>1, <1>5, <2>1
<1>7. ASSUME NEW i \in 1 .. n, i - 1 \in T PROVE i \in T
  <2>1. JoinedUpTo(joined[i - 1], ms, i - 1, c) /\ i \in 0 .. n
    BY <1>1, <1>7
  <2>2. JoinedUpTo(Join(joined[i - 1], ms[i]), ms, i, c)
    BY <2>1, JoinStep
  <2> HIDE DEF n
  <2> QED
    BY <1>5, <2>1, <2>2
<1>8. T = 0 .. n
  <2> HIDE DEF T
  <2>1. T \in SUBSET (0 .. n)
    BY DEF T
  <2> QED
    BY <1>1, <1>6, <1>7, <2>1, UpTo
<1>9. JoinedUpTo(joined[n], ms, n, c)
  <2>1. n \in 0 .. n
    BY <1>1
  <2> HIDE DEF n
  <2> QED
    BY <1>8, <2>1
<1> QED
  BY <1>2, <1>9

\* A history is kept if each two neighbours are, and its ends.
Neighbours(x, y, c) ==
    /\ \A n \in Results(y) : n \in Calls(x) \/ (c /\ (Sums(x) \/ Sums(y)))
    /\ \A n \in Calls(x) : Sums(x) \/ Sums(y) \/ Answers(y, n)

Starts(y, c) == \A n \in Results(y) : c /\ Sums(y)
Stops(x)     == \A n \in Calls(x) : Sums(x)

KeptByTwos(ms, c) ==
    /\ ms \in Seq(Sound)
    /\ \A k \in 1 .. Len(ms) - 1 : Neighbours(ms[k], ms[k + 1], c)
    /\ Len(ms) > 0 => Starts(ms[1], c) /\ Stops(ms[Len(ms)])

LEMMA KeptTwos ==
    ASSUME NEW ms, NEW c \in BOOLEAN
    PROVE  Kept(ms, c) <=> KeptByTwos(ms, c)
<1> SUFFICES ASSUME ms \in Seq(Sound) PROVE Kept(ms, c) <=> KeptByTwos(ms, c)
  BY DEF Kept, KeptByTwos
<1>1. PICK L : L = Len(ms) /\ L \in Nat
  OBVIOUS
<1>2. ASSUME Kept(ms, c) PROVE KeptByTwos(ms, c)
  <2>1. ASSUME NEW k \in 1 .. L - 1 PROVE Neighbours(ms[k], ms[k + 1], c)
    <3>1. k \in 1 .. L /\ k + 1 \in 1 .. L /\ k + 1 > 1 /\ k + 1 - 1 = k
      BY <1>1
    <3>2. \A n \in Results(ms[k + 1]) : AfterCall(ms, k + 1, n, c)
      BY <1>1, <1>2, <3>1 DEF Kept
    <3>3. \A n \in Calls(ms[k]) : BeforeAnswer(ms, k, n)
      BY <1>1, <1>2, <3>1 DEF Kept
    <3> QED
      BY <1>1, <3>1, <3>2, <3>3 DEF Neighbours, AfterCall, BeforeAnswer
  <2>2. ASSUME L > 0 PROVE Starts(ms[1], c) /\ Stops(ms[L])
    <3>1. 1 \in 1 .. L /\ L \in 1 .. L /\ ~(1 > 1) /\ ~(L < L)
      BY <1>1, <2>2
    <3> QED
      BY <1>1, <1>2, <3>1 DEF Kept, AfterCall, BeforeAnswer, Starts, Stops
  <2> QED
    BY <1>1, <2>1, <2>2 DEF KeptByTwos
<1>3. ASSUME KeptByTwos(ms, c) PROVE Kept(ms, c)
  <2>1. ASSUME NEW k \in 1 .. L, NEW n \in Results(ms[k]) PROVE AfterCall(ms, k, n, c)
    <3>1. CASE k = 1
      BY <1>1, <1>3, <2>1, <3>1 DEF KeptByTwos, Starts, AfterCall
    <3>2. CASE k # 1
      <4>1. k - 1 \in 1 .. L - 1 /\ k - 1 + 1 = k /\ k > 1
        BY <1>1, <3>2
      <4>2. Neighbours(ms[k - 1], ms[k], c)
        BY <1>1, <1>3, <4>1 DEF KeptByTwos
      <4> QED
        BY <2>1, <4>1, <4>2 DEF Neighbours, AfterCall
    <3> QED
      BY <3>1, <3>2
  <2>2. ASSUME NEW k \in 1 .. L, NEW n \in Calls(ms[k]) PROVE BeforeAnswer(ms, k, n)
    <3>1. CASE k = L
      <4>1. L > 0
        BY <1>1, <3>1
      <4> QED
        BY <1>1, <1>3, <2>2, <3>1, <4>1 DEF KeptByTwos, Stops, BeforeAnswer
    <3>2. CASE k # L
      <4>1. k \in 1 .. L - 1 /\ k < L
        BY <1>1, <3>2
      <4>2. Neighbours(ms[k], ms[k + 1], c)
        BY <1>1, <1>3, <4>1 DEF KeptByTwos
      <4> QED
        BY <1>1, <2>2, <4>1, <4>2 DEF Neighbours, BeforeAnswer
    <3> QED
      BY <3>1, <3>2
  <2> QED
    BY <1>1, <2>1, <2>2 DEF Kept
<1> QED
  BY <1>2, <1>3

-----------------------------------------------------------------------------
(* The contents made of a history that is kept are kept, alternate, and    *)
(* begin and end with the user.                                            *)

Alternates(cs) == \A k \in 1 .. Len(cs) - 1 : cs[k].role # cs[k + 1].role

\* A message of one block shows what the block is.
ShownAs(m, role, p) ==
    /\ m.role = role /\ m.blocks = <<p>> /\ ToSet(m.blocks) = {p} /\ m.blocks \in Seq(Piece)
    /\ Calls(m) = IF p.says = "call" THEN {p.turn} ELSE {}
    /\ Results(m) = IF p.says \in {"result", "failed"} THEN {p.turn} ELSE {}
    /\ Sums(m) <=> p.says = "summary"

LEMMA Shown ==
    ASSUME NEW p \in Piece, NEW role, NEW m, m = [role |-> role, blocks |-> <<p>>]
    PROVE  ShownAs(m, role, p)
<1>1. m.role = role /\ m.blocks = <<p>> /\ m.blocks \in Seq(Piece)
  OBVIOUS
<1>2. ToSet(m.blocks) = {p}
  BY <1>1 DEF ToSet
<1> QED
  BY <1>1, <1>2 DEF ShownAs, Calls, Results, Sums, Has

LEMMA Continues ==
    Continue \in Sound /\ Continue.role = "user" /\ Calls(Continue) = {} /\ Results(Continue) = {}
<1> DEFINE p == Block("continue", 0)
<1>1. p \in Piece /\ p.says = "continue" /\ Continue = [role |-> "user", blocks |-> <<p>>]
  BY DEF Piece, Block, Continue, Message
<1> HIDE DEF p
<1>2. Continue.role = "user" /\ Continue.blocks \in Seq(Piece) /\ Calls(Continue) = {} /\ Results(Continue) = {}
  BY <1>1, Shown DEF ShownAs
<1> QED
  BY <1>1, <1>2 DEF Sound

\* What the joining of all the messages leaves is kept: a call in the last content
\* is one of the last message, or beside a summary.
LEMMA JoinedIsKept ==
    ASSUME NEW c \in BOOLEAN, NEW ms, Kept(ms, c), NEW cs, JoinedUpTo(cs, ms, Len(ms), c)
    PROVE  Kept(cs, c) /\ Alternates(cs)
<1>1. PICK L, N : L = Len(cs) /\ N = Len(ms) /\ L \in Nat /\ N \in Nat /\ L <= N
  BY DEF Kept, JoinedUpTo
<1>2. ASSUME NEW k \in 1 .. L, NEW n \in Calls(cs[k]) PROVE BeforeAnswer(cs, k, n)
  <2>1. CASE k \in 1 .. L - 1
    BY <1>1, <1>2, <2>1 DEF JoinedUpTo
  <2>2. CASE k = L
    <3>1. N \in 1 .. N /\ N > 0 /\ ~(N < N)
      BY <1>1, <2>2
    <3>2. PICK x, m : x = cs[L] /\ m = ms[N]
      OBVIOUS
    <3>3. EndsAs(x, m)
      BY <1>1, <3>1, <3>2 DEF JoinedUpTo
    <3>4. \A i \in Calls(m) : Sums(m)
      <4>1. \A i \in Calls(ms[N]) : BeforeAnswer(ms, N, i)
        BY <1>1, <3>1 DEF Kept
      <4> QED
        BY <1>1, <3>1, <3>2, <4>1 DEF BeforeAnswer
    <3>5. Sums(m) => Sums(x)
      BY <3>3, Shows DEF EndsAs
    <3> QED
      BY <1>2, <2>2, <3>2, <3>3, <3>4, <3>5 DEF EndsAs, BeforeAnswer
  <2> QED
    BY <1>1, <2>1, <2>2
<1>3. Kept(cs, c)
  BY <1>1, <1>2 DEF JoinedUpTo, Kept
<1> QED
  BY <1>3 DEF JoinedUpTo, Alternates

LEMMA EndedByUser ==
    ASSUME NEW c \in BOOLEAN, NEW cs, Kept(cs, c), Alternates(cs), cs # <<>>, cs[Len(cs)].role = "assistant",
           NEW ds, ds = Append(cs, Continue)
    PROVE  /\ Kept(ds, c) /\ Alternates(ds) /\ Len(ds) = Len(cs) + 1
           /\ ds[1] = cs[1] /\ ds[Len(ds)] = Continue
<1>1. PICK L : L = Len(cs) /\ L \in Nat /\ L >= 1 /\ cs \in Seq(Sound)
  BY DEF Kept
<1>2. ds \in Seq(Sound) /\ Len(ds) = L + 1 /\ ds[L + 1] = Continue /\ \A k \in 1 .. L : ds[k] = cs[k]
  <2>1. /\ Append(cs, Continue) \in Seq(Sound) /\ Len(Append(cs, Continue)) = Len(cs) + 1
        /\ \A k \in 1 .. Len(cs) : Append(cs, Continue)[k] = cs[k]
        /\ Append(cs, Continue)[Len(cs) + 1] = Continue
    BY <1>1, Continues, AppendProperties
  <2> QED
    BY <1>1, <2>1
<1>3. KeptByTwos(cs, c)
  BY KeptTwos
<1>4. ASSUME NEW k \in 1 .. L PROVE Neighbours(ds[k], ds[k + 1], c) /\ ds[k].role # ds[k + 1].role
  <2>1. CASE k \in 1 .. L - 1
    <3>1. ds[k] = cs[k] /\ ds[k + 1] = cs[k + 1]
      BY <1>1, <1>2, <2>1
    <3> QED
      BY <1>1, <1>3, <2>1, <3>1 DEF KeptByTwos, Alternates
  <2>2. CASE k = L
    <3>1. ds[k] = cs[L] /\ ds[k + 1] = Continue /\ Stops(cs[L])
      BY <1>1, <1>2, <1>3, <2>2 DEF KeptByTwos
    <3> QED
      BY <1>1, <3>1, Continues DEF Neighbours, Stops
  <2> QED
    BY <1>1, <2>1, <2>2
<1>5. Starts(ds[1], c) /\ Stops(ds[L + 1])
  BY <1>1, <1>2, <1>3, Continues DEF KeptByTwos, Stops
<1>6. L + 1 - 1 = L
  BY <1>1
<1>7. KeptByTwos(ds, c) /\ Alternates(ds)
  <2>1. Len(ds) - 1 = L
    <3>1. L \in Nat
      BY <1>1
    <3> QED
      BY ONLY <1>2, <3>1
  <2>2. Alternates(ds)
    BY ONLY <1>4, <2>1 DEF Alternates
  <2>3. \A k \in 1 .. Len(ds) - 1 : Neighbours(ds[k], ds[k + 1], c)
    BY ONLY <1>4, <2>1
  <2> QED
    BY ONLY <1>2, <1>5, <2>2, <2>3 DEF KeptByTwos
<1>8. Kept(ds, c)
  BY <1>7, KeptTwos
<1> QED
  BY <1>1, <1>2, <1>7, <1>8

LEMMA BegunByUser ==
    ASSUME NEW c \in BOOLEAN, NEW cs, Kept(cs, c), Alternates(cs), cs = <<>> \/ cs[1].role = "assistant",
           NEW ds, ds = <<Continue>> \o cs
    PROVE  /\ Kept(ds, c) /\ Alternates(ds) /\ Len(ds) = Len(cs) + 1
           /\ ds[1] = Continue /\ \A k \in 1 .. Len(cs) : ds[k + 1] = cs[k]
<1>1. PICK L : L = Len(cs) /\ L \in Nat /\ cs \in Seq(Sound)
  BY DEF Kept
<1>2. ds \in Seq(Sound) /\ Len(ds) = L + 1 /\ ds[1] = Continue /\ \A k \in 1 .. L : ds[k + 1] = cs[k]
  <2>1. PICK a : a = <<Continue>>
    OBVIOUS
  <2>2. a \in Seq(Sound) /\ Len(a) = 1 /\ a[1] = Continue
    BY <2>1, Continues
  <2>3. /\ a \o cs \in Seq(Sound) /\ Len(a \o cs) = Len(a) + Len(cs)
        /\ \A i \in 1 .. Len(a) + Len(cs) : (a \o cs)[i] = IF i <= Len(a) THEN a[i] ELSE cs[i - Len(a)]
    BY ONLY <1>1, <2>2, ConcatProperties
  <2>4. \A k \in 1 .. L : k + 1 \in 1 .. L + 1 /\ ~(k + 1 <= 1) /\ k + 1 - 1 = k
    BY <1>1
  <2>5. 1 \in 1 .. 1 + L /\ 1 + L = L + 1
    BY <1>1
  <2>6. /\ ds \in Seq(Sound) /\ Len(ds) = 1 + L
        /\ \A i \in 1 .. 1 + L : ds[i] = IF i <= 1 THEN a[i] ELSE cs[i - 1]
    BY <1>1, <2>1, <2>2, <2>3
  <2> QED
    BY ONLY <2>2, <2>4, <2>5, <2>6
<1>3. KeptByTwos(cs, c)
  BY KeptTwos
<1>4. ASSUME NEW k \in 1 .. L PROVE Neighbours(ds[k], ds[k + 1], c) /\ ds[k].role # ds[k + 1].role
  <2>1. CASE k = 1
    <3>1. ds[1] = Continue /\ ds[1 + 1] = cs[1] /\ Starts(cs[1], c) /\ cs[1].role = "assistant"
      BY <1>1, <1>2, <1>3, <2>1 DEF KeptByTwos
    <3> QED
      BY <2>1, <3>1, Continues DEF Neighbours, Starts
  <2>2. CASE k # 1
    <3>1. k - 1 \in 1 .. L - 1 /\ k - 1 \in 1 .. L /\ k - 1 + 1 = k
      BY <1>1, <2>2
    <3>2. ds[k] = cs[k - 1] /\ ds[k + 1] = cs[k - 1 + 1]
      BY <1>2, <3>1
    <3>3. Neighbours(cs[k - 1], cs[k - 1 + 1], c) /\ cs[k - 1].role # cs[k - 1 + 1].role
      BY <1>1, <1>3, <3>1 DEF KeptByTwos, Alternates
    <3> QED
      BY <3>2, <3>3
  <2> QED
    BY <2>1, <2>2
<1>5. Starts(ds[1], c) /\ Stops(ds[L + 1])
  <2>1. Starts(Continue, c) /\ Stops(Continue)
    BY Continues DEF Starts, Stops
  <2>2. CASE L = 0
    BY <1>2, <2>1, <2>2
  <2>3. CASE L # 0
    <3>1. L \in 1 .. L /\ L > 0
      BY <1>1, <2>3
    <3> QED
      BY <1>1, <1>2, <1>3, <2>1, <3>1 DEF KeptByTwos
  <2> QED
    BY <2>2, <2>3
<1>6. L + 1 - 1 = L
  BY <1>1
<1>7. KeptByTwos(ds, c) /\ Alternates(ds)
  <2>1. Len(ds) - 1 = L
    <3>1. L \in Nat
      BY <1>1
    <3> QED
      BY ONLY <1>2, <3>1
  <2>2. Alternates(ds)
    BY ONLY <1>4, <2>1 DEF Alternates
  <2>3. \A k \in 1 .. Len(ds) - 1 : Neighbours(ds[k], ds[k + 1], c)
    BY ONLY <1>4, <2>1
  <2> QED
    BY ONLY <1>2, <1>5, <2>2, <2>3 DEF KeptByTwos
<1>8. Kept(ds, c)
  BY <1>7, KeptTwos
<1> QED
  BY <1>1, <1>2, <1>7, <1>8

\* What Joined gives: the last message's blocks are in the last content, if a user's.
LEMMA JoinKeeps ==
    ASSUME NEW c \in BOOLEAN, NEW ms, Kept(ms, c), NEW cs, cs = Joined(ms)
    PROVE  /\ Kept(cs, c) /\ Alternates(cs) /\ cs # <<>> /\ Len(cs) <= Len(ms) + 2
           /\ cs[1].role = "user" /\ cs[Len(cs)].role = "user"
           /\ ms # <<>> /\ ms[Len(ms)].role = "user" =>
                 ToSet(ms[Len(ms)].blocks) \subseteq ToSet(cs[Len(cs)].blocks)
<1>1. PICK js : cs = UserFirstAndLast(js) /\ JoinedUpTo(js, ms, Len(ms), c)
  BY JoinsInTurn
<1>2. Kept(js, c) /\ Alternates(js)
  BY <1>1, JoinedIsKept
<1>3. PICK es : es = IF js # <<>> /\ Last(js).role = "assistant" THEN Append(js, Continue) ELSE js
  OBVIOUS
<1>4. cs = IF es = <<>> \/ es[1].role = "assistant" THEN <<Continue>> \o es ELSE es
  BY <1>1, <1>3 DEF UserFirstAndLast
<1>5. PICK N, L : N = Len(ms) /\ L = Len(js) /\ N \in Nat /\ L \in Nat /\ L <= N /\ js \in Seq(Sound) /\ ms \in Seq(Sound)
  BY <1>1 DEF Kept, JoinedUpTo
<1>6. js # <<>> => L >= 1 /\ Last(js) = js[L]
  BY <1>5 DEF Last
<1>7. /\ Kept(es, c) /\ Alternates(es) /\ Len(es) \in Nat /\ Len(es) <= L + 1
      /\ es # <<>> => Len(es) >= 1 /\ es[Len(es)].role = "user"
      /\ js # <<>> /\ js[L].role = "user" => es = js
  <2>1. CASE js # <<>> /\ js[L].role = "assistant"
    <3>1. /\ Kept(es, c) /\ Alternates(es) /\ Len(es) = L + 1 /\ es[Len(es)] = Continue
      BY <1>2, <1>3, <1>5, <1>6, <2>1, EndedByUser
    <3> QED
      BY <1>5, <2>1, <3>1, Continues
  <2>2. CASE ~(js # <<>> /\ js[L].role = "assistant")
    <3>1. es = js
      BY <1>3, <1>6, <2>2
    <3>2. js # <<>> => js[L].role \in {"user", "assistant"}
      BY <1>5, <1>6 DEF Sound
    <3> QED
      BY <1>2, <1>5, <1>6, <2>2, <3>1, <3>2
  <2> QED
    BY <2>1, <2>2
<1>8. /\ Kept(cs, c) /\ Alternates(cs) /\ Len(cs) \in Nat /\ Len(cs) >= 1 /\ Len(cs) <= Len(es) + 1
      /\ cs[1].role = "user" /\ cs[Len(cs)].role = "user" /\ (es # <<>> => cs[Len(cs)] = es[Len(es)])
  <2>1. CASE es = <<>> \/ es[1].role = "assistant"
    <3>1. cs = <<Continue>> \o es
      BY <1>4, <2>1
    <3>2. /\ Kept(cs, c) /\ Alternates(cs) /\ Len(cs) = Len(es) + 1
          /\ cs[1] = Continue /\ \A k \in 1 .. Len(es) : cs[k + 1] = es[k]
      <4>1. Kept(es, c) /\ Alternates(es)
        BY <1>7
      <4> QED
        BY ONLY c \in BOOLEAN, <2>1, <3>1, <4>1, BegunByUser
    <3>3. es = <<>> => Len(es) = 0
      OBVIOUS
    <3>4. es # <<>> => cs[Len(cs)] = es[Len(es)]
      <4>1. es # <<>> => Len(es) \in 1 .. Len(es)
        BY <1>7
      <4> QED
        BY <3>2, <4>1
    <3> QED
      BY <1>7, <3>2, <3>3, <3>4, Continues
  <2>2. CASE ~(es = <<>> \/ es[1].role = "assistant")
    <3>1. cs = es /\ Len(es) >= 1
      BY <1>4, <1>7, <2>2
    <3>2. es \in Seq(Sound)
      BY <1>7 DEF Kept
    <3>3. es[1] \in Sound
      BY <1>7, <3>1, <3>2
    <3>4. es[1].role \in {"user", "assistant"}
      BY <3>3 DEF Sound
    <3> QED
      BY <1>7, <2>2, <3>1, <3>4
  <2> QED
    BY <2>1, <2>2
<1>9. ASSUME ms # <<>>, ms[N].role = "user" PROVE ToSet(ms[N].blocks) \subseteq ToSet(cs[Len(cs)].blocks)
  <2>1. N > 0
    BY <1>5, <1>9
  <2>2. js # <<>> /\ EndsAs(js[L], ms[N])
    BY <1>1, <1>5, <2>1 DEF JoinedUpTo
  <2>3. es = js /\ cs[Len(cs)] = js[L]
    BY <1>5, <1>7, <1>8, <1>9, <2>2 DEF EndsAs
  <2> QED
    BY <2>2, <2>3 DEF EndsAs
<1>10. Len(cs) <= N + 2 /\ cs # <<>>
  BY <1>5, <1>7, <1>8
<1> QED
  BY <1>5, <1>8, <1>9, <1>10

-----------------------------------------------------------------------------
(* A summary put between the first messages and the last keeps a history.  *)

Spliced(ms, h, y, q) == FirstN(ms, h) \o <<y>> \o From(ms, q)

\* Where each of its messages comes from.
SplicedOf(S, ms, h, y, q, ds) ==
    /\ ds \in Seq(S) /\ Len(ds) = h + 1 + (Len(ms) - q)
    /\ \A i \in 1 .. h : ds[i] = ms[i]
    /\ ds[h + 1] = y
    /\ \A j \in 1 .. Len(ms) - q : ds[h + 1 + j] = ms[q + j]
    /\ ds = FirstN(ms, h) \o (<<y>> \o From(ms, q))

LEMMA SplicedIs ==
    ASSUME NEW S, NEW ms \in Seq(S), NEW y \in S, NEW h \in 0 .. Len(ms), NEW q \in 0 .. Len(ms),
           NEW ds, ds = Spliced(ms, h, y, q)
    PROVE  SplicedOf(S, ms, h, y, q, ds)
<1>1. PICK L, a, b, d : L = Len(ms) /\ a = FirstN(ms, h) /\ b = <<y>> /\ d = From(ms, q)
  OBVIOUS
<1>2. L \in Nat /\ h \in 0 .. L /\ q \in 0 .. L /\ \A i \in 1 .. L : ms[i] \in S
  BY <1>1
<1>3. a \in Seq(S) /\ Len(a) = h /\ \A i \in 1 .. h : a[i] = ms[i]
  <2>1. /\ SubSeq(ms, 1, h) \in Seq(S) /\ Len(SubSeq(ms, 1, h)) = IF 1 <= h THEN h - 1 + 1 ELSE 0
        /\ \A i \in 1 .. h - 1 + 1 : SubSeq(ms, 1, h)[i] = ms[1 + i - 1]
    <3>1. 1 \in Int /\ h \in Int /\ \A i \in 1 .. h : ms[i] \in S
      BY <1>2
    <3> QED
      BY ONLY <3>1, SubSeqProperties
  <2>2. \A i \in 1 .. h : i \in 1 .. h - 1 + 1 /\ 1 + i - 1 = i
    BY <1>2
  <2>3. Len(a) = h
    BY <1>1, <1>2, <2>1 DEF FirstN
  <2> QED
    BY <1>1, <2>1, <2>2, <2>3 DEF FirstN
<1>4. d \in Seq(S) /\ Len(d) = L - q /\ \A j \in 1 .. L - q : d[j] = ms[q + j]
  <2>1. PICK p : p = q + 1
    OBVIOUS
  <2>2. /\ SubSeq(ms, p, L) \in Seq(S) /\ Len(SubSeq(ms, p, L)) = IF p <= L THEN L - p + 1 ELSE 0
        /\ \A j \in 1 .. L - p + 1 : SubSeq(ms, p, L)[j] = ms[p + j - 1]
    <3>1. p \in Int /\ L \in Int /\ \A i \in p .. L : ms[i] \in S
      BY <1>2, <2>1
    <3> QED
      BY ONLY <3>1, SubSeqProperties
  <2>3. \A j \in 1 .. L - q : j \in 1 .. L - p + 1 /\ p + j - 1 = q + j
    BY <1>2, <2>1
  <2>4. d = SubSeq(ms, p, L)
    BY <1>1, <2>1 DEF From
  <2>5. Len(d) = L - q
    BY <1>2, <2>1, <2>2, <2>4
  <2> QED
    BY <2>2, <2>3, <2>4, <2>5
<1>5. b \in Seq(S) /\ Len(b) = 1 /\ b[1] = y
  BY <1>1
<1>6. PICK e : e = a \o b
  OBVIOUS
<1>7. e \in Seq(S) /\ Len(e) = h + 1 /\ e[h + 1] = y /\ \A i \in 1 .. h : e[i] = a[i]
  <2>1. /\ a \o b \in Seq(S) /\ Len(a \o b) = Len(a) + Len(b)
        /\ \A i \in 1 .. Len(a) + Len(b) : (a \o b)[i] = IF i <= Len(a) THEN a[i] ELSE b[i - Len(a)]
    BY ONLY <1>3, <1>5, ConcatProperties
  <2>2. h + 1 \in 1 .. h + 1 /\ ~(h + 1 <= h) /\ h + 1 - h = 1 /\ \A i \in 1 .. h : i \in 1 .. h + 1 /\ i <= h
    BY <1>2
  <2>3. e \in Seq(S) /\ Len(e) = h + 1 /\ \A i \in 1 .. h + 1 : e[i] = IF i <= h THEN a[i] ELSE b[i - h]
    BY <1>3, <1>5, <1>6, <2>1
  <2> QED
    BY ONLY <1>5, <2>2, <2>3
<1>8. ds = e \o d
  BY <1>1, <1>6 DEF Spliced
<1>9. /\ ds \in Seq(S) /\ Len(ds) = h + 1 + (L - q)
      /\ \A i \in 1 .. h + 1 : ds[i] = e[i] 
      /\ \A j \in 1 .. L - q : ds[h + 1 + j] = d[j]
  <2>1. /\ e \o d \in Seq(S) /\ Len(e \o d) = Len(e) + Len(d)
        /\ \A i \in 1 .. Len(e) + Len(d) : (e \o d)[i] = IF i <= Len(e) THEN e[i] ELSE d[i - Len(e)]
    BY ONLY <1>4, <1>7, ConcatProperties
  <2>2. PICK x, z : x = h + 1 /\ z = L - q
    OBVIOUS
  <2>3. x \in Nat /\ z \in Nat
    BY <1>2, <2>2
  <2>4. ds \in Seq(S) /\ Len(ds) = x + z /\ \A i \in 1 .. x + z : ds[i] = IF i <= x THEN e[i] ELSE d[i - x]
    BY <1>4, <1>7, <1>8, <2>1, <2>2
  <2>5. /\ \A i \in 1 .. x : i \in 1 .. x + z /\ i <= x
        /\ \A j \in 1 .. z : x + j \in 1 .. x + z /\ ~(x + j <= x) /\ x + j - x = j
    BY ONLY <2>3
  <2>6. ASSUME NEW i \in 1 .. x PROVE ds[i] = e[i]
    BY ONLY <2>4, <2>5, <2>6
  <2>7. ASSUME NEW j \in 1 .. z PROVE ds[x + j] = d[j]
    <3>1. PICK k : k = x + j
      OBVIOUS
    <3>2. k \in 1 .. x + z /\ ~(k <= x) /\ k - x = j
      BY ONLY <2>3, <2>7, <3>1
    <3> QED
      BY ONLY <2>4, <3>1, <3>2
  <2> QED
    BY ONLY <2>2, <2>4, <2>6, <2>7
<1>10. ds = a \o (b \o d)
  <2>1. (a \o b) \o d = a \o (b \o d)
    BY ONLY <1>3, <1>4, <1>5, ConcatAssociative
  <2> QED
    BY <1>6, <1>8, <2>1
<1>11. h + 1 \in 1 .. h + 1 /\ \A i \in 1 .. h : i \in 1 .. h + 1
  BY <1>2
<1> QED
  BY ONLY <1>1, <1>3, <1>4, <1>7, <1>9, <1>10, <1>11 DEF SplicedOf

LEMMA SpliceKeeps ==
    ASSUME NEW b \in BOOLEAN, NEW c \in BOOLEAN, b => c, NEW ms, Kept(ms, b), NEW y \in Sound, Sums(y),
           NEW h \in 0 .. Len(ms), NEW q \in 0 .. Len(ms),
           ~c => Results(y) = {} /\ (q < Len(ms) => Results(ms[q + 1]) = {}),
           NEW ds, ds = Spliced(ms, h, y, q)
    PROVE  Kept(ds, c)
<1>1. PICK L : L = Len(ms)
  OBVIOUS
<1>2. L \in Nat /\ ms \in Seq(Sound) /\ h \in 0 .. L /\ q \in 0 .. L
  BY <1>1 DEF Kept
<1>3. /\ ds \in Seq(Sound) /\ Len(ds) = h + 1 + (L - q)
      /\ \A i \in 1 .. h : ds[i] = ms[i]
      /\ ds[h + 1] = y
      /\ \A j \in 1 .. L - q : ds[h + 1 + j] = ms[q + j]
  <2>1. h \in 0 .. Len(ms) /\ q \in 0 .. Len(ms)
    OBVIOUS
  <2>2. SplicedOf(Sound, ms, h, y, q, ds)
    BY ONLY <1>2, <2>1, y \in Sound, ds = Spliced(ms, h, y, q), SplicedIs
  <2> QED
    BY ONLY <1>1, <2>2 DEF SplicedOf
<1>4. /\ \A k \in 1 .. L - 1 : Neighbours(ms[k], ms[k + 1], b)
      /\ L > 0 => Starts(ms[1], b) /\ Stops(ms[L])
  <2>1. KeptByTwos(ms, b)
    BY KeptTwos
  <2> QED
    BY <1>1, <2>1 DEF KeptByTwos
<1>5. PICK M : M = Len(ds)
  OBVIOUS
<1>6. M = h + 1 + (L - q) /\ M \in Nat
  BY <1>2, <1>3, <1>5
<1>7. \A x, z : Neighbours(x, z, b) => Neighbours(x, z, c)
  BY DEF Neighbours
<1>8. ASSUME NEW k \in 1 .. M - 1 PROVE Neighbours(ds[k], ds[k + 1], c)
  <2>1. CASE k < h
    <3>1. k \in 1 .. h /\ k + 1 \in 1 .. h /\ k \in 1 .. L - 1
      BY <1>2, <1>6, <2>1
    <3> QED
      BY <1>3, <1>4, <1>7, <3>1
  <2>2. CASE k = h
    <3>1. ds[k + 1] = y
      BY <1>3, <2>2
    <3>2. ASSUME NEW n \in Results(y) PROVE c
      BY <3>2
    <3> QED
      BY <3>1, <3>2 DEF Neighbours
  <2>3. CASE k = h + 1
    <3>1. 1 \in 1 .. L - q /\ q < L
      BY <1>2, <1>6, <2>3
    <3>2. ds[k] = y /\ ds[k + 1] = ms[q + 1]
      BY <1>3, <2>3, <3>1
    <3>3. ASSUME NEW n \in Results(ms[q + 1]) PROVE c
      BY <1>1, <3>1, <3>3
    <3> QED
      BY <3>2, <3>3 DEF Neighbours
  <2>4. CASE k > h + 1
    <3>1. PICK j : j = k - h - 1
      OBVIOUS
    <3>2. /\ j \in 1 .. L - q /\ j + 1 \in 1 .. L - q /\ q + j \in 1 .. L - 1
          /\ k = h + 1 + j /\ k + 1 = h + 1 + (j + 1) /\ q + (j + 1) = q + j + 1
      BY <1>2, <1>6, <2>4, <3>1
    <3>3. ds[k] = ms[q + j] /\ ds[k + 1] = ms[q + j + 1]
      BY <1>3, <3>2
    <3> QED
      BY <1>4, <1>7, <3>2, <3>3
  <2>5. k < h \/ k = h \/ k = h + 1 \/ k > h + 1
    BY <1>2, <1>6
  <2> QED
    BY <2>1, <2>2, <2>3, <2>4, <2>5
<1>9. Starts(ds[1], c)
  <2>1. CASE h = 0
    <3>1. ds[1] = y
      BY <1>3, <2>1
    <3>2. ASSUME NEW n \in Results(y) PROVE c
      BY <3>2
    <3> QED
      BY <3>1, <3>2 DEF Starts
  <2>2. CASE h # 0
    <3>1. 1 \in 1 .. h /\ L > 0
      BY <1>2, <2>2
    <3> QED
      BY <1>3, <1>4, <3>1 DEF Starts
  <2> QED
    BY <2>1, <2>2
<1>10. Stops(ds[M])
  <2>1. CASE q = L
    <3>1. M = h + 1
      BY <1>2, <1>6, <2>1
    <3> QED
      BY <1>3, <3>1 DEF Stops
  <2>2. CASE q # L
    <3>1. L - q \in 1 .. L - q /\ M = h + 1 + (L - q) /\ q + (L - q) = L /\ L > 0
      BY <1>2, <1>6, <2>2
    <3>2. ds[M] = ms[L]
      BY <1>3, <3>1
    <3> QED
      BY <1>4, <3>1, <3>2
  <2> QED
    BY <2>1, <2>2
<1>11. KeptByTwos(ds, c)
  BY ONLY <1>3, <1>5, <1>8, <1>9, <1>10 DEF KeptByTwos
<1> QED
  BY <1>11, KeptTwos

\* A cut keeps the last message, and parts results from their calls only at its
\* summary.
CutAs(s, cs) ==
    /\ Kept(cs, TRUE) /\ cs # <<>> /\ cs[Len(cs)] = s[Len(s)]
    /\ Len(s) >= 7 => Len(cs) \in {5, 8}

LEMMA CutKeeps ==
    ASSUME NEW b \in BOOLEAN, NEW s, Kept(s, b), s # <<>>, NEW n \in 1 .. 2, NEW role \in {"user", "assistant"},
           NEW m, m = Message(role, "summary", 0), NEW cs, cs = Cut(s, n, m)
    PROVE  CutAs(s, cs)
<1>1. PICK h, t, L : /\ L = Len(s) /\ h = Least(KeepHead(n), L)
                     /\ t = Least(KeepTail(n), Greatest(1, IF L > h THEN L - h ELSE 0))
  OBVIOUS
<1>2. L \in Nat /\ L >= 1 /\ s \in Seq(Sound)
  BY <1>1 DEF Kept
<1>3. h \in 0 .. L /\ t \in 1 .. L /\ L - t \in 0 .. L
  BY <1>1, <1>2 DEF KeepHead, KeepTail, Least, Greatest
<1>4. m \in Sound /\ Sums(m)
  <2> DEFINE p == Block("summary", 0)
  <2>1. p \in Piece /\ p.says = "summary" /\ m = [role |-> role, blocks |-> <<p>>]
    BY DEF Piece, Block, Message
  <2> HIDE DEF p
  <2>2. m.role = role /\ m.blocks \in Seq(Piece) /\ Calls(m) = {} /\ Results(m) = {} /\ Sums(m)
    BY <2>1, Shown DEF ShownAs
  <2> QED
    BY <2>1, <2>2 DEF Sound
<1>5. cs = Spliced(s, h, m, L - t)
  BY <1>1 DEF Cut, Spliced
<1>6. PICK q : q = L - t /\ q \in 0 .. L
  BY <1>3
<1>7. Kept(cs, TRUE)
  BY <1>1, <1>3, <1>4, <1>5, <1>6, SpliceKeeps
<1>8. Len(cs) = h + 1 + (L - q) /\ \A j \in 1 .. L - q : cs[h + 1 + j] = s[q + j]
  <2>1. h \in 0 .. Len(s) /\ q \in 0 .. Len(s) /\ cs = Spliced(s, h, m, q)
    BY <1>1, <1>3, <1>5, <1>6
  <2>2. SplicedOf(Sound, s, h, m, q, cs)
    BY ONLY <1>2, <1>4, <2>1, SplicedIs
  <2> QED
    BY ONLY <1>1, <2>2 DEF SplicedOf
<1>9. L - q = t /\ t \in 1 .. t /\ q + t = L
  BY <1>2, <1>3, <1>6
<1>10. Len(cs) = h + 1 + t /\ cs[h + 1 + t] = s[L]
  BY <1>8, <1>9
<1>11. L >= 7 => h + 1 + t \in {5, 8}
  <2>1. CASE n = 1
    <3>1. KeepHead(n) = 2 /\ KeepTail(n) = 5
      BY <2>1 DEF KeepHead, KeepTail
    <3>2. L >= 7 => h = 2
      BY <1>1, <1>2, <3>1 DEF Least
    <3>3. L >= 7 => t = 5
      <4>1. L >= 7 => Greatest(1, IF L > h THEN L - h ELSE 0) = L - h /\ L - h >= 5 /\ L - h \in Nat
        BY <1>2, <3>2 DEF Greatest
      <4> QED
        BY <1>1, <3>1, <4>1 DEF Least
    <3> QED
      BY <3>2, <3>3
  <2>2. CASE n = 2
    <3>1. KeepHead(n) = 1 /\ KeepTail(n) = 3
      BY <2>2 DEF KeepHead, KeepTail
    <3>2. L >= 7 => h = 1
      BY <1>1, <1>2, <3>1 DEF Least
    <3>3. L >= 7 => t = 3
      <4>1. L >= 7 => Greatest(1, IF L > h THEN L - h ELSE 0) = L - h /\ L - h >= 3 /\ L - h \in Nat
        BY <1>2, <3>2 DEF Greatest
      <4> QED
        BY <1>1, <3>1, <4>1 DEF Least
    <3> QED
      BY <3>2, <3>3
  <2> QED
    BY <2>1, <2>2
<1>12. cs # <<>>
  BY <1>2, <1>3, <1>10
<1> QED
  BY <1>1, <1>7, <1>10, <1>11, <1>12 DEF CutAs

-----------------------------------------------------------------------------
(* Where compaction may cut: never before a result, unless a cut before    *)
(* has parted results from their calls.                                    *)

LEMMA LowestIs ==
    ASSUME NEW S \in SUBSET Nat, S # {}
    PROVE  Lowest(S) \in S
<1>1. PICK k \in S : \A j \in S : k <= j
  BY FirstOfSome
<1> QED
  BY <1>1 DEF Lowest

LEMMA HighestIs ==
    ASSUME NEW n \in Nat, NEW S \in SUBSET (0 .. n), S # {}
    PROVE  Highest(S) \in S /\ \A i \in S : i <= Highest(S)
<1> DEFINE D == {n - i : i \in S}
<1>1. D \in SUBSET Nat /\ D # {}
  <2>1. \A i \in S : n - i \in Nat
    OBVIOUS
  <2>2. PICK i \in S : TRUE
    OBVIOUS
  <2>3. n - i \in D
    OBVIOUS
  <2> QED
    BY <2>1, <2>3
<1>2. PICK d \in D : \A e \in D : d <= e
  <2> HIDE DEF D
  <2> QED
    BY <1>1, FirstOfSome
<1>3. PICK x \in S : d = n - x
  BY <1>2
<1>4. \A i \in S : i <= x
  <2> SUFFICES ASSUME NEW i \in S PROVE i <= x
    OBVIOUS
  <2>1. d <= n - i
    BY <1>2
  <2> QED
    BY <1>3, <2>1
<1> QED
  BY <1>3, <1>4 DEF Highest

\* The last part may start at g.
Clean(ms, g) == g < Len(ms) => g = 0 \/ Results(ms[g + 1]) = {}

LEMMA UsesAndResults ==
    ASSUME NEW m \in Sound
    PROVE  /\ HasToolResult(m) <=> Results(m) # {}
           /\ HasToolUse(m) <=> Calls(m) # {}
           /\ m.role = "assistant" => Results(m) = {}
           /\ m.role = "user" => Calls(m) = {}
           /\ Has(m, {"failed"}) => Results(m) # {}
           /\ m.role \in {"user", "assistant"}
<1>1. /\ Calls(m) # {} => m.role = "assistant"
      /\ Results(m) # {} => m.role = "user"
      /\ m.role \in {"user", "assistant"}
  BY DEF Sound
<1>2. HasToolResult(m) <=> Results(m) # {}
  BY DEF HasToolResult, Has, Results
<1>3. HasToolUse(m) <=> Calls(m) # {}
  BY DEF HasToolUse, Has, Calls
<1>4. Has(m, {"failed"}) => Results(m) # {}
  BY DEF Has, Results
<1> QED
  BY <1>1, <1>2, <1>3, <1>4

LEMMA SafeBoundary ==
    ASSUME NEW ms \in Seq(Sound), NEW i \in Nat, NEW g, g = findSafeBoundary(ms, i)
    PROVE  g \in Nat /\ g <= i /\ Clean(ms, g)
<1>1. CASE i >= Len(ms)
  BY <1>1 DEF findSafeBoundary, Clean
<1>2. CASE ~(i >= Len(ms))
  <2> DEFINE S == {0} \cup {j \in 1 .. i : ~HasToolResult(At(ms, j)) \/ HasToolUse(At(ms, j))}
  <2>1. g = Highest(S)
    BY <1>2 DEF findSafeBoundary
  <2>2. S \in SUBSET (0 .. i) /\ S # {}
    OBVIOUS
  <2>3. g \in S
    <3> HIDE DEF S
    <3> QED
      BY <2>1, <2>2, HighestIs
  <2>4. g \in 0 .. i /\ (g = 0 \/ ~HasToolResult(ms[g + 1]) \/ HasToolUse(ms[g + 1]))
    BY <2>2, <2>3 DEF At
  <2>5. g < Len(ms) => ms[g + 1] \in Sound
    BY <2>4
  <2>6. g < Len(ms) => g = 0 \/ Results(ms[g + 1]) = {}
    <3> SUFFICES ASSUME g < Len(ms), g # 0 PROVE Results(ms[g + 1]) = {}
      OBVIOUS
    <3>1. PICK m : m = ms[g + 1] /\ m \in Sound
      BY <2>5
    <3> QED
      BY <2>4, <3>1, UsesAndResults
  <2> QED
    BY <2>4, <2>6 DEF Clean
<1> QED
  BY <1>1, <1>2

LEMMA FailureAnchor ==
    ASSUME NEW c \in BOOLEAN, NEW ms, Kept(ms, c), NEW start \in Nat, ~c => Clean(ms, start),
           NEW g, g = findRecentFailureAnchor(ms, start)
    PROVE  g \in Nat /\ g <= start /\ (~c => Clean(ms, g))
<1> DEFINE failures == {i \in 0 .. Len(ms) - 1 : Has(At(ms, i), {"failed"})}
           recent   == {i \in failures : Cardinality({j \in failures : j > i}) < FailureAnchorDepth}
           oldest   == Lowest(recent)
           called   == oldest > 0 /\ At(ms, oldest - 1).role = "assistant" /\ HasToolUse(At(ms, oldest - 1))
<1>1. ms \in Seq(Sound) /\ Len(ms) \in Nat
  BY DEF Kept
<1>2. CASE failures = {}
  <2>1. g = start
    BY <1>2 DEF findRecentFailureAnchor
  <2> QED
    BY <2>1
<1>3. CASE failures # {}
  <2>1. g = Least(start, IF called THEN oldest - 1 ELSE oldest)
    BY <1>3 DEF findRecentFailureAnchor
  <2>2. failures \in SUBSET (0 .. Len(ms)) /\ failures \in SUBSET Nat
    BY <1>1
  <2>3. recent # {}
    <3> HIDE DEF failures
    <3>1. PICK i \in failures : \A j \in failures : j <= i
      BY <1>1, <1>3, <2>2, HighestIs
    <3>2. {j \in failures : j > i} = {}
      <4>1. ASSUME NEW j \in failures, j > i PROVE FALSE
        <5>1. i \in Nat /\ j \in Nat /\ j <= i
          BY <2>2, <3>1
        <5> QED
          BY ONLY <4>1, <5>1
      <4> QED
        BY <4>1
    <3>3. Cardinality({j \in failures : j > i}) = 0
      BY <3>2, FS_EmptySet
    <3>4. FailureAnchorDepth \in Nat \ {0}
      BY HistoryAssumption
    <3> QED
      BY <3>1, <3>3, <3>4
  <2>4. oldest \in failures
    <3> HIDE DEF failures
    <3>1. recent \in SUBSET Nat
      BY <2>2
    <3>2. oldest \in recent
      <4> HIDE DEF recent
      <4> QED
        BY <2>3, <3>1, LowestIs
    <3> QED
      BY <3>2
  <2> HIDE DEF oldest
  <2>5. oldest \in 0 .. Len(ms) - 1 /\ Has(ms[oldest + 1], {"failed"})
    BY <2>4 DEF At
  <2> HIDE DEF failures, recent
  <2>6. oldest + 1 \in 1 .. Len(ms) /\ oldest \in Nat /\ oldest + 1 - 1 = oldest
    BY <1>1, <2>5
  <2>7. ~c => called
    <3> SUFFICES ASSUME ~c PROVE called
      OBVIOUS
    <3>1. PICK m : m = ms[oldest + 1] /\ m \in Sound /\ Has(m, {"failed"})
      BY <1>1, <2>5, <2>6
    <3>2. PICK n : n \in Results(m)
      BY <3>1, UsesAndResults
    <3>3. oldest + 1 > 1 /\ n \in Calls(ms[oldest])
      BY <2>6, <3>1, <3>2 DEF Kept, AfterCall
    <3>4. oldest - 1 + 1 = oldest /\ oldest > 0 /\ oldest \in 1 .. Len(ms)
      BY <1>1, <2>6, <3>3
    <3>5. PICK p : p = ms[oldest] /\ p \in Sound
      BY <1>1, <3>4
    <3>6. HasToolUse(p) /\ p.role = "assistant"
      BY <3>3, <3>5, UsesAndResults
    <3> QED
      BY <3>4, <3>5, <3>6 DEF At
  <2>8. called => oldest - 1 \in Nat /\ Clean(ms, oldest - 1)
    <3> SUFFICES ASSUME called PROVE oldest - 1 \in Nat /\ Clean(ms, oldest - 1)
      OBVIOUS
    <3>1. oldest - 1 \in Nat /\ oldest - 1 + 1 = oldest /\ oldest \in 1 .. Len(ms)
      BY <1>1, <2>6
    <3>2. PICK p : p = ms[oldest] /\ p \in Sound
      BY <1>1, <3>1
    <3>3. p.role = "assistant"
      BY <3>1, <3>2 DEF At
    <3>4. Results(p) = {}
      BY <3>2, <3>3, UsesAndResults
    <3> QED
      BY <3>1, <3>2, <3>4 DEF Clean
  <2> HIDE DEF called
  <2>9. PICK a : a = IF called THEN oldest - 1 ELSE oldest
    OBVIOUS
  <2>10. a \in Nat /\ (~c => Clean(ms, a))
    BY <2>6, <2>7, <2>8, <2>9
  <2>11. g = Least(start, a)
    BY <2>1, <2>9
  <2>12. (g = start \/ g = a) /\ g <= start
    BY <2>10, <2>11 DEF Least
  <2> QED
    BY <2>10, <2>12
<1> QED
  BY <1>2, <1>3

LEMMA PendingAnchor ==
    ASSUME NEW ms \in Seq(Sound), NEW start \in Nat, NEW g, g = findPendingToolAnchor(ms, start)
    PROVE  g = start \/ (g \in Nat /\ g < start /\ Clean(ms, g))
<1> DEFINE resolved == UNION {Results(At(ms, i)) : i \in {j \in 0 .. Len(ms) - 1 : j >= start}}
           waiting  == {i \in 0 .. Len(ms) - 1 : /\ i < start /\ i + PendingWindow >= start
                                                /\ At(ms, i).role = "assistant"
                                                /\ ~(Calls(At(ms, i)) \subseteq resolved)}
<1>1. g = IF waiting = {} THEN start ELSE Highest(waiting)
  BY DEF findPendingToolAnchor
<1> HIDE DEF resolved
<1>2. CASE waiting # {}
  <2>1. waiting \in SUBSET (0 .. Len(ms)) /\ Len(ms) \in Nat
    OBVIOUS
  <2>2. g \in waiting
    <3> HIDE DEF waiting
    <3> QED
      BY <1>1, <1>2, <2>1, HighestIs
  <2>3. g \in 0 .. Len(ms) - 1 /\ g < start /\ ms[g + 1].role = "assistant"
    BY <2>2 DEF At
  <2>4. PICK m : m = ms[g + 1] /\ m \in Sound
    BY <2>3
  <2>5. Results(m) = {}
    BY <2>3, <2>4, UsesAndResults
  <2> QED
    BY <2>3, <2>4, <2>5 DEF Clean
<1> HIDE DEF waiting
<1> QED
  BY <1>1, <1>2

LEMMA StartOfLastPart ==
    ASSUME NEW c \in BOOLEAN, NEW ms, Kept(ms, c), NEW s, s = LastPartStart(ms)
    PROVE  /\ s \in Nat /\ (~c => Clean(ms, s))
           /\ Len(ms) > KeepFirst + 1 => s < Len(ms)
           /\ Len(ms) = KeepFirst + 1 => s <= Len(ms)
<1>1. PICK L : L = Len(ms) /\ L \in Nat /\ ms \in Seq(Sound)
  BY DEF Kept
<1>2. KeepFirst \in Nat /\ KeepLast \in Nat \ {0}
  BY HistoryAssumption
<1>3. PICK t : t = Greatest(KeepFirst + 1, IF L > KeepLast THEN L - KeepLast ELSE 0)
  OBVIOUS
<1>4. t \in Nat /\ (L > KeepFirst + 1 => t < L) /\ (L = KeepFirst + 1 => t <= L)
  BY <1>1, <1>2, <1>3 DEF Greatest
<1>5. PICK g, f : g = findSafeBoundary(ms, t) /\ f = findRecentFailureAnchor(ms, g)
  OBVIOUS
<1>6. s = findPendingToolAnchor(ms, f)
  BY <1>1, <1>3, <1>5 DEF LastPartStart
<1>7. g \in Nat /\ g <= t /\ Clean(ms, g)
  BY <1>1, <1>4, <1>5, SafeBoundary
<1>8. f \in Nat /\ f <= g /\ (~c => Clean(ms, f))
  BY <1>5, <1>7, FailureAnchor
<1>9. s = f \/ (s \in Nat /\ s < f /\ Clean(ms, s))
  BY <1>1, <1>6, <1>8, PendingAnchor
<1>10. s \in Nat /\ s <= t /\ (~c => Clean(ms, s))
  BY <1>4, <1>7, <1>8, <1>9
<1> QED
  BY <1>1, <1>2, <1>4, <1>10

\* Compaction keeps a history, and its last message but where the whole of what
\* follows the first ones is summarised.
CompactedAs(ms, cs, c) ==
    /\ Kept(cs, c) /\ cs # <<>> /\ Len(cs) <= Len(ms)
    /\ Len(ms) # KeepFirst + 1 =>
          /\ cs[Len(cs)].role = ms[Len(ms)].role
          /\ ToSet(ms[Len(ms)].blocks) \subseteq ToSet(cs[Len(cs)].blocks)

LEMMA SummaryIs ==
    ASSUME NEW m, m = [role |-> "user", blocks |-> <<Summary>>]
    PROVE  /\ m \in Sound /\ m.role = "user" /\ m.blocks = <<Summary>>
           /\ Sums(m) /\ Results(m) = {} /\ Calls(m) = {}
<1> DEFINE p == Summary
<1>1. p \in Piece /\ p.says = "summary"
  BY DEF Piece, Block, Summary
<1> HIDE DEF p
<1>2. /\ m.role = "user" /\ m.blocks = <<p>> /\ m.blocks \in Seq(Piece)
      /\ Sums(m) /\ Results(m) = {} /\ Calls(m) = {}
  BY <1>1, Shown DEF ShownAs, p
<1>3. m \in Sound
  BY <1>2 DEF Sound
<1> QED
  BY <1>2, <1>3 DEF p

LEMMA CompactKeeps ==
    ASSUME NEW c \in BOOLEAN, NEW ms, Kept(ms, c), ms # <<>>, NEW cs, cs = Compacted(ms)
    PROVE  CompactedAs(ms, cs, c)
<1>1. PICK L, s, last : L = Len(ms) /\ s = LastPartStart(ms) /\ last = From(ms, s)
  OBVIOUS
<1>2. L \in Nat /\ L >= 1 /\ ms \in Seq(Sound) /\ \A i \in 1 .. L : ms[i] \in Sound
  BY <1>1 DEF Kept
<1>3. KeepFirst \in Nat
  BY HistoryAssumption
<1>4. /\ s \in Nat /\ (~c => Clean(ms, s))
      /\ L > KeepFirst + 1 => s < L
      /\ L = KeepFirst + 1 => s <= L
  BY <1>1, StartOfLastPart
<1>5. CASE Slice(ms, KeepFirst, s) = <<>>
  <2>1. cs = ms
    BY <1>1, <1>5 DEF Compacted
  <2> QED
    BY <1>1, <1>2, <2>1 DEF CompactedAs
<1>6. CASE Slice(ms, KeepFirst, s) # <<>>
  <2>1. KeepFirst < s /\ KeepFirst < L
    <3>1. PICK e : e = Least(s, L)
      OBVIOUS
    <3>2. e \in Nat /\ e <= s /\ e <= L
      BY <1>2, <1>4, <3>1 DEF Least
    <3>3. ASSUME ~(KeepFirst < e) PROVE FALSE
      <4>1. e < KeepFirst + 1 /\ KeepFirst + 1 \in Int /\ e \in Int
        BY <1>3, <3>2, <3>3
      <4>2. SubSeq(ms, KeepFirst + 1, e) = <<>>
        BY ONLY <4>1, SubSeqEmpty
      <4> QED
        BY <1>1, <1>6, <3>1, <4>2 DEF Slice
    <3> QED
      BY <1>2, <1>3, <1>4, <3>2, <3>3
  <2>2. s <= L /\ s > 0 /\ KeepFirst \in 0 .. L /\ s \in 0 .. L
    BY <1>2, <1>3, <1>4, <2>1
  <2>3. ~c /\ s < L => Results(ms[s + 1]) = {}
    BY <1>1, <1>4, <2>2 DEF Clean
  <2>4. last = SubSeq(ms, s + 1, L)
    BY <1>1 DEF From
  <2>5. s < L => last # <<>> /\ last[1] = ms[s + 1] /\ Tail(last) = From(ms, s + 1)
    <3> SUFFICES ASSUME s < L PROVE last # <<>> /\ last[1] = ms[s + 1] /\ Tail(last) = From(ms, s + 1)
      OBVIOUS
    <3>1. PICK p : p = s + 1
      OBVIOUS
    <3>2. p \in 1 .. Len(ms) /\ Len(ms) \in p .. Len(ms) /\ L = Len(ms)
      BY <1>1, <1>2, <1>4, <3>1
    <3>3. Tail(SubSeq(ms, p, Len(ms))) = SubSeq(ms, p + 1, Len(ms))
      BY ONLY <1>2, <3>2, HeadTailOfSubSeq
    <3>4. /\ Len(SubSeq(ms, p, L)) = IF p <= L THEN L - p + 1 ELSE 0
          /\ \A i \in 1 .. L - p + 1 : SubSeq(ms, p, L)[i] = ms[p + i - 1]
      <4>1. p \in Int /\ L \in Int /\ \A i \in p .. L : ms[i] \in Sound
        BY <1>2, <3>2
      <4> QED
        BY ONLY <4>1, SubSeqProperties
    <3>5. 1 \in 1 .. L - p + 1 /\ p + 1 - 1 = p /\ p <= L /\ L - p + 1 > 0
      BY <1>2, <3>2
    <3>6. Len(last) > 0 /\ last[1] = ms[p]
      BY <2>4, <3>1, <3>4, <3>5
    <3>7. last # <<>>
      BY <3>6
    <3> QED
      BY <2>4, <3>1, <3>2, <3>3, <3>6, <3>7 DEF From
  <2>6. s = L => last = <<>>
    <3> SUFFICES ASSUME s = L PROVE last = <<>>
      OBVIOUS
    <3>1. L < L + 1 /\ L + 1 \in Int /\ L \in Int
      BY <1>2
    <3>2. SubSeq(ms, L + 1, L) = <<>>
      BY ONLY <3>1, SubSeqEmpty
    <3> QED
      BY <2>4, <3>2
  <2>7. PICK x : x = [role |-> "user", blocks |-> <<Summary>>]
    OBVIOUS
  <2>8. x \in Sound /\ x.role = "user" /\ x.blocks = <<Summary>> /\ Sums(x) /\ Results(x) = {} /\ Calls(x) = {}
    BY <2>7, SummaryIs
  <2>9. CASE s < L /\ ms[s + 1].role = "user"
    <3>1. PICK m, y, q : m = ms[s + 1] /\ y = GoesOn(x, m) /\ q = s + 1
      OBVIOUS
    <3>2. m \in Sound /\ m.role = "user" /\ q \in 0 .. L /\ L - q \in Nat /\ q = s + 1
      BY <1>2, <1>4, <2>9, <3>1
    <3>3. /\ y \in Sound /\ y.role = "user" /\ ToSet(y.blocks) = ToSet(x.blocks) \cup ToSet(m.blocks)
          /\ Results(y) = Results(x) \cup Results(m) /\ (Sums(y) <=> Sums(x) \/ Sums(m))
      <4>1. x \in Sound /\ m \in Sound /\ x.role = m.role /\ y = GoesOn(x, m)
        BY <2>8, <3>1, <3>2
      <4>2. /\ y \in Sound /\ y.role = x.role /\ ToSet(y.blocks) = ToSet(x.blocks) \cup ToSet(m.blocks)
            /\ Results(y) = Results(x) \cup Results(m) /\ (Sums(y) <=> Sums(x) \/ Sums(m))
        BY ONLY <4>1, Merged
      <4> QED
        BY <2>8, <4>2
    <3>4. y = [last[1] EXCEPT !.blocks = <<Summary>> \o @]
      <4>1. m \in [role : {"user", "assistant"}, blocks : Seq(Piece)]
        BY <3>2 DEF Sound
      <4>2. y = [role |-> "user", blocks |-> x.blocks \o m.blocks]
        BY <2>7, <3>1 DEF GoesOn
      <4>3. [m EXCEPT !.blocks = <<Summary>> \o @] = [role |-> "user", blocks |-> <<Summary>> \o m.blocks]
        <5>1. PICK bs : bs = m.blocks
          OBVIOUS
        <5>2. m = [role |-> "user", blocks |-> bs]
          BY ONLY <3>2, <4>1, <5>1
        <5>3. PICK z : z = <<Summary>> \o bs
          OBVIOUS
        <5>4. [m EXCEPT !.blocks = <<Summary>> \o @] = [m EXCEPT !.blocks = z]
          BY ONLY <5>1, <5>3
        <5>5. [[role |-> "user", blocks |-> bs] EXCEPT !.blocks = z] = [role |-> "user", blocks |-> z]
          OBVIOUS
        <5> QED
          BY ONLY <5>1, <5>2, <5>3, <5>4, <5>5
      <4> QED
        BY <2>5, <2>8, <2>9, <3>1, <4>2, <4>3
    <3>5. cs = FirstN(ms, KeepFirst) \o (<<y>> \o From(ms, q))
      BY <1>1, <1>6, <2>5, <2>9, <3>1, <3>4 DEF Compacted
    <3>6. PICK ds : ds = Spliced(ms, KeepFirst, y, q)
      OBVIOUS
    <3>7. SplicedOf(Sound, ms, KeepFirst, y, q, ds)
      BY ONLY <1>1, <1>2, <2>2, <3>2, <3>3, <3>6, SplicedIs
    <3>8. cs = ds /\ Len(cs) = KeepFirst + 1 + (L - q) /\ cs[KeepFirst + 1] = y
          /\ \A j \in 1 .. L - q : cs[KeepFirst + 1 + j] = ms[q + j]
      BY ONLY <1>1, <3>5, <3>7 DEF SplicedOf
    <3>9. ~c => Results(y) = {} /\ (q < Len(ms) => Results(ms[q + 1]) = {})
      <4> SUFFICES ASSUME ~c PROVE Results(y) = {} /\ (q < Len(ms) => Results(ms[q + 1]) = {})
        OBVIOUS
      <4>1. Results(y) = {}
        BY <2>3, <2>8, <2>9, <3>1, <3>3
      <4>2. ASSUME q < L PROVE Results(ms[q + 1]) = {}
        <5>1. q \in 1 .. L - 1
          BY <1>2, <1>4, <3>2, <4>2
        <5>2. KeptByTwos(ms, c)
          BY KeptTwos
        <5>3. Neighbours(ms[q], ms[q + 1], c)
          BY <1>1, <5>1, <5>2 DEF KeptByTwos
        <5>4. Calls(ms[q]) = {}
          BY <3>1, <3>2, UsesAndResults
        <5> QED
          BY <5>3, <5>4 DEF Neighbours
      <4> QED
        BY <1>1, <4>1, <4>2
    <3>10. Kept(cs, c)
      <4>1. q \in 0 .. Len(ms) /\ KeepFirst \in 0 .. Len(ms) /\ Sums(y) /\ y \in Sound
        BY <1>1, <2>2, <2>8, <3>2, <3>3
      <4>2. Kept(ds, c)
        BY ONLY c \in BOOLEAN, Kept(ms, c), <3>6, <3>9, <4>1, SpliceKeeps
      <4> QED
        BY <3>8, <4>2
    <3>11. Len(cs) <= L /\ Len(cs) > 0
      BY <1>2, <1>3, <1>4, <2>1, <3>2, <3>8
    <3>12. cs[Len(cs)].role = ms[L].role /\ ToSet(ms[L].blocks) \subseteq ToSet(cs[Len(cs)].blocks)
      <4>1. CASE q = L
        <5>1. Len(cs) = KeepFirst + 1
          BY <1>2, <1>3, <3>8, <4>1
        <5>2. cs[Len(cs)] = y /\ ms[L] = m
          BY <3>1, <3>8, <4>1, <5>1
        <5> QED
          BY <3>2, <3>3, <5>2
      <4>2. CASE q # L
        <5>1. L - q \in 1 .. L - q /\ q + (L - q) = L
          BY <1>2, <3>2, <4>2
        <5>2. cs[Len(cs)] = ms[L]
          BY <3>8, <5>1
        <5> QED
          BY <5>2
      <4> QED
        BY <4>1, <4>2
    <3> QED
      BY <1>1, <3>10, <3>11, <3>12 DEF CompactedAs
  <2>10. CASE ~(s < L /\ ms[s + 1].role = "user")
    <3>1. cs = FirstN(ms, KeepFirst) \o (<<x>> \o last)
      <4>1. ~(last # <<>> /\ last[1].role = "user")
        <5>1. s < L \/ s = L
          BY <1>2, <1>4, <2>2
        <5> QED
          BY <2>5, <2>6, <2>10, <5>1
      <4> QED
        BY <1>1, <1>6, <2>7, <4>1 DEF Compacted
    <3>2. PICK ds : ds = Spliced(ms, KeepFirst, x, s)
      OBVIOUS
    <3>3. SplicedOf(Sound, ms, KeepFirst, x, s, ds)
      BY ONLY <1>1, <1>2, <2>2, <2>8, <3>2, SplicedIs
    <3>4. cs = ds /\ Len(cs) = KeepFirst + 1 + (L - s)
          /\ \A j \in 1 .. L - s : cs[KeepFirst + 1 + j] = ms[s + j]
      BY ONLY <1>1, <3>1, <3>3 DEF SplicedOf
    <3>5. Kept(cs, c)
      <4>1. s \in 0 .. Len(ms) /\ KeepFirst \in 0 .. Len(ms)
        BY <1>1, <2>2
      <4>2. ~c => Results(x) = {} /\ (s < Len(ms) => Results(ms[s + 1]) = {})
        BY <1>1, <2>3, <2>8
      <4>3. Kept(ds, c)
        BY ONLY c \in BOOLEAN, Kept(ms, c), <2>8, <3>2, <4>1, <4>2, SpliceKeeps
      <4> QED
        BY <3>4, <4>3
    <3>6. Len(cs) <= L /\ Len(cs) > 0
      BY <1>2, <1>3, <1>4, <2>1, <2>2, <3>4
    <3>7. ASSUME L # KeepFirst + 1 PROVE cs[Len(cs)] = ms[L]
      <4>1. s < L
        BY <1>2, <1>3, <1>4, <2>1, <3>7
      <4>2. L - s \in 1 .. L - s /\ s + (L - s) = L
        BY <1>2, <1>4, <4>1
      <4> QED
        BY <3>4, <4>2
    <3>8. cs # <<>>
      BY <3>6
    <3> QED
      BY <1>1, <3>5, <3>6, <3>7, <3>8 DEF CompactedAs
  <2> QED
    BY <2>9, <2>10
<1> QED
  BY <1>5, <1>6

-----------------------------------------------------------------------------
(* The invariant of a request: the client's history, the messages that were *)
(* made of it and the contents made of those are kept, and end with what    *)
(* the user said last.                                                      *)

\* A result may be parted from its call once contents have been cut.
MayPart == IF compactionCount = 0 THEN FALSE ELSE TRUE

HistoryKept ==
    /\ Kept(hist, FALSE) /\ Len(hist) = 2 * turns + 1
    /\ hist[Len(hist)].role = "user" /\ hist[Len(hist)].blocks # <<>>

MessagesKept ==
    /\ Kept(messages, MayPart) /\ messages # <<>>
    /\ messages = hist \/ (compactionCount > 0 /\ Len(messages) \in {5, 8})
    /\ messages[Len(messages)] = hist[Len(hist)]

LatestSent ==
    ~LastIsFirstAfterKept =>
        ToSet(hist[Len(hist)].blocks) \subseteq ToSet(contents[Len(contents)].blocks)

ContentsKept ==
    /\ Kept(contents, MayPart) /\ Alternates(contents) /\ contents # <<>>
    /\ contents[1].role = "user" /\ contents[Len(contents)].role = "user"
    /\ compactionCount = 0 => Len(contents) <= Len(hist) + 2
    /\ LatestSent

HistoryInv ==
    /\ turns \in Nat /\ compactionCount \in 0 .. MAX_EMERGENCY_COMPACTIONS /\ at \in {"idle", "compact", "call"}
    /\ HistoryKept
    /\ compactionCount > 0 => Len(hist) >= 7
    /\ at = "compact" => MessagesKept
    /\ at = "call" => ContentsKept

\* A message of the client's history.
SaidAs(m, role, says, n) ==
    /\ m \in Sound /\ m.role = role /\ m.blocks # <<>> /\ ToSet(m.blocks) = {Block(says, n)}
    /\ Calls(m) = IF says = "call" THEN {n} ELSE {}
    /\ Results(m) = IF says \in {"result", "failed"} THEN {n} ELSE {}

LEMMA ClientMessage ==
    ASSUME NEW n \in Nat, NEW role \in {"user", "assistant"}, NEW says \in {"text", "call", "result", "failed"},
           says = "call" => role = "assistant", says \in {"result", "failed"} => role = "user",
           NEW m, m = Message(role, says, n)
    PROVE  SaidAs(m, role, says, n)
<1> DEFINE p == Block(says, n)
<1>1. p \in Piece /\ p.says = says /\ p.turn = n /\ m = [role |-> role, blocks |-> <<p>>]
  BY DEF Piece, Block, Message
<1> HIDE DEF p
<1>2. /\ m.role = role /\ m.blocks = <<p>> /\ ToSet(m.blocks) = {p} /\ m.blocks \in Seq(Piece)
      /\ Calls(m) = IF says = "call" THEN {n} ELSE {}
      /\ Results(m) = IF says \in {"result", "failed"} THEN {n} ELSE {}
  <2>1. ShownAs(m, role, p)
    BY ONLY <1>1, Shown
  <2> QED
    BY <1>1, <2>1 DEF ShownAs
<1>3. m \in [role : {"user", "assistant"}, blocks : Seq(Piece)]
  BY <1>1, <1>2
<1>4. m \in Sound
  BY <1>2, <1>3 DEF Sound
<1>5. m.blocks # <<>>
  BY <1>2
<1> QED
  BY <1>2, <1>4, <1>5 DEF SaidAs, p

LEMMA HistoryGrows ==
    ASSUME NEW h, Kept(h, FALSE), h # <<>>, h[Len(h)].role = "user", NEW n \in Nat, NEW kind \in Kinds,
           NEW g, g = h \o Turn(n, kind)
    PROVE  /\ Kept(g, FALSE) /\ Len(g) = Len(h) + 2
           /\ g[Len(g)].role = "user" /\ g[Len(g)].blocks # <<>>
<1>1. PICK L : L = Len(h) /\ L \in Nat /\ L >= 1 /\ h \in Seq(Sound)
  BY DEF Kept
<1>2. PICK sa, su : /\ sa = IF kind = "talk" THEN "text" ELSE "call"
                    /\ su = IF kind \in {"result", "failed"} THEN kind ELSE "text"
  OBVIOUS
<1>3. PICK a, u : a = Message("assistant", sa, n) /\ u = Message("user", su, n)
  OBVIOUS
<1>4. sa \in {"text", "call"} /\ su \in {"text", "result", "failed"}
  BY <1>2
<1>5. /\ a \in Sound /\ a.role = "assistant" /\ Calls(a) = (IF sa = "call" THEN {n} ELSE {}) /\ Results(a) = {}
  <2>1. SaidAs(a, "assistant", sa, n)
    BY <1>3, <1>4, ClientMessage
  <2> QED
    BY <1>4, <2>1 DEF SaidAs
<1>6. /\ u \in Sound /\ u.role = "user" /\ u.blocks # <<>> /\ ToSet(u.blocks) = {Block(su, n)} /\ Calls(u) = {}
      /\ Results(u) = IF su \in {"result", "failed"} THEN {n} ELSE {}
  <2>1. SaidAs(u, "user", su, n)
    BY <1>3, <1>4, ClientMessage
  <2> QED
    BY <1>4, <2>1 DEF SaidAs
<1>7. Neighbours(a, u, FALSE) /\ Stops(u)
  <2>1. ASSUME NEW i \in Results(u) PROVE i \in Calls(a)
    BY <1>2, <1>5, <1>6, <2>1
  <2>2. ASSUME NEW i \in Calls(a) PROVE Answers(u, i)
    <3>1. i = n
      BY <1>5, <2>2
    <3> QED
      BY <1>4, <1>6, <3>1 DEF Answers
  <2> QED
    BY <1>6, <2>1, <2>2 DEF Neighbours, Stops
<1>8. Neighbours(h[L], a, FALSE)
  <2>1. h[L] \in Sound /\ h[L].role = "user"
    BY <1>1
  <2>2. Calls(h[L]) = {}
    BY <2>1, UsesAndResults
  <2> QED
    BY <1>5, <2>2 DEF Neighbours
<1>9. /\ g \in Seq(Sound) /\ Len(g) = L + 2 /\ g[L + 1] = a /\ g[L + 2] = u
      /\ \A k \in 1 .. L : g[k] = h[k]
  <2>1. PICK b : b = <<a, u>>
    OBVIOUS
  <2>2. b \in Seq(Sound) /\ Len(b) = 2 /\ b[1] = a /\ b[2] = u
    BY <1>5, <1>6, <2>1
  <2>3. /\ h \o b \in Seq(Sound) /\ Len(h \o b) = Len(h) + Len(b)
        /\ \A i \in 1 .. Len(h) + Len(b) : (h \o b)[i] = IF i <= Len(h) THEN h[i] ELSE b[i - Len(h)]
    BY ONLY <1>1, <2>2, ConcatProperties
  <2>4. g = h \o b
    BY <1>2, <1>3, <2>1 DEF Turn
  <2>5. g \in Seq(Sound) /\ Len(g) = L + 2 /\ \A i \in 1 .. L + 2 : g[i] = IF i <= L THEN h[i] ELSE b[i - L]
    BY <1>1, <2>2, <2>3, <2>4
  <2>6. \A k \in 1 .. L : k \in 1 .. L + 2 /\ k <= L
    BY <1>1
  <2>7. g[L + 1] = a
    <3>1. PICK k : k = L + 1
      OBVIOUS
    <3>2. L \in Nat
      BY <1>1
    <3>3. k \in 1 .. L + 2 /\ ~(k <= L) /\ k - L = 1
      BY ONLY <3>1, <3>2
    <3>4. g[k] = IF k <= L THEN h[k] ELSE b[k - L]
      BY ONLY <2>5, <3>3
    <3> QED
      BY ONLY <2>2, <3>1, <3>3, <3>4
  <2>8. g[L + 2] = u
    <3>1. PICK k : k = L + 2
      OBVIOUS
    <3>2. L \in Nat
      BY <1>1
    <3>3. k \in 1 .. L + 2 /\ ~(k <= L) /\ k - L = 2
      BY ONLY <3>1, <3>2
    <3>4. g[k] = IF k <= L THEN h[k] ELSE b[k - L]
      BY ONLY <2>5, <3>3
    <3> QED
      BY ONLY <2>2, <3>1, <3>3, <3>4
  <2>9. \A k \in 1 .. L : g[k] = h[k]
    BY ONLY <2>5, <2>6
  <2> QED
    BY ONLY <2>5, <2>7, <2>8, <2>9
<1>10. KeptByTwos(h, FALSE)
  BY KeptTwos
<1>11. ASSUME NEW k \in 1 .. L + 2 - 1 PROVE Neighbours(g[k], g[k + 1], FALSE)
  <2>1. CASE k = L + 1
    <3>1. k + 1 = L + 2
      BY <1>1, <2>1
    <3> QED
      BY <1>7, <1>9, <2>1, <3>1
  <2>2. CASE k = L
    <3>1. k \in 1 .. L
      BY <1>1, <2>2
    <3> QED
      BY <1>8, <1>9, <2>2, <3>1
  <2>3. CASE k < L
    <3>1. k \in 1 .. L - 1 /\ k \in 1 .. L /\ k + 1 \in 1 .. L
      BY <1>1, <2>3
    <3> QED
      BY <1>1, <1>9, <1>10, <3>1 DEF KeptByTwos
  <2>4. k = L + 1 \/ k = L \/ k < L
    <3>1. k \in Nat /\ k <= L + 1
      BY <1>1
    <3> QED
      BY ONLY <1>1, <3>1
  <2> QED
    BY <2>1, <2>2, <2>3, <2>4
<1>12. Starts(g[1], FALSE)
  <2>1. 1 \in 1 .. L
    BY <1>1
  <2>2. Starts(h[1], FALSE)
    <3>1. Len(h) > 0
      BY <1>1
    <3> QED
      BY ONLY <1>10, <3>1 DEF KeptByTwos
  <2>3. g[1] = h[1]
    BY <1>9, <2>1
  <2> QED
    BY <2>2, <2>3
<1>13. KeptByTwos(g, FALSE)
  <2>1. Stops(g[Len(g)])
    BY <1>7, <1>9
  <2>2. \A k \in 1 .. Len(g) - 1 : Neighbours(g[k], g[k + 1], FALSE)
    <3>1. Len(g) - 1 = L + 2 - 1
      <4>1. Len(g) = L + 2 /\ L \in Nat
        BY <1>1, <1>9
      <4> QED
        BY ONLY <4>1
    <3> QED
      BY ONLY <1>11, <3>1
  <2> QED
    BY ONLY <1>9, <1>12, <2>1, <2>2 DEF KeptByTwos
<1>14. Kept(g, FALSE)
  BY <1>13, KeptTwos
<1> QED
  BY <1>1, <1>6, <1>9, <1>14

LEMMA HistoryStart == Init => HistoryInv
<1> SUFFICES ASSUME Init PROVE HistoryInv
  OBVIOUS
<1>1. PICK m : m = Message("user", "text", 0) /\ hist = <<m>>
  BY DEF Init
<1>2. SaidAs(m, "user", "text", 0)
  BY <1>1, ClientMessage
<1>3. m \in Sound /\ m.role = "user" /\ m.blocks # <<>> /\ Calls(m) = {} /\ Results(m) = {}
  BY <1>2 DEF SaidAs
<1>4. hist \in Seq(Sound) /\ Len(hist) = 1 /\ hist[1] = m
  BY <1>1, <1>3
<1>5. KeptByTwos(hist, FALSE)
  BY <1>3, <1>4 DEF KeptByTwos, Starts, Stops
<1>6. Kept(hist, FALSE)
  BY <1>5, KeptTwos
<1>7. turns = 0 /\ compactionCount = 0 /\ at = "idle"
  BY DEF Init
<1>8. HistoryKept
  <2>1. Len(hist) = 2 * turns + 1
    BY <1>4, <1>7
  <2>2. hist[Len(hist)] = m
    BY <1>4
  <2> QED
    BY <1>3, <1>6, <2>1, <2>2 DEF HistoryKept
<1> QED
  BY <1>7, <1>8 DEF HistoryInv, MAX_EMERGENCY_COMPACTIONS

\* More may be parted than was.
LEMMA KeptMore ==
    ASSUME NEW c \in BOOLEAN, NEW ms, Kept(ms, FALSE)
    PROVE  Kept(ms, c)
BY DEF Kept, AfterCall

\* What is received: the client's history, or a cut of it.
LEMMA ReceiveStep ==
    ASSUME HistoryInv, Receive
    PROVE  HistoryInv'
<1>1. PICK c, s : c = MayPart /\ s = messages'
  OBVIOUS
<1>2. Kept(hist, FALSE) /\ hist # <<>> /\ c \in BOOLEAN /\ (compactionCount > 0 => c = TRUE)
  <2>1. Kept(hist, FALSE) /\ Len(hist) = 2 * turns + 1 /\ turns \in Nat
    BY DEF HistoryInv, HistoryKept
  <2>2. c \in BOOLEAN /\ (compactionCount > 0 => c = TRUE)
    BY <1>1 DEF MayPart
  <2>3. hist # <<>>
    BY <2>1
  <2> QED
    BY <2>1, <2>2, <2>3
<1>3. /\ Kept(s, c) /\ s # <<>> /\ s[Len(s)] = hist[Len(hist)]
      /\ s = hist \/ (compactionCount > 0 /\ Len(s) \in {5, 8})
  <2>1. CASE s = hist
    BY <1>2, <2>1, KeptMore
  <2>2. CASE compactionCount > 0 /\ s = Cut(hist, compactionCount, Message("assistant", "summary", 0))
    <3>1. PICK n : n = compactionCount /\ n \in 1 .. 2
      BY <2>2 DEF HistoryInv, MAX_EMERGENCY_COMPACTIONS
    <3>2. PICK m, h : m = Message("assistant", "summary", 0) /\ h = hist
      OBVIOUS
    <3>3. CutAs(h, s)
      <4>1. Kept(h, FALSE) /\ h # <<>> /\ s = Cut(h, n, m) /\ "assistant" \in {"user", "assistant"} /\ FALSE \in BOOLEAN
        BY <1>2, <2>2, <3>1, <3>2
      <4> QED
        BY ONLY <3>1, <3>2, <4>1, CutKeeps
    <3>4. Len(h) >= 7
      BY <2>2, <3>2 DEF HistoryInv
    <3>5. c = TRUE
      BY <1>2, <2>2
    <3> QED
      BY <2>2, <3>2, <3>3, <3>4, <3>5 DEF CutAs
  <2> QED
    BY <1>1, <2>1, <2>2 DEF Receive
<1>4. MessagesKept'
  BY <1>1, <1>3 DEF Receive, MessagesKept, MayPart
<1> QED
  BY <1>4 DEF HistoryInv, HistoryKept, Receive

\* A history cut for the first time is eight messages long, for the second five.
LEMMA CutLengthsAre == CutLengths = {5, 8}
<1>1. KeepHead(1) = 2 /\ KeepTail(1) = 5 /\ KeepHead(2) = 1 /\ KeepTail(2) = 3
  BY DEF KeepHead, KeepTail
<1>2. 1 .. MAX_EMERGENCY_COMPACTIONS = {1, 2}
  BY DEF MAX_EMERGENCY_COMPACTIONS
<1>3. CutLengths = {KeepHead(1) + 1 + KeepTail(1), KeepHead(2) + 1 + KeepTail(2)}
  BY <1>2 DEF CutLengths
<1> QED
  BY <1>1, <1>3

\* The contents, of the messages or of what compaction leaves of them.
LEMMA CompactStep ==
    ASSUME HistoryInv, Compact
    PROVE  HistoryInv'
<1>1. PICK c, s, h : c = MayPart /\ s = messages /\ h = hist
  OBVIOUS
<1>2. PICK ms : ms \in {s, Compacted(s)} /\ contents' = Joined(ms)
  BY <1>1 DEF Compact
<1>3. PICK cs : cs = Joined(ms) /\ cs = contents'
  BY <1>2
<1>4. /\ Kept(s, c) /\ s # <<>> /\ s[Len(s)] = h[Len(h)]
      /\ s = h \/ (compactionCount > 0 /\ Len(s) \in {5, 8})
      /\ h[Len(h)].role = "user" /\ c \in BOOLEAN
  BY <1>1 DEF Compact, HistoryInv, HistoryKept, MessagesKept, MayPart
<1>5. CompactedAs(s, ms, c)
  <2>1. CASE ms = s
    <3>1. s \in Seq(Sound)
      BY <1>4 DEF Kept
    <3>2. Len(s) <= Len(s)
      BY <3>1
    <3> QED
      BY <1>4, <2>1, <3>2 DEF CompactedAs
  <2>2. CASE ms = Compacted(s)
    BY <1>1, <1>4, <2>2, CompactKeeps
  <2> QED
    BY <1>2, <2>1, <2>2
<1>6. Kept(ms, c) /\ ms # <<>> /\ Len(ms) <= Len(s) /\ Len(ms) \in Nat /\ Len(s) \in Nat
  BY <1>4, <1>5 DEF CompactedAs, Kept
<1>7. /\ Kept(cs, c) /\ Alternates(cs) /\ cs # <<>> /\ Len(cs) <= Len(ms) + 2
      /\ cs[1].role = "user" /\ cs[Len(cs)].role = "user"
      /\ ms # <<>> /\ ms[Len(ms)].role = "user" =>
            ToSet(ms[Len(ms)].blocks) \subseteq ToSet(cs[Len(cs)].blocks)
  BY <1>1, <1>3, <1>4, <1>6, JoinKeeps
<1>8. compactionCount = 0 => Len(cs) <= Len(h) + 2
  <2>1. compactionCount = 0 => s = h
    BY <1>4
  <2>2. Len(cs) \in Nat
    BY <1>7 DEF Kept
  <2> QED
    BY <1>6, <1>7, <2>1, <2>2
<1>9. ASSUME ~LastIsFirstAfterKept
      PROVE  ToSet(h[Len(h)].blocks) \subseteq ToSet(cs[Len(cs)].blocks)
  <2>1. KeepFirst \in Nat
    BY HistoryAssumption
  <2>2. Len(s) # KeepFirst + 1
    <3>1. CASE s = h
      BY <1>1, <1>9, <2>1, <3>1 DEF LastIsFirstAfterKept
    <3>2. CASE compactionCount > 0 /\ Len(s) \in {5, 8}
      <4>1. KeepFirst + 1 \notin {5, 8}
        BY <1>9, <3>2, CutLengthsAre DEF LastIsFirstAfterKept
      <4> QED
        BY <3>2, <4>1
    <3> QED
      BY <1>4, <3>1, <3>2
  <2>3. ms[Len(ms)].role = "user" /\ ToSet(h[Len(h)].blocks) \subseteq ToSet(ms[Len(ms)].blocks)
    BY <1>4, <1>5, <2>2 DEF CompactedAs
  <2> QED
    BY <1>6, <1>7, <2>3
<1>10. ContentsKept'
  <2>1. LatestSent'
    BY <1>1, <1>3, <1>9 DEF Compact, LatestSent, LastIsFirstAfterKept
  <2> QED
    BY <1>1, <1>3, <1>7, <1>8, <2>1 DEF Compact, ContentsKept, MayPart
<1> QED
  BY <1>10 DEF HistoryInv, HistoryKept, Compact

\* The contents cut again: there are enough of them only if the history is long.
LEMMA OverloadedStep ==
    ASSUME HistoryInv, Overloaded
    PROVE  HistoryInv'
<1>1. PICK b, s, h, n, m : /\ b = MayPart /\ s = contents /\ h = hist
                           /\ n = compactionCount + 1 /\ m = Message("user", "summary", 0)
  OBVIOUS
<1>2. n \in 1 .. 2 /\ compactionCount \in 0 .. 1
  BY <1>1 DEF Overloaded, HistoryInv, MAX_EMERGENCY_COMPACTIONS
<1>3. /\ Kept(s, b) /\ s # <<>> /\ s[Len(s)].role = "user"
      /\ compactionCount = 0 => Len(s) <= Len(h) + 2
      /\ Len(h) = 2 * turns + 1 /\ turns \in Nat /\ b \in BOOLEAN
  BY <1>1 DEF Overloaded, HistoryInv, HistoryKept, ContentsKept, MayPart
<1>4. PICK ms, cs : ms = Cut(s, n, m) /\ cs = Joined(ms) /\ cs = contents'
  BY <1>1 DEF Overloaded
<1>5. Kept(ms, TRUE) /\ ms # <<>> /\ ms[Len(ms)] = s[Len(s)]
  <2>1. ms = Cut(s, n, m) /\ "user" \in {"user", "assistant"} /\ m = Message("user", "summary", 0)
    BY <1>1, <1>4
  <2>2. CutAs(s, ms)
    BY ONLY <1>2, <1>3, <2>1, CutKeeps
  <2> QED
    BY <2>2 DEF CutAs
<1>6. /\ Kept(cs, TRUE) /\ Alternates(cs) /\ cs # <<>>
      /\ cs[1].role = "user" /\ cs[Len(cs)].role = "user"
      /\ ms # <<>> /\ ms[Len(ms)].role = "user" =>
            ToSet(ms[Len(ms)].blocks) \subseteq ToSet(cs[Len(cs)].blocks)
  BY <1>4, <1>5, JoinKeeps
<1>7. ToSet(s[Len(s)].blocks) \subseteq ToSet(cs[Len(cs)].blocks)
  BY <1>3, <1>5, <1>6
<1>8. Len(h) >= 7
  <2>1. CASE compactionCount = 0
    <3>1. Len(s) >= 8
      BY <1>1 DEF Overloaded, MIN_CONTENTS
    <3>2. Len(s) \in Nat
      BY <1>3 DEF Kept
    <3> QED
      BY <1>3, <2>1, <3>1, <3>2
  <2>2. CASE compactionCount > 0
    BY <1>1, <2>2 DEF HistoryInv
  <2> QED
    BY <1>2, <2>1, <2>2
<1>9. compactionCount' = n /\ at' = "call" /\ UNCHANGED <<hist, turns, at, messages>> /\ at = "call"
  BY <1>1 DEF Overloaded
<1>10. LatestSent'
  <2>1. LatestSent
    BY <1>9 DEF HistoryInv, ContentsKept
  <2> QED
    BY <1>1, <1>2, <1>4, <1>7, <1>9, <2>1 DEF LatestSent, LastIsFirstAfterKept
<1>11. ContentsKept'
  <2>1. n # 0 /\ MayPart' = TRUE
    BY <1>2, <1>9 DEF MayPart
  <2> QED
    BY <1>4, <1>6, <1>9, <1>10, <2>1 DEF ContentsKept
<1>12. HistoryKept' /\ turns' = turns /\ Len(hist') >= 7
  BY <1>1, <1>8, <1>9 DEF HistoryInv, HistoryKept
<1>13. n \in 0 .. 2 /\ turns \in Nat
  BY <1>2, <1>3
<1> QED
  BY <1>9, <1>11, <1>12, <1>13 DEF HistoryInv, MAX_EMERGENCY_COMPACTIONS

\* The client goes on with an answer, or with a call and what came back.
LEMMA AnswerStep ==
    ASSUME HistoryInv, Answer
    PROVE  HistoryInv'
<1>1. PICK kind \in Kinds : hist' = hist \o Turn(turns + 1, kind)
  BY DEF Answer
<1>2. PICK h, g, n : h = hist /\ n = turns + 1 /\ g = h \o Turn(n, kind) /\ g = hist'
  BY <1>1
<1>3. /\ Kept(h, FALSE) /\ Len(h) = 2 * turns + 1 /\ turns \in Nat /\ h[Len(h)].role = "user"
      /\ compactionCount > 0 => Len(h) >= 7
  BY <1>2 DEF HistoryInv, HistoryKept
<1>4. n \in Nat /\ h # <<>>
  BY <1>2, <1>3
<1>5. Kept(g, FALSE) /\ Len(g) = Len(h) + 2 /\ g[Len(g)].role = "user" /\ g[Len(g)].blocks # <<>>
  BY <1>2, <1>3, <1>4, HistoryGrows
<1>6. turns' = n /\ at' = "idle" /\ compactionCount' = compactionCount
  BY <1>2 DEF Answer
<1>7. Len(g) = 2 * n + 1 /\ (compactionCount > 0 => Len(g) >= 7)
  BY <1>2, <1>3, <1>5
<1>8. HistoryKept'
  BY <1>2, <1>5, <1>6, <1>7 DEF HistoryKept
<1> QED
  BY <1>2, <1>4, <1>6, <1>7, <1>8 DEF HistoryInv

LEMMA HistoryStep == HistoryInv /\ [Next]_vars => HistoryInv'
<1> SUFFICES ASSUME HistoryInv, [Next]_vars PROVE HistoryInv'
  OBVIOUS
<1>1. CASE Receive
  BY <1>1, ReceiveStep
<1>2. CASE Compact
  BY <1>2, CompactStep
<1>3. CASE Overloaded
  BY <1>3, OverloadedStep
<1>4. CASE Answer
  BY <1>4, AnswerStep
<1>5. CASE UNCHANGED vars
  BY <1>5 DEF vars, HistoryInv, HistoryKept, MessagesKept, ContentsKept, LatestSent, LastIsFirstAfterKept, MayPart
<1> QED
  BY <1>1, <1>2, <1>3, <1>4, <1>5 DEF Next

\* The inductive invariant: the history, what is received of it and what is sent of
\* it keep calls and results together as far as the cuts allow, for any number of
\* turns and any depths of the anchors.
THEOREM HistoryInvariance == Spec => []HistoryInv
BY HistoryStart, HistoryStep, PTL DEF Spec

\* What the model is sent is accepted, for any number of first and last messages
\* kept, any depths of the anchors and any number of turns: it alternates and calls
\* and results part only at a summary.
THEOREM HistoryAccepted == Spec => []HistoryIsAccepted
<1>1. HistoryInv => HistoryIsAccepted
  <2> SUFFICES ASSUME HistoryInv, at = "call" PROVE RolesAlternate /\ PairsPartOnlyAtSummary
    BY DEF HistoryIsAccepted
  <2>1. PICK cs, c : cs = contents /\ c = MayPart
    OBVIOUS
  <2>2. /\ Kept(cs, c) /\ Alternates(cs) /\ cs # <<>>
        /\ cs[1].role = "user" /\ cs[Len(cs)].role = "user"
    BY <2>1 DEF HistoryInv, ContentsKept
  <2>3. RolesAlternate
    BY <2>1, <2>2 DEF RolesAlternate, Alternates, Last
  <2>4. ASSUME NEW i \in 1 .. Len(cs), NEW n \in Results(cs[i])
        PROVE  \/ i > 1 /\ n \in Calls(cs[i - 1])
               \/ /\ compactionCount > 0
                  /\ Has(cs[i], {"summary"}) \/ (i > 1 /\ Has(cs[i - 1], {"summary"}))
    BY <2>1, <2>2, <2>4 DEF Kept, AfterCall, Sums, MayPart, HistoryInv, MAX_EMERGENCY_COMPACTIONS
  <2>5. ASSUME NEW i \in 1 .. Len(cs), NEW n \in Calls(cs[i])
        PROVE  \/ n \in Results(cs[i + 1])
               \/ Block("text", n) \in ToSet(cs[i + 1].blocks)
               \/ Has(cs[i + 1], {"summary"}) \/ Has(cs[i], {"summary"})
    BY <2>2, <2>5 DEF Kept, BeforeAnswer, Answers, Sums
  <2> QED
    BY <2>1, <2>3, <2>4, <2>5 DEF PairsPartOnlyAtSummary
<1> QED
  BY <1>1, HistoryInvariance, PTL

\* The model is sent what the user said last, for any number of messages kept, unless
\* that last message is all that follows the kept ones.
THEOREM LatestKept == Spec => []LatestIsKept
<1>1. HistoryInv => LatestIsKept
  <2> SUFFICES ASSUME HistoryInv, at = "call", ~LastIsFirstAfterKept
               PROVE  \E b \in ToSet(Last(contents).blocks) : b \in ToSet(Last(hist).blocks)
    BY DEF LatestIsKept
  <2>1. PICK h, cs, m : h = hist /\ cs = contents /\ m = h[Len(h)]
    OBVIOUS
  <2>2. /\ Kept(h, FALSE) /\ Len(h) = 2 * turns + 1 /\ turns \in Nat /\ m.blocks # <<>>
        /\ ToSet(m.blocks) \subseteq ToSet(cs[Len(cs)].blocks)
    BY <2>1 DEF HistoryInv, HistoryKept, ContentsKept, LatestSent
  <2>3. m \in Sound
    <3>1. Len(h) \in 1 .. Len(h)
      BY <2>2
    <3> QED
      BY <2>1, <2>2, <3>1 DEF Kept
  <2>4. m.blocks \in Seq(Piece) /\ m.blocks # <<>>
    BY <2>2, <2>3 DEF Sound
  <2>5. PICK b : b \in ToSet(m.blocks)
    <3>1. m.blocks[1] \in ToSet(m.blocks)
      BY <2>4 DEF ToSet
    <3> QED
      BY <3>1
  <2> QED
    BY <2>1, <2>2, <2>5 DEF Last
<1> QED
  BY <1>1, HistoryInvariance, PTL
===============================================================================
