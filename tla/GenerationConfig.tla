--------------------------- MODULE GenerationConfig ---------------------------
(***************************************************************************)
(* The token limits of a request (request.ts 838-938): max_tokens cut to   *)
(* the model's ceiling, and the budget for thinking within it.             *)
(***************************************************************************)
EXTENDS Integers

CONSTANTS
    AskedTokens,    \* values of max_tokens: a number, or None
    AskedBudgets,   \* values of thinking.budget_tokens: a number, Invalid, or None for no thinking
    None, Invalid,
    Models,
    Ceiling,        \* MODEL_MAX_OUTPUT_TOKENS
    Thinks          \* model -> "budget" (2.5), "level" (3.x) or "no"

ASSUME ConfigAssumption ==
    /\ AskedTokens \subseteq Int \cup {None} /\ AskedBudgets \subseteq Int \cup {None, Invalid}
    /\ None \notin Int /\ Invalid \notin Int \cup {None}
    /\ Ceiling \in [Models -> Nat \ {0}] /\ Thinks \in [Models -> {"budget", "level", "no"}]

VARIABLES asked, config

cvars == <<asked, config>>

GEMINI_MAX_THINKING_BUDGET == 24576
DEFAULT_THINKING_BUDGET    == 4096
DEFAULT_MAX_OUTPUT         == 8192
TEXT_RESERVE               == 1024
DYNAMIC                    == -1

AtMost(a, b)  == IF a < b THEN a ELSE b
AtLeast0(a)   == IF a > 0 THEN a ELSE 0

\* Nothing is sent for a max_tokens that is not positive.
maxOutputTokens(r) ==
    CASE r.maxTokens = None -> AtMost(DEFAULT_MAX_OUTPUT, Ceiling[r.model])
      [] r.maxTokens # None /\ r.maxTokens > 0 -> AtMost(r.maxTokens, Ceiling[r.model])
      [] OTHER -> None

maxTotal(r) == IF maxOutputTokens(r) = None THEN Ceiling[r.model] ELSE maxOutputTokens(r)

\* Mutant: the limit is the model's, not the request's.
BudgetOfModel(r) ==
    IF r.budget = Invalid \/ r.budget < 0 THEN DYNAMIC
    ELSE AtMost(AtMost(r.budget, GEMINI_MAX_THINKING_BUDGET),
                AtLeast0(Ceiling[r.model] - TEXT_RESERVE))

\* A budget asked for leaves room for the text.
AskedBudget(r) ==
    IF r.budget = Invalid \/ r.budget < 0 THEN DYNAMIC
    ELSE AtMost(AtMost(r.budget, GEMINI_MAX_THINKING_BUDGET), AtLeast0(maxTotal(r) - TEXT_RESERVE))

\* Nobody asked: the default budget, whatever the limit.
thinkingBudget(r) ==
    CASE Thinks[r.model] # "budget" -> None
      [] Thinks[r.model] = "budget" /\ r.budget # None -> AskedBudget(r)
      [] OTHER -> DEFAULT_THINKING_BUDGET

CInit == asked = None /\ config = None

Configure ==
    \E r \in [model : Models, maxTokens : AskedTokens, budget : AskedBudgets] :
      /\ asked' = r
      /\ config' = [maxOutputTokens |-> maxOutputTokens(r), thinkingBudget |-> thinkingBudget(r)]

CSpec == CInit /\ [][Configure]_cvars

-----------------------------------------------------------------------------
\* A budget for thinking leaves tokens for the answer within what the model may
\* write, "otherwise Gemini returns a 400", but for the default one, which nothing
\* bounds: a request that asked for no thinking and for few tokens is sent a budget
\* beyond its limit (request.ts 895-934).
ThinkingFits ==
    config # None =>
      LET limit == maxTotal(asked)
      IN  /\ limit <= Ceiling[asked.model]
          /\ config.thinkingBudget \notin {None, DYNAMIC} /\ config.thinkingBudget >= limit =>
               asked.budget = None /\ limit <= DEFAULT_THINKING_BUDGET
===============================================================================
