--------------------------- MODULE MCSubagentPool ---------------------------
(***************************************************************************)
(* Bounds for model checking SubagentPool.                                 *)
(***************************************************************************)
EXTENDS SubagentPool, TLC

CONSTANTS a, b, c, d, e, f

\* c waits for two tasks, d for c; a plan may be out of order, may lack what a
\* task depends on, or hold two tasks that wait for each other.
MCDeps == (a :> {}) @@ (b :> {}) @@ (c :> {a, b}) @@ (d :> {c}) @@ (e :> {f}) @@ (f :> {e})

MCPlans == {<<c, a, b>>, <<d, e, f, a, c>>}
=============================================================================
