--------------------------- MODULE MCOrchestration ---------------------------
(***************************************************************************)
(* Bounds for model checking Orchestration: a planner and a coder that     *)
(* depends on it.                                                          *)
(***************************************************************************)
EXTENDS Orchestration, TLC

CONSTANTS planner, coder

MCTasks == {planner, coder}
MCDeps  == (planner :> {}) @@ (coder :> {planner})
=============================================================================
