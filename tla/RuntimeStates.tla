--------------------------- MODULE RuntimeStates ---------------------------
(***************************************************************************)
(* The lifecycle table of an agent session: lib/runtime/agent/             *)
(* state-machine.ts.  A session carries two state fields: runtimeState,    *)
(* whose changes the table licenses, and a coarser status derived from it. *)
(***************************************************************************)

RuntimeLifecycleState ==
    {"Idle", "Initializing", "Planning", "Executing", "Waiting Approval",
     "Waiting Tool", "Reflecting", "Retrying", "Recovering",
     "Completed", "Failed", "Cancelled"}

AgentSessionStatus ==
    {"CREATED", "ANALYZING", "PLANNED", "RUNNING", "VALIDATING",
     "COMPLETED", "FAILED", "CANCELLED"}

\* A finished tool turn ("Waiting Tool") cannot be reflected upon, and
\* "Initializing" is entered from "Idle" alone: both matter to the loop.
Transitions(state) ==
    CASE state = "Idle"             -> {"Initializing", "Cancelled"}
      [] state = "Initializing"     -> {"Planning", "Recovering", "Cancelled", "Failed"}
      [] state = "Planning"         -> {"Executing", "Waiting Approval", "Retrying",
                                        "Recovering", "Cancelled", "Failed"}
      [] state = "Executing"        -> {"Waiting Tool", "Waiting Approval", "Reflecting",
                                        "Retrying", "Recovering", "Cancelled", "Failed"}
      [] state = "Waiting Approval" -> {"Executing", "Cancelled", "Failed"}
      [] state = "Waiting Tool"     -> {"Waiting Approval", "Executing", "Retrying",
                                        "Recovering", "Cancelled", "Failed"}
      [] state = "Reflecting"       -> {"Planning", "Retrying", "Completed", "Failed",
                                        "Cancelled"}
      [] state = "Retrying"         -> {"Planning", "Executing", "Recovering",
                                        "Cancelled", "Failed"}
      [] state = "Recovering"       -> {"Planning", "Executing", "Failed", "Cancelled"}
      [] state = "Failed"           -> {"Recovering"}
      [] OTHER                      -> {}          \* Completed, Cancelled

\* Mutant: the table is not consulted.
CanAlways(from, to) == TRUE

CanTransitionRuntimeState(from, to) == to \in Transitions(from)

StatusForRuntimeState(state) ==
    CASE state = "Idle"                         -> "CREATED"
      [] state \in {"Initializing", "Planning"} -> "ANALYZING"
      [] state = "Reflecting"                   -> "VALIDATING"
      [] state = "Completed"                    -> "COMPLETED"
      [] state = "Failed"                       -> "FAILED"
      [] state = "Cancelled"                    -> "CANCELLED"
      [] OTHER                                  -> "RUNNING"
=============================================================================
