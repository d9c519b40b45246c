-------------------------- MODULE MCStreamTransform --------------------------
(***************************************************************************)
(* Bounds for model checking StreamTransform: a request whose function     *)
(* calls are signed and that asks for thinking, on a route with one        *)
(* fallback; the recovery chain has the fallback and another model.        *)
(***************************************************************************)
EXTENDS StreamTransform, TLC

CONSTANTS pro, flash, lite, gemma

MCModels == {pro, flash, lite, gemma}
MCChain  == {flash, lite, gemma}
MCGemma  == {gemma}
MCBodies == {[sigs |-> s, thinking |-> TRUE] : s \in {"text", "calls"}}
MCRoutes == {[primary |-> pro, fallback |-> f] : f \in {<<>>, <<flash>>}}
MCForced == [primary |-> gemma, fallback |-> <<>>]
=============================================================================
