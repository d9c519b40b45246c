--------------------------- MODULE MCSessionLoop ---------------------------
(* SessionLoop on small instances, for TLC. *)
EXTENDS SessionLoop, TLC

\* One informational task stands for the seven, which are treated alike.
MCInfoTasks == <<"planning">>

MCClients == Permutations(Clients)
=============================================================================
