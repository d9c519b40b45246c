--------------------------- MODULE MCContextMemory ---------------------------
(***************************************************************************)
(* Bounds for model checking ContextMemory: two terminals, begun with the  *)
(* same words, in one workspace or two, or one whose workspace nothing     *)
(* tells, or one whose client names its conversation; or two whose clients *)
(* name the same, in two workspaces or one that is told and one that is    *)
(* not.                                                                    *)
(***************************************************************************)
EXTENDS ContextMemory, TLC

CONSTANTS t1, t2, home, work, hello, named

Anonymous(w) == [workspace |-> w, slot |-> hello, id |-> NoId]
Named(w)     == [workspace |-> w, slot |-> hello, id |-> named]

MCCasts == {(t1 :> Anonymous(home)) @@ (t2 :> x) :
               x \in {Anonymous(home), Anonymous(Unknown), Anonymous(work), Named(home)}}
           \cup {(t1 :> Named(home)) @@ (t2 :> Named(w)) : w \in {work, Unknown}}
=============================================================================
