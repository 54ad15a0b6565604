--------------------------- MODULE VMActivations ---------------------------
(***************************************************************************)
(* The machine implements Activations: the cells of an activation are the  *)
(* ones from its slots up to those of the next.                            *)
(***************************************************************************)
EXTENDS VMSafety

(* The n cells from the index first on.                                    *)
From(first, n) == [j \in 1..n |-> stack[first + j - 1]]

Cells == From(slots, top - slots + 1)

Callers ==
  [k \in 1..Len(frames) |->
     [cl    |-> frames[k].cl,
      ip    |-> frames[k].ip,
      cells |-> From(frames[k].slots, Base(k) - frames[k].slots)]]

Calls == INSTANCE Activations WITH cells <- Cells, callers <- Callers

(* Although all calls share one array, overlap where the callee and its    *)
(* arguments are, and tail calls move cells over others, a program finds   *)
(* in its cells what it would find if every call had cells of its own.     *)
RunsInActivations == Calls!Spec
=============================================================================
