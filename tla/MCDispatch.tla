----------------------------- MODULE MCDispatch -----------------------------
(* Instances of Dispatch for TLC. *)
EXTENDS Dispatch, TLC

Symmetry == Permutations(Tasks \ BroadcastTasks) \cup Permutations(Proplets) \cup Permutations(Callers)
=============================================================================
