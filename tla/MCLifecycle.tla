---------------------------- MODULE MCLifecycle -----------------------------
(***************************************************************************)
(* Instances of Lifecycle for TLC.                                         *)
(***************************************************************************)
EXTENDS Lifecycle, TLC

Symmetry == Permutations(Tasks \ BroadcastTasks) \cup Permutations(Proplets)
=============================================================================
