---------------------------- MODULE MCLifecycle ----------------------------
(* Lifecycle for TLC: commands, and processes but Old, are interchangeable. *)
EXTENDS Lifecycle, TLC

Symmetry == Permutations(Cli) \cup Permutations(Process \ {Old})
=============================================================================
