-------------------------- MODULE MCManagedResources --------------------------
(* Instances of ManagedResources for TLC. *)
EXTENDS ManagedResources, TLC

Symmetry == Permutations(Entries) \cup Permutations(Configs)
===============================================================================
