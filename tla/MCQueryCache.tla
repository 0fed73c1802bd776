---------------------------- MODULE MCQueryCache ----------------------------
(* The query cache with two callers that are interchangeable. *)
EXTENDS QueryCache, TLC

CallerSymmetry == Permutations(Callers)
=============================================================================
