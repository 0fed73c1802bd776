---------------------------- MODULE MCRedisSession ----------------------------
(* Instances of RedisSession for TLC. *)
EXTENDS RedisSession, TLC

Symmetry == Permutations(Requests) \cup Permutations(Ids \ {Start})
===============================================================================
