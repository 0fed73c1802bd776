--------------------------- MODULE MCMediaMutation ---------------------------
(* Instances of MediaMutation and Transactions for TLC. *)
EXTENDS MediaMutation, TLC

CONSTANTS root, other, outer, inner

InRoot == [s \in Savepoints |-> root]

OneAttempt == [r \in Roots |-> 1]
TwoForRoot == [r \in Roots |-> IF r = root THEN 2 ELSE 1]
=============================================================================
