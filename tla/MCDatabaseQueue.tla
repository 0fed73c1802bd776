--------------------------- MODULE MCDatabaseQueue ----------------------------
(* Instances of DatabaseQueue for TLC. *)
EXTENDS DatabaseQueue, TLC

CONSTANTS j1, j2, w1, w2, a1, a2

OneJob == {j1}
UntimedJob == {j2}
TwoJobs == {j1, j2}

TwoAttempts == [j \in Jobs |-> 2]
OneAttempt == [j \in Jobs |-> 1]

(* j1 may hang until its timeout; j2 has none. *)
MCTimeout == [j \in Jobs |-> IF j = j1 THEN 1 ELSE NoTimeout]

(* To bound the runs: one job or the other is dispatched, never both. *)
EitherJob == \E j \in Jobs : epoch[j] = 0
EitherNext ==
    \/ \E j \in Jobs, d \in Delays : Dispatch(j, d) /\ EitherJob'
    \/ Proceed
EitherSpec == Init /\ [][EitherNext]_vars /\ Fairness

Symmetry == Permutations(Workers) \cup Permutations(Admins)
===============================================================================
