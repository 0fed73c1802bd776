----------------------------- MODULE MCSchedule -----------------------------
(* Instances of Schedule for TLC. *)
EXTENDS Schedule, TLC

CONSTANTS t1, t2

Entry(t, overlap, single) == [task |-> t, overlap |-> overlap, single |-> single]

(* One entry with both options; and entries with each option, two of which share a task. *)
BothOptions == <<Entry(t1, TRUE, TRUE)>>
Mixed == <<Entry(t2, TRUE, FALSE), Entry(t1, TRUE, TRUE), Entry(t1, FALSE, TRUE)>>

(* The wall clock shows the same again after two minutes, as long as a minute's lock lives. *)
FallBack == [m \in Minutes |-> m % 2]

Symmetry == Permutations(Processes)
=============================================================================
