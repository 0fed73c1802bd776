--------------------------- MODULE ConnectionAccess ---------------------------
(***************************************************************************)
(* What the query scheduler of a connection promises, in the abstract: a   *)
(* root transaction has the connection to itself, plain statements share   *)
(* it among themselves, and no more of them than there are slots.          *)
(***************************************************************************)
EXTENDS FiniteSets, Naturals

CONSTANTS Roots, Queries, Limit

VARIABLES
    owners,  \* the root transactions inside an exclusive section
    readers  \* the plain statements that run

AccessInit == owners = {} /\ readers = {}

Own(r) == owners = {} /\ readers = {} /\ owners' = {r} /\ UNCHANGED readers

Disown(r) == r \in owners /\ owners' = owners \ {r} /\ UNCHANGED readers

(* One statement starts, ends, or ends and lets the next one start. *)
Read(ended, started) ==
    /\ owners = {}
    /\ ended \subseteq readers
    /\ readers' = (readers \ ended) \cup started
    /\ Cardinality(readers') <= Limit
    /\ UNCHANGED owners

AccessNext ==
    \/ \E r \in Roots : Own(r) \/ Disown(r)
    \/ \E ended, started \in SUBSET Queries : Read(ended, started)

AccessSpec == AccessInit /\ [][AccessNext]_<<owners, readers>>
=============================================================================
