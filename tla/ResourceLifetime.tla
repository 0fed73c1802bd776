--------------------------- MODULE ResourceLifetime ---------------------------
(***************************************************************************)
(* What holders of a lease on a managed resource are promised              *)
(* (ResourceLease and HeldResource in                                      *)
(* packages/kernel/src/managedResources.ts), without configurations,       *)
(* reconfiguration passes or disposal: a resource is opened once and       *)
(* closed at most once, only when no operation holds it, and no operation  *)
(* starts on it from then on.  ManagedResources implements this            *)
(* specification.                                                          *)
(***************************************************************************)
EXTENDS Naturals

CONSTANT Entries

VARIABLES
    life,   \* life[e]: "unused", "open", "closing" or "closed"
    users   \* users[e]: operations holding e

vars == <<life, users>>

Init ==
    /\ life = [e \in Entries |-> "unused"]
    /\ users = [e \in Entries |-> 0]

Open(e) ==
    /\ life[e] = "unused"
    /\ life' = [life EXCEPT ![e] = "open"]
    /\ UNCHANGED users

Use(e) ==
    /\ life[e] = "open"
    /\ users' = [users EXCEPT ![e] = @ + 1]
    /\ UNCHANGED life

(* An operation on e settles, which may be what e was waiting for to close. *)
Finish(e) ==
    /\ users[e] > 0
    /\ users' = [users EXCEPT ![e] = @ - 1]
    /\ \/ UNCHANGED life
       \/ users[e] = 1 /\ life[e] = "open" /\ life' = [life EXCEPT ![e] = "closing"]

(* Close some resources nobody uses. *)
Close(S) ==
    /\ \A e \in S : life[e] = "open" /\ users[e] = 0
    /\ life' = [e \in Entries |-> IF e \in S THEN "closing" ELSE life[e]]
    /\ UNCHANGED users

Closed(e) ==
    /\ life[e] = "closing"
    /\ life' = [life EXCEPT ![e] = "closed"]
    /\ UNCHANGED users

Next ==
    \/ \E e \in Entries : Open(e) \/ Use(e) \/ Finish(e) \/ Closed(e)
    \/ \E S \in SUBSET Entries : Close(S)

Spec == Init /\ [][Next]_vars
===============================================================================
