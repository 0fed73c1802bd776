------------------------------- MODULE TimedLock -------------------------------
(***************************************************************************)
(* What a lock of the cache promises (CacheLockContract in                 *)
(* packages/cache/src/contracts.ts), without rows, statements or clocks:   *)
(* it is granted only while it is free, it is freed by its owner or        *)
(* because its time is over, and nobody else's call changes it.  A user    *)
(* whose time is over goes on as if it held the lock, and is late then.    *)
(* CacheLock implements this specification with one row, and Schedule      *)
(* relies on it for the locks of tasks.                                    *)
(***************************************************************************)
CONSTANTS Names, Users

VARIABLES
    owner,  \* owner[n]: whose lock n is, nobody's or one user's
    holds,  \* holds[n]: who works under lock n
    late    \* late[n]: those of them whose time is over

vars == <<owner, holds, late>>

TypeOK == {owner, holds, late} \subseteq [Names -> SUBSET Users]

Init ==
    /\ owner = [n \in Names |-> {}]
    /\ holds = [n \in Names |-> {}]
    /\ late = [n \in Names |-> {}]

Acquire(u, n) ==
    /\ owner[n] = {}
    /\ owner' = [owner EXCEPT ![n] = {u}]
    /\ holds' = [holds EXCEPT ![n] = @ \cup {u}]
    /\ UNCHANGED late

(* The lock is granted and its time is over already. *)
AcquireLate(u, n) ==
    /\ owner[n] = {}
    /\ holds' = [holds EXCEPT ![n] = @ \cup {u}]
    /\ late' = [late EXCEPT ![n] = @ \cup {u}]
    /\ UNCHANGED owner

(* The lock is granted to a user that only wanted to know, or never gets the answer. *)
Try(u, n) ==
    /\ owner[n] = {}
    /\ owner' = [owner EXCEPT ![n] = {u}]
    /\ UNCHANGED <<holds, late>>

(* The work is over, and with it the lock if it is the user's own. *)
Release(u, n) ==
    /\ owner' = [owner EXCEPT ![n] = @ \ {u}]
    /\ holds' = [holds EXCEPT ![n] = @ \ {u}]
    /\ late' = [late EXCEPT ![n] = @ \ {u}]

(* The user dies, or its release is lost. *)
Quit(u, n) ==
    /\ holds' = [holds EXCEPT ![n] = @ \ {u}]
    /\ late' = [late EXCEPT ![n] = @ \ {u}]
    /\ UNCHANGED owner

(* The time of the locks S is over. *)
Expire(S) ==
    /\ owner' = [n \in Names |-> IF n \in S THEN {} ELSE owner[n]]
    /\ late' = [n \in Names |-> IF n \in S THEN late[n] \cup (owner[n] \cap holds[n]) ELSE late[n]]
    /\ UNCHANGED holds

Next ==
    \/ \E u \in Users, n \in Names :
          Acquire(u, n) \/ AcquireLate(u, n) \/ Try(u, n) \/ Release(u, n) \/ Quit(u, n)
    \/ \E S \in SUBSET Names : Expire(S)

Spec == Init /\ [][Next]_vars

(* Of those who work under a lock, one at most is in time. *)
Exclusive == \A n \in Names : \A u, v \in holds[n] \ late[n] : u = v
===============================================================================
