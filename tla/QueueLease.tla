------------------------------ MODULE QueueLease ------------------------------
(***************************************************************************)
(* What an async queue driver promises its workers (QueueAsyncDriver in    *)
(* packages/queue/src/contracts.ts), without tables, clocks, retries or    *)
(* failed jobs.  A job is taken under a lease with a fresh number; a lease *)
(* may lapse, after which the job can be taken again although the previous *)
(* worker is still busy; and only the worker that holds the newest lease   *)
(* can settle the job.  DatabaseQueue implements this specification.       *)
(***************************************************************************)
EXTENDS Naturals

CONSTANTS Jobs, Workers

VARIABLES
    status,   \* status[j]: "absent", "waiting", "leased" or "lapsed"
    term,     \* term[j]: number of the newest lease of j, 0 before the first
    grip      \* grip[w]: at most one lease [job, term] that w works under

vars == <<status, term, grip>>

Lease == [job : Jobs, term : Nat]

TypeOK ==
    /\ status \in [Jobs -> {"absent", "waiting", "leased", "lapsed"}]
    /\ term \in [Jobs -> Nat]
    /\ grip \in [Workers -> SUBSET Lease]

Init ==
    /\ status = [j \in Jobs |-> "absent"]
    /\ term = [j \in Jobs |-> 0]
    /\ grip = [w \in Workers |-> {}]

(* A job enters the queue, for the first time or as a retry of a failed job. *)
Offer(j) ==
    /\ status[j] = "absent"
    /\ status' = [status EXCEPT ![j] = "waiting"]
    /\ UNCHANGED <<term, grip>>

Take(w, j) ==
    /\ grip[w] = {}
    /\ status[j] \in {"waiting", "lapsed"}
    /\ status' = [status EXCEPT ![j] = "leased"]
    /\ term' = [term EXCEPT ![j] = @ + 1]
    /\ grip' = [grip EXCEPT ![w] = {[job |-> j, term |-> term[j] + 1]}]

(* Time passes the visibility timeout of the leases of the jobs S. *)
Lapse(S) ==
    /\ \A j \in S : status[j] = "leased"
    /\ status' = [j \in Jobs |-> IF j \in S THEN "lapsed" ELSE status[j]]
    /\ UNCHANGED <<term, grip>>

Current(l) ==
    /\ l.term = term[l.job]
    /\ status[l.job] \in {"leased", "lapsed"}

(* acknowledge, delete and release: a no-op for a superseded lease. *)
Settle(w) == \E l \in grip[w] :
    /\ IF Current(l)
         THEN \E s \in {"absent", "waiting"} : status' = [status EXCEPT ![l.job] = s]
         ELSE status' = status
    /\ grip' = [grip EXCEPT ![w] = {}]
    /\ UNCHANGED term

(* clear: removes jobs that no unexpired lease protects. *)
Purge(S) ==
    /\ \A j \in S : status[j] \in {"waiting", "lapsed"}
    /\ status' = [j \in Jobs |-> IF j \in S THEN "absent" ELSE status[j]]
    /\ UNCHANGED <<term, grip>>

(* A worker dies or gives up: its job keeps the lease until it lapses. *)
Drop(w) ==
    /\ grip' = [grip EXCEPT ![w] = {}]
    /\ UNCHANGED <<status, term>>

Next ==
    \/ \E j \in Jobs : Offer(j)
    \/ \E w \in Workers, j \in Jobs : Take(w, j)
    \/ \E S \in SUBSET Jobs : Lapse(S) \/ Purge(S)
    \/ \E w \in Workers : Settle(w) \/ Drop(w)

Spec == Init /\ [][Next]_vars
===============================================================================
