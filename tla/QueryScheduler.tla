---------------------------- MODULE QueryScheduler ----------------------------
(***************************************************************************)
(* The query scheduler of a database connection that cannot run its        *)
(* transactions side by side (packages/db/src/core/QueryScheduler.ts).     *)
(*                                                                         *)
(* Its ExclusiveGate lets root transactions in one at a time, with no      *)
(* plain statement running; a plain statement that passed the gate then    *)
(* needs one of Limit slots, and fails when QueueLimit others already wait *)
(* for one.  A process that was let in by another one goes on in a         *)
(* microtask of its own: "handed" and "admitted" are between the two.      *)
(***************************************************************************)
EXTENDS FiniteSets, Naturals, Sequences

CONSTANTS
    Roots,      \* callers of exclusive(), each a root transaction
    Queries,    \* callers of schedule() outside any exclusive section
    Limit,      \* statements that may run at a time
    QueueLimit  \* statements that may wait for a slot

ASSUME SchedulerAssumption ==
    /\ IsFiniteSet(Roots) /\ IsFiniteSet(Queries) /\ Roots \cap Queries = {}
    /\ Limit \in Nat \ {0} /\ QueueLimit \in Nat

VARIABLES
    phase,            \* where the caller is
    exclusiveActive,  \* an exclusive section runs, or was handed to a waiter
    activeOperations, \* plain statements that passed the gate and are not done
    exclusiveWaiters, \* root transactions that wait at the gate, in order
    slots,            \* state.active: slots taken
    slotWaiters       \* state.waiters: plain statements that wait for a slot, in order

gateVars == <<phase, exclusiveActive, activeOperations, exclusiveWaiters, slots, slotWaiters>>

At(processes, place) == {p \in processes : phase[p] = place}

(* exclusivePending > 0, and the operationWaiters. *)
ExclusivePending == At(Roots, "waiting") \cup At(Roots, "handed") # {}

OperationWaiters == At(Queries, "waiting")

(* The type invariant. *)
SchedulerTypeOK ==
    /\ phase \in [Roots \cup Queries -> {"idle", "waiting", "handed", "exclusive", "admitted",
                                         "slot", "running"}]
    /\ exclusiveActive \in BOOLEAN
    /\ activeOperations \in Nat
    /\ exclusiveWaiters \in Seq(Roots)
    /\ slots \in 0 .. Limit
    /\ slotWaiters \in Seq(Queries)

SchedulerInit ==
    /\ phase = [p \in Roots \cup Queries |-> "idle"]
    /\ exclusiveActive = FALSE
    /\ activeOperations = 0
    /\ exclusiveWaiters = <<>>
    /\ slots = 0
    /\ slotWaiters = <<>>

(* Mutant of Wake: waiting statements go before waiting exclusive sections. *)
WakeStatementsFirst(moved, active, operations) ==
    IF active \/ operations > 0
    THEN phase' = moved /\ exclusiveActive' = active /\ activeOperations' = operations
         /\ UNCHANGED exclusiveWaiters
    ELSE IF OperationWaiters = {} /\ exclusiveWaiters # <<>>
    THEN /\ phase' = [moved EXCEPT ![Head(exclusiveWaiters)] = "handed"]
         /\ exclusiveActive' = TRUE /\ activeOperations' = operations
         /\ exclusiveWaiters' = Tail(exclusiveWaiters)
    ELSE /\ phase' = [p \in Roots \cup Queries |->
                         IF p \in OperationWaiters THEN "admitted" ELSE moved[p]]
         /\ exclusiveActive' = FALSE
         /\ activeOperations' = operations + Cardinality(OperationWaiters)
         /\ UNCHANGED exclusiveWaiters

(***************************************************************************)
(* wake() in a state where "moved" are the phases and "operations" the     *)
(* statements left: an exclusive section is handed over before it runs,    *)
(* so that nothing gets in between; else every waiting statement is let in.*)
(***************************************************************************)
Wake(moved, active, operations) ==
    IF active \/ operations > 0
    THEN /\ phase' = moved
         /\ exclusiveActive' = active
         /\ activeOperations' = operations
         /\ UNCHANGED exclusiveWaiters
    ELSE IF exclusiveWaiters # <<>>
    THEN /\ phase' = [moved EXCEPT ![Head(exclusiveWaiters)] = "handed"]
         /\ exclusiveActive' = TRUE
         /\ activeOperations' = operations
         /\ exclusiveWaiters' = Tail(exclusiveWaiters)
    ELSE /\ phase' = [p \in Roots \cup Queries |->
                         IF p \in OperationWaiters THEN "admitted" ELSE moved[p]]
         /\ exclusiveActive' = FALSE
         /\ activeOperations' = operations + Cardinality(OperationWaiters)
         /\ UNCHANGED exclusiveWaiters

(* Mutant of RequestExclusive: running statements are not waited for. *)
RequestExclusiveBarging(r) ==
    /\ phase[r] = "idle" /\ ~ exclusiveActive
    /\ phase' = [phase EXCEPT ![r] = "exclusive"]
    /\ exclusiveActive' = TRUE
    /\ UNCHANGED <<activeOperations, exclusiveWaiters, slots, slotWaiters>>

(* exclusive() is called, and returns to the caller it made wait. *)
RequestExclusive(r) ==
    /\ phase[r] = "idle"
    /\ IF exclusiveActive \/ activeOperations > 0
       THEN /\ phase' = [phase EXCEPT ![r] = "waiting"]
            /\ exclusiveWaiters' = Append(exclusiveWaiters, r)
            /\ UNCHANGED exclusiveActive
       ELSE /\ phase' = [phase EXCEPT ![r] = "exclusive"]
            /\ exclusiveActive' = TRUE
            /\ UNCHANGED exclusiveWaiters
    /\ UNCHANGED <<activeOperations, slots, slotWaiters>>

ResumeExclusive(r) ==
    /\ phase[r] = "handed"
    /\ phase' = [phase EXCEPT ![r] = "exclusive"]
    /\ UNCHANGED <<exclusiveActive, activeOperations, exclusiveWaiters, slots, slotWaiters>>

LeaveExclusive(r) ==
    /\ phase[r] = "exclusive"
    /\ Wake([phase EXCEPT ![r] = "idle"], FALSE, activeOperations)
    /\ UNCHANGED <<slots, slotWaiters>>

(* A statement that counts among "operations" takes a slot, waits, or fails. *)
TakeSlot(q, operations) ==
    \/ /\ slots < Limit
       /\ slots' = slots + 1
       /\ phase' = [phase EXCEPT ![q] = "running"]
       /\ activeOperations' = operations
       /\ UNCHANGED <<exclusiveActive, exclusiveWaiters, slotWaiters>>
    \/ /\ slots >= Limit
       /\ Len(slotWaiters) < QueueLimit
       /\ slotWaiters' = Append(slotWaiters, q)
       /\ phase' = [phase EXCEPT ![q] = "slot"]
       /\ activeOperations' = operations
       /\ UNCHANGED <<exclusiveActive, exclusiveWaiters, slots>>
    \/ /\ slots >= Limit
       /\ Len(slotWaiters) >= QueueLimit
       /\ Wake([phase EXCEPT ![q] = "idle"], exclusiveActive, operations - 1)
       /\ UNCHANGED <<slots, slotWaiters>>

(* Mutant of RequestOperation: the gate is not asked. *)
RequestOperationBarging(q) == phase[q] = "idle" /\ TakeSlot(q, activeOperations + 1)

(* schedule() is called, and goes on when the gate made it wait. *)
RequestOperation(q) ==
    /\ phase[q] = "idle"
    /\ IF exclusiveActive \/ ExclusivePending
       THEN /\ phase' = [phase EXCEPT ![q] = "waiting"]
            /\ UNCHANGED <<exclusiveActive, activeOperations, exclusiveWaiters, slots, slotWaiters>>
       ELSE TakeSlot(q, activeOperations + 1)

EnterOperation(q) == phase[q] = "admitted" /\ TakeSlot(q, activeOperations)

(* The statement ends: its slot goes to the first that waits for one, then it leaves the gate. *)
FinishOperation(q) ==
    /\ phase[q] = "running"
    /\ IF slotWaiters = <<>>
       THEN /\ slots' = slots - 1
            /\ Wake([phase EXCEPT ![q] = "idle"], exclusiveActive, activeOperations - 1)
            /\ UNCHANGED slotWaiters
       ELSE /\ slotWaiters' = Tail(slotWaiters)
            /\ Wake([phase EXCEPT ![q] = "idle", ![Head(slotWaiters)] = "running"],
                    exclusiveActive, activeOperations - 1)
            /\ UNCHANGED slots

SchedulerNext ==
    \/ \E r \in Roots : RequestExclusive(r) \/ ResumeExclusive(r) \/ LeaveExclusive(r)
    \/ \E q \in Queries : RequestOperation(q) \/ EnterOperation(q) \/ FinishOperation(q)

SchedulerSpec == SchedulerInit /\ [][SchedulerNext]_gateVars

(* Transactions and statements end, and whoever was let in goes on. *)
Fairness ==
    /\ \A r \in Roots : WF_gateVars(ResumeExclusive(r)) /\ WF_gateVars(LeaveExclusive(r))
    /\ \A q \in Queries : WF_gateVars(EnterOperation(q)) /\ WF_gateVars(FinishOperation(q))

FairSpec == SchedulerSpec /\ Fairness

(***************************************************************************)
(* Isolation: at most one root transaction is inside the gate, and while   *)
(* one is, or is about to be, no plain statement has passed it.            *)
(***************************************************************************)
Holders == {q \in Queries : phase[q] \in {"admitted", "slot", "running"}}

Inside == At(Roots, "handed") \cup At(Roots, "exclusive")

Isolation == \A r \in Inside : Inside = {r} /\ Holders = {}

(* NoLostWakeup: no caller is left at a gate that nobody holds, nor without a free slot. *)
NoLostWakeup ==
    /\ Inside = {} /\ Holders = {} => At(Roots \cup Queries, "waiting") = {}
    /\ At(Queries, "slot") # {} => Cardinality(At(Queries, "running")) = Limit

(***************************************************************************)
(* Served: a root transaction that waits gets in, however many statements  *)
(* come; and a waiting statement gets past the gate, unless root           *)
(* transactions keep coming: there, wake() always prefers the next one.    *)
(***************************************************************************)
Served ==
    /\ \A r \in Roots : phase[r] = "waiting" ~> phase[r] = "exclusive"
    /\ ([]<>(Inside = {} /\ exclusiveWaiters = <<>>)) =>
            \A q \in Queries : phase[q] = "waiting" ~> phase[q] # "waiting"

(* Implements: the gate grants the abstract access to the connection. *)
Access == INSTANCE ConnectionAccess WITH
    owners <- At(Roots, "exclusive"), readers <- At(Queries, "running")

Implements == Access!AccessSpec
=============================================================================
