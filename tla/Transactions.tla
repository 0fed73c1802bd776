----------------------------- MODULE Transactions -----------------------------
(***************************************************************************)
(* Transactions of a database connection that cannot run them side by side *)
(* (packages/db/src/core/DatabaseContext.ts, behind the scheduler's gate): *)
(* root transactions with attempts, savepoints that queue up per parent,   *)
(* and the callbacks and entity restores that wait for the outcome.        *)
(*                                                                         *)
(* A scope is a root transaction or a savepoint.  Its callback registers   *)
(* an afterRollback callback, writes a row and registers an afterCommit    *)
(* callback, in this order, and may fail anywhere.  Rows and callbacks are *)
(* named <<scope, attempt>>.  The driver is modelled as a stack of layers, *)
(* the transaction and its savepoints, with the rows written in each.      *)
(***************************************************************************)
EXTENDS QueryScheduler, SequencesExt

CONSTANTS
    Savepoints,   \* calls of transaction() inside another transaction
    Parent,       \* the scope each is called in
    MaxAttempts,  \* the option "attempts" of each root transaction
    Structured    \* a callback awaits what it starts before it goes on

Scopes == Roots \cup Savepoints

ASSUME TransactionAssumption ==
    /\ Savepoints \cap (Roots \cup Queries) = {}
    /\ Parent \in [Savepoints -> Scopes]
    /\ MaxAttempts \in [Roots -> Nat \ {0}]
    /\ Structured \in BOOLEAN

VARIABLES
    stage,      \* how far the scope is
    attempt,    \* attempts a root transaction has started
    progress,   \* steps of its callback the scope has taken
    turn,       \* the savepoints queued in a scope, the first one running
    layers,     \* the driver's open transaction
    durable,    \* rows committed
    onCommit,   \* afterCommit callbacks a scope holds
    onRollback, \* afterRollback callbacks a scope holds
    restores,   \* entities to put back should the commit fail
    fired,      \* callbacks that ran
    known       \* root transactions whose outcome no error has blurred

scopeVars == <<stage, attempt, progress, turn>>
driverVars == <<layers, durable>>
callbackVars == <<onCommit, onRollback, restores, fired, known>>
vars == <<gateVars, scopeVars, driverVars, callbackVars>>

(* The scope with the scopes around it, the least set that has the parent of each. *)
Enclosing(C) == \A s \in C \cap Savepoints : Parent[s] \in C

Lineage == [s \in Scopes |->
              {t \in Scopes : \A C \in SUBSET Scopes : s \in C /\ Enclosing(C) => t \in C}]

RootOf(s) == CHOOSE r \in Roots : r \in Lineage[s]

Name(s) == <<s, attempt[RootOf(s)]>>

(* The scope's frame, and every one around it, is open. *)
Running == {s \in Scopes : stage[s] \in {"open", "returned", "threw", "conflict"}}

Active(s) == Lineage[s] \subseteq Running

(* A callback takes its next step; a structured one awaited what it started. *)
InCallback(s) ==
    /\ stage[s] = "open"
    /\ Structured => \A c \in Savepoints : Parent[c] = s => stage[c] \in {"idle", "saved", "failed"}

Rows == UNION {{s} \X (1 .. MaxAttempts[RootOf(s)]) : s \in Scopes}

(* Every savepoint is inside a root transaction, and a statement is not a scope's row. *)
ASSUME NestingAssumption ==
    /\ \A s \in Scopes : Lineage[s] \cap Roots # {}
    /\ Queries \cap Rows = {}

(* The type invariant. *)
TypeOK ==
    /\ SchedulerTypeOK
    /\ stage \in [Scopes -> {"idle", "queued", "open", "returned", "threw", "conflict", "undone",
                             "redo", "saved", "committed", "failed"}]
    /\ attempt \in [Roots -> Nat] /\ \A r \in Roots : attempt[r] <= MaxAttempts[r]
    /\ progress \in [Scopes -> 0 .. 3]
    /\ turn \in [Scopes -> Seq(Savepoints)]
    /\ layers \in Seq([scope : Scopes, rows : SUBSET (Rows \cup Queries)])
    /\ durable \subseteq Rows
    /\ {onCommit, onRollback} \subseteq [Scopes -> Seq(Rows)]
    /\ restores \in [Scopes -> SUBSET Rows]
    /\ fired \subseteq {"commit", "rollback"} \X Rows
    /\ known \subseteq Roots

Init ==
    /\ SchedulerInit
    /\ stage = [s \in Scopes |-> "idle"]
    /\ attempt = [r \in Roots |-> 0]
    /\ progress = [s \in Scopes |-> 0]
    /\ turn = [s \in Scopes |-> <<>>]
    /\ layers = <<>>
    /\ durable = {}
    /\ onCommit = [s \in Scopes |-> <<>>]
    /\ onRollback = [s \in Scopes |-> <<>>]
    /\ restores = [s \in Scopes |-> {}]
    /\ fired = {}
    /\ known = Roots

(***************************************************************************)
(* The driver: a row goes to the innermost open savepoint, and is durable  *)
(* at once when no transaction is open; releasing a savepoint moves its    *)
(* rows, and those of the ones inside it, outwards.                        *)
(***************************************************************************)
LayerRows(from) == UNION {layers[i].rows : i \in from .. Len(layers)}

Put(row) ==
    IF layers = <<>>
    THEN durable' = durable \cup ({row} \cap Rows) /\ UNCHANGED layers
    ELSE layers' = [layers EXCEPT ![Len(layers)].rows = @ \cup {row}] /\ UNCHANGED durable

LayersOf(s) == {i \in DOMAIN layers : layers[i].scope = s}

OpenLayer(s) == layers' = Append(layers, [scope |-> s, rows |-> {}]) /\ UNCHANGED durable

CommitLayers == layers' = <<>> /\ durable' = durable \cup (LayerRows(1) \cap Rows)

DropLayers == layers' = <<>> /\ UNCHANGED durable

MergeLayer(i) ==
    IF i = 1
    THEN CommitLayers
    ELSE /\ layers' = [SubSeq(layers, 1, i - 1) EXCEPT ![i - 1].rows = @ \cup LayerRows(i)]
         /\ UNCHANGED durable

EmptyLayer(i) == layers' = [SubSeq(layers, 1, i) EXCEPT ![i].rows = {}] /\ UNCHANGED durable

(***************************************************************************)
(* Root transactions.  Leaving the transaction gives the gate back.        *)
(***************************************************************************)
Request(r) ==
    /\ stage[r] = "idle"
    /\ RequestExclusive(r)
    /\ UNCHANGED <<scopeVars, driverVars, callbackVars>>

Resume(r) == ResumeExclusive(r) /\ UNCHANGED <<scopeVars, driverVars, callbackVars>>

BeginTransaction(r) ==
    /\ phase[r] = "exclusive" /\ stage[r] = "idle"
    /\ layers = <<>>
    /\ OpenLayer(r)
    /\ stage' = [stage EXCEPT ![r] = "open"]
    /\ attempt' = [attempt EXCEPT ![r] = @ + 1]
    /\ UNCHANGED <<gateVars, progress, turn, callbackVars>>

(* What the next attempt starts from. *)
Reset(r, field, value) ==
    [s \in Scopes |-> IF s # r /\ r \in Lineage[s] THEN value ELSE field[s]]

Retry(r, tries) ==
    /\ stage' = [Reset(r, stage, "idle") EXCEPT ![r] = "idle"]
    /\ progress' = [Reset(r, progress, 0) EXCEPT ![r] = 0]
    /\ onCommit' = [onCommit EXCEPT ![r] = <<>>]
    /\ onRollback' = [onRollback EXCEPT ![r] = <<>>]
    /\ restores' = [restores EXCEPT ![r] = {}]
    /\ tries < MaxAttempts[r]
    /\ UNCHANGED turn

GiveUp(r) ==
    /\ stage' = [stage EXCEPT ![r] = "failed"]
    /\ onCommit' = [onCommit EXCEPT ![r] = <<>>]
    /\ onRollback' = [onRollback EXCEPT ![r] = <<>>]
    /\ restores' = [restores EXCEPT ![r] = {}]
    /\ UNCHANGED <<progress, turn>>

(* The driver refuses to begin, as it must inside a transaction; a busy database is retried. *)
BeginFails(r) ==
    /\ phase[r] = "exclusive" /\ stage[r] = "idle"
    /\ attempt' = [attempt EXCEPT ![r] = @ + 1]
    /\ LeaveExclusive(r)
    /\ GiveUp(r) \/ (layers = <<>> /\ Retry(r, attempt[r] + 1))
    /\ UNCHANGED <<driverVars, fired, known>>

Commit(r) ==
    /\ stage[r] = "returned"
    /\ layers # <<>>
    /\ CommitLayers
    /\ LeaveExclusive(r)
    /\ stage' = [stage EXCEPT ![r] = "committed"]
    /\ restores' = [restores EXCEPT ![r] = {}]
    /\ UNCHANGED <<attempt, progress, turn, onCommit, onRollback, fired, known>>

(* Mutant of CommitFails: a commit that may have been applied is retried as well. *)
CommitFailsRetried(r) ==
    /\ stage[r] = "returned"
    /\ LeaveExclusive(r)
    /\ known' = known \ {r}
    /\ CommitLayers \/ DropLayers
    /\ GiveUp(r) \/ Retry(r, attempt[r])
    /\ UNCHANGED <<attempt, fired>>

(***************************************************************************)
(* commit() rejects: the rows may be durable, no callback runs, and the    *)
(* entities saved go back to what they were.  A concurrency error says     *)
(* that nothing was committed, and is retried.                             *)
(***************************************************************************)
CommitFails(r) ==
    /\ stage[r] = "returned"
    /\ LeaveExclusive(r)
    /\ known' = known \ {r}
    /\ \/ CommitLayers /\ GiveUp(r)
       \/ (DropLayers \/ UNCHANGED driverVars) /\ (GiveUp(r) \/ Retry(r, attempt[r]))
    /\ UNCHANGED <<attempt, fired>>

Rollback(r) ==
    /\ r \in Roots /\ stage[r] \in {"threw", "conflict"}
    /\ DropLayers
    /\ LeaveExclusive(r)
    /\ stage' = [stage EXCEPT ![r] = IF @ = "conflict" THEN "redo" ELSE "undone"]
    /\ restores' = [restores EXCEPT ![r] = {}]
    /\ UNCHANGED <<attempt, progress, turn, onCommit, onRollback, fired, known>>

(* No callback runs, no attempt follows, and the transaction may be open for good. *)
RollbackFails(r) ==
    /\ r \in Roots /\ stage[r] \in {"threw", "conflict"}
    /\ DropLayers \/ UNCHANGED driverVars
    /\ LeaveExclusive(r)
    /\ GiveUp(r)
    /\ known' = known \ {r}
    /\ UNCHANGED <<attempt, fired>>

(* _runAfterCommitCallbacks: in order, and the first failure skips the rest. *)
AfterCommit(r) ==
    /\ stage[r] = "committed" /\ onCommit[r] # <<>>
    /\ fired' = fired \cup {<<"commit", Head(onCommit[r])>>}
    /\ \/ /\ onCommit' = [onCommit EXCEPT ![r] = Tail(@)]
          /\ UNCHANGED known
       \/ /\ onCommit' = [onCommit EXCEPT ![r] = <<>>]
          /\ known' = known \ {r}
    /\ UNCHANGED <<gateVars, scopeVars, driverVars, onRollback, restores>>

(***************************************************************************)
(* _runAfterRollbackCallbacks, in reverse order and through failures; a    *)
(* failure turns the error into one that is not retried.                   *)
(***************************************************************************)
AfterRollback(s) ==
    /\ stage[s] \in {"undone", "redo"} /\ onRollback[s] # <<>>
    /\ fired' = fired \cup {<<"rollback", Last(onRollback[s])>>}
    /\ onRollback' = [onRollback EXCEPT ![s] = Front(@)]
    /\ stage' \in {stage, [stage EXCEPT ![s] = "undone"]}
    /\ UNCHANGED <<gateVars, attempt, progress, turn, driverVars, onCommit, restores, known>>

Settled(s) ==
    /\ stage[s] \in {"undone", "redo"} /\ onRollback[s] = <<>>
    /\ IF stage[s] = "redo" /\ attempt[s] < MaxAttempts[s] THEN Retry(s, attempt[s]) ELSE GiveUp(s)
    /\ UNCHANGED <<gateVars, attempt, driverVars, fired, known>>

(***************************************************************************)
(* What a scope's callback does.                                           *)
(***************************************************************************)
RegisterRollback(s) ==
    /\ InCallback(s) /\ progress[s] = 0 /\ Active(s)
    /\ progress' = [progress EXCEPT ![s] = 1]
    /\ onRollback' = [onRollback EXCEPT ![s] = Append(@, Name(s))]
    /\ UNCHANGED <<gateVars, stage, attempt, turn, driverVars, onCommit, restores, fired, known>>

Write(s) ==
    /\ InCallback(s) /\ progress[s] = 1
    /\ progress' = [progress EXCEPT ![s] = 2]
    /\ Put(Name(s))
    /\ restores' = [restores EXCEPT ![s] = @ \cup {Name(s)}]
    /\ UNCHANGED <<gateVars, stage, attempt, turn, onCommit, onRollback, fired, known>>

RegisterCommit(s) ==
    /\ InCallback(s) /\ progress[s] = 2 /\ Active(s)
    /\ progress' = [progress EXCEPT ![s] = 3]
    /\ onCommit' = [onCommit EXCEPT ![s] = Append(@, Name(s))]
    /\ UNCHANGED <<gateVars, stage, attempt, turn, driverVars, onRollback, restores, fired, known>>

End(s) ==
    /\ InCallback(s)
    /\ \E outcome \in {"returned", "threw"} \cup (IF s \in Roots THEN {"conflict"} ELSE {}) :
           stage' = [stage EXCEPT ![s] = outcome]
    /\ UNCHANGED <<gateVars, attempt, progress, turn, driverVars, callbackVars>>

(***************************************************************************)
(* Savepoints.  transaction() looks at its parent when it is called; the   *)
(* savepoint is created when those before it in the parent have ended.     *)
(***************************************************************************)
Start(s) ==
    /\ stage[s] = "idle"
    /\ stage[Parent[s]] = "open" /\ Active(Parent[s])
    /\ stage' = [stage EXCEPT ![s] = "queued"]
    /\ turn' = [turn EXCEPT ![Parent[s]] = Append(@, s)]
    /\ UNCHANGED <<gateVars, attempt, progress, driverVars, callbackVars>>

CreateSavepoint(s) ==
    /\ stage[s] = "queued" /\ Head(turn[Parent[s]]) = s
    /\ \/ /\ OpenLayer(s)
          /\ stage' = [stage EXCEPT ![s] = "open"]
          /\ UNCHANGED turn
       \/ /\ stage' = [stage EXCEPT ![s] = "failed"]
          /\ turn' = [turn EXCEPT ![Parent[s]] = Tail(@)]
          /\ UNCHANGED driverVars
    /\ UNCHANGED <<gateVars, attempt, progress, callbackVars>>

(* Move what "from" holds to its parent, as _mergeCommittedTransactionCallbacks does. *)
Handed(held, s, merged) == [held EXCEPT ![Parent[s]] = merged, ![s] = <<>>]

RestoresToParent(s) ==
    restores' = [restores EXCEPT ![Parent[s]] = @ \cup restores[s], ![s] = {}]

(* Mutant of ReleaseSavepoint: the afterRollback callbacks stay behind. *)
ReleaseSavepointForgets(s) ==
    /\ s \in Savepoints /\ stage[s] = "returned"
    /\ \E i \in LayersOf(s) : MergeLayer(i)
    /\ stage' = [stage EXCEPT ![s] = "saved"]
    /\ turn' = [turn EXCEPT ![Parent[s]] = Tail(@)]
    /\ onCommit' = Handed(onCommit, s, onCommit[Parent[s]] \o onCommit[s])
    /\ onRollback' = [onRollback EXCEPT ![s] = <<>>]
    /\ RestoresToParent(s)
    /\ UNCHANGED <<gateVars, attempt, progress, fired, known>>

ReleaseSavepoint(s) ==
    /\ s \in Savepoints /\ stage[s] = "returned"
    /\ \E i \in LayersOf(s) : MergeLayer(i)
    /\ stage' = [stage EXCEPT ![s] = "saved"]
    /\ turn' = [turn EXCEPT ![Parent[s]] = Tail(@)]
    /\ onCommit' = Handed(onCommit, s, onCommit[Parent[s]] \o onCommit[s])
    /\ onRollback' = Handed(onRollback, s, onRollback[Parent[s]] \o onRollback[s])
    /\ RestoresToParent(s)
    /\ UNCHANGED <<gateVars, attempt, progress, fired, known>>

ReleaseFails(s) ==
    /\ s \in Savepoints /\ stage[s] = "returned"
    /\ stage' = [stage EXCEPT ![s] = "threw"]
    /\ UNCHANGED <<gateVars, attempt, progress, turn, driverVars, callbackVars>>

(* Its callbacks run after the savepoints queued behind it may go on. *)
RollbackToSavepoint(s) ==
    /\ s \in Savepoints /\ stage[s] = "threw"
    /\ \E i \in LayersOf(s) : EmptyLayer(i)
    /\ stage' = [stage EXCEPT ![s] = "undone"]
    /\ turn' = [turn EXCEPT ![Parent[s]] = Tail(@)]
    /\ restores' = [restores EXCEPT ![s] = {}]
    /\ UNCHANGED <<gateVars, attempt, progress, onCommit, onRollback, fired, known>>

(* Mutant of RollbackToFails: the callbacks run although the rows may stay. *)
RollbackToFailsSettling(s) ==
    /\ s \in Savepoints /\ stage[s] = "threw"
    /\ stage' = [stage EXCEPT ![s] = "undone"]
    /\ turn' = [turn EXCEPT ![Parent[s]] = Tail(@)]
    /\ RestoresToParent(s)
    /\ UNCHANGED <<gateVars, attempt, progress, driverVars, onCommit, onRollback, fired, known>>

RollbackToFails(s) ==
    /\ s \in Savepoints /\ stage[s] = "threw"
    /\ stage' = [stage EXCEPT ![s] = "failed"]
    /\ turn' = [turn EXCEPT ![Parent[s]] = Tail(@)]
    /\ onCommit' = [onCommit EXCEPT ![s] = <<>>]
    /\ onRollback' = [onRollback EXCEPT ![s] = <<>>]
    /\ RestoresToParent(s)
    /\ known' = known \ {RootOf(s)}
    /\ UNCHANGED <<gateVars, attempt, progress, driverVars, fired>>

(* Statements outside any transaction, which write a row too. *)
Statement(q) ==
    /\ \/ RequestOperation(q) /\ UNCHANGED driverVars
       \/ EnterOperation(q) /\ UNCHANGED driverVars
       \/ FinishOperation(q) /\ Put(q)
    /\ UNCHANGED <<scopeVars, callbackVars>>

RootStep(r) ==
    \/ Request(r) \/ Resume(r) \/ BeginTransaction(r) \/ BeginFails(r) \/ Commit(r)
    \/ CommitFails(r) \/ Rollback(r) \/ RollbackFails(r) \/ AfterCommit(r)

ScopeStep(s) ==
    \/ RegisterRollback(s) \/ Write(s) \/ RegisterCommit(s) \/ End(s)
    \/ AfterRollback(s) \/ Settled(s)

SavepointStep(s) ==
    \/ Start(s) \/ CreateSavepoint(s) \/ ReleaseSavepoint(s) \/ ReleaseFails(s)
    \/ RollbackToSavepoint(s) \/ RollbackToFails(s)

Next ==
    \/ \E r \in Roots : RootStep(r)
    \/ \E s \in Scopes : ScopeStep(s)
    \/ \E s \in Savepoints : SavepointStep(s)
    \/ \E q \in Queries : Statement(q)

Spec == Init /\ [][Next]_vars

(***************************************************************************)
(* Atomic: a row is durable only when the attempt it belongs to is the     *)
(* last one of its root transaction, and that committed, unless the driver *)
(* left the outcome open.                                                  *)
(***************************************************************************)
Atomic ==
    \A row \in durable :
        LET r == RootOf(row[1])
        IN  row[2] = attempt[r] /\ (r \in known => stage[r] = "committed")

(***************************************************************************)
(* CallbacksTellTruth: an afterCommit callback runs only for a row that is *)
(* durable, an afterRollback callback only for one that is neither durable *)
(* nor can become so, whichever savepoints released, failed or were merged *)
(* in between.                                                             *)
(***************************************************************************)
CallbacksTellTruth ==
    \A row \in Rows :
        /\ <<"commit", row>> \in fired => row \in durable
        /\ <<"rollback", row>> \in fired => row \notin durable \cup LayerRows(1)

(***************************************************************************)
(* NothingForgotten: once an attempt has committed or rolled back, and its *)
(* callbacks have run, every scope that wrote had the callback run that    *)
(* its row calls for, and not the other one.                               *)
(***************************************************************************)
Drained(r) ==
    \/ stage[r] = "committed" /\ onCommit[r] = <<>>
    \/ stage[r] \in {"undone", "redo"} /\ onRollback[r] = <<>>

NothingForgotten ==
    \A r \in known : Drained(r) =>
        \A s \in {x \in Scopes : r \in Lineage[x]} :
            LET saved == Name(s) \in durable
            IN  /\ progress[s] >= 2 => saved # (<<"rollback", Name(s)>> \in fired)
                /\ progress[s] = 3 => saved = (<<"commit", Name(s)>> \in fired)

(***************************************************************************)
(* Separate: while a root transaction runs, the driver's transaction holds *)
(* its own rows and those of its savepoints, and nobody else's.            *)
(***************************************************************************)
Separate ==
    \A r \in Running \cap Roots : \A row \in LayerRows(1) :
        row \in Rows /\ r \in Lineage[row[1]]
=============================================================================
