------------------------------ MODULE CacheLock ------------------------------
(***************************************************************************)
(* One named lock of the database cache driver (createDatabaseLock in      *)
(* packages/cache-db/src/index.ts): a row with its owner and the time it   *)
(* expires.  A caller takes it in a transaction of three statements, which *)
(* other callers' statements run between: it looks at the row, deletes one *)
(* that has expired, and inserts its own unless there is a row again.      *)
(***************************************************************************)
EXTENDS Naturals

CONSTANTS
    Callers,  \* callers of the lock, each with a lock object and so an owner of its own
    Ttl,      \* how long a lock lives
    Wait,     \* how long block() tries
    MaxTime,  \* bound on the clock
    None      \* no row, and no deadline: get() tries once

ASSUME CacheLockAssumption == Ttl \in Nat \ {0} /\ Wait \in Nat /\ MaxTime \in Nat /\ None \notin Nat

(* "lost" is history: a statement of the lock failed and left the row behind its owner. *)
Rows == [owner : Callers, until : Nat, lost : BOOLEAN]

ASSUME NoneNoRow == None \notin Rows

VARIABLES
    now,      \* the clock
    row,      \* the lock's row
    step,     \* where the caller is
    at,       \* nowMs: the time its attempt started
    deadline  \* when its block() gives up

lockVars == <<row, step, at, deadline>>

(* The type invariant. *)
LockTypeOK ==
    /\ now \in Nat
    /\ row \in Rows \cup {None}
    /\ step \in [Callers -> {"out", "look", "clear", "insert", "refused", "held"}]
    /\ at \in [Callers -> Nat]
    /\ deadline \in [Callers -> Nat \cup {None}]

LockInit ==
    /\ now = 0
    /\ row = None
    /\ step = [c \in Callers |-> "out"]
    /\ at = [c \in Callers |-> 0]
    /\ deadline = [c \in Callers |-> None]

(* get(): one attempt; block(): attempts until the deadline. *)
Attempt(c, until) ==
    /\ step' = [step EXCEPT ![c] = "look"]
    /\ deadline' = [deadline EXCEPT ![c] = until]
    /\ UNCHANGED <<row, at>>

(* readLock() in the transaction: a row that has not expired refuses the caller. *)
Look(c) ==
    /\ step[c] = "look"
    /\ at' = [at EXCEPT ![c] = now]
    /\ step' = [step EXCEPT ![c] =
                   IF row = None THEN "insert" ELSE IF row.until > now THEN "refused" ELSE "clear"]
    /\ UNCHANGED <<row, deadline>>

(* Mutant of Clear: the row is deleted whoever put it there since. *)
ClearAny(c) ==
    /\ step[c] = "clear"
    /\ row' = None
    /\ step' = [step EXCEPT ![c] = "insert"]
    /\ UNCHANGED <<at, deadline>>

(* The delete of an expired row, which leaves one that another caller renewed. *)
Clear(c) ==
    /\ step[c] = "clear"
    /\ row' = IF row # None /\ row.until <= at[c] THEN None ELSE row
    /\ step' = [step EXCEPT ![c] = "insert"]
    /\ UNCHANGED <<at, deadline>>

(* insertOrIgnore(): the name is the table's key, so one of two callers inserts. *)
Insert(c) ==
    /\ step[c] = "insert"
    /\ row' = IF row = None THEN [owner |-> c, until |-> at[c] + Ttl, lost |-> FALSE] ELSE row
    /\ step' = [step EXCEPT ![c] = IF row = None THEN "held" ELSE "refused"]
    /\ UNCHANGED <<at, deadline>>

(* block() sleeps and tries again before its deadline. *)
Again(c) ==
    /\ step[c] = "refused" /\ deadline[c] # None /\ now < deadline[c]
    /\ step' = [step EXCEPT ![c] = "look"]
    /\ UNCHANGED <<row, at, deadline>>

(* get() and block() return false. *)
GivesUp(c) == step[c] = "refused" /\ (deadline[c] # None => now >= deadline[c])

(* The call is over, and its variables gone. *)
Out(c) ==
    /\ step' = [step EXCEPT ![c] = "out"]
    /\ at' = [at EXCEPT ![c] = 0]
    /\ deadline' = [deadline EXCEPT ![c] = None]

(* release(): the row is deleted only if it is still the caller's own. *)
LetGo(c) ==
    /\ row' = IF row # None /\ row.owner = c THEN None ELSE row
    /\ Out(c)

Leave(c) == row' = row /\ Out(c)

(* One attempt in 50 deletes every expired lock first. *)
PruneExpiredLocks(c) ==
    /\ step[c] = "look"
    /\ row # None /\ row.until <= now
    /\ row' = None
    /\ UNCHANGED <<step, at, deadline>>

(* retryOnDeadlock(): the attempt is rolled back and starts again.  A deleted row that
   comes back has expired, and is as good as none. *)
Deadlock(c) ==
    /\ step[c] \in {"clear", "insert"}
    /\ step' = [step EXCEPT ![c] = "look"]
    /\ UNCHANGED <<row, at, deadline>>

LockStep(c) == Look(c) \/ Clear(c) \/ Insert(c) \/ Again(c) \/ PruneExpiredLocks(c) \/ Deadlock(c)

Attempting(c) == step[c] \in {"look", "clear", "insert"}

(* A statement of the attempt fails, and it is rolled back: get() and block() reject. *)
AttemptFails(c) == Attempting(c) /\ Leave(c)

(* The insert is committed and the answer lost: the call rejects, and its row stays. *)
InsertUnanswered(c) ==
    /\ step[c] = "insert" /\ row = None
    /\ row' = [owner |-> c, until |-> at[c] + Ttl, lost |-> TRUE]
    /\ Out(c)

(* The delete of release() fails, and the caller's row stays, or only its answer is lost. *)
LetGoFails(c) ==
    \/ LetGo(c)
    \/ /\ row' = IF row # None /\ row.owner = c THEN [row EXCEPT !.lost = TRUE] ELSE row
       /\ Out(c)

Tick ==
    /\ now < MaxTime
    /\ now' = now + 1
    /\ UNCHANGED lockVars

(***************************************************************************)
(* The lock excludes: of two callers that hold it, one has outlived the    *)
(* time it took the lock for, however the three statements of two attempts *)
(* interleave around an expired row and whoever releases late.             *)
(***************************************************************************)
HoldsInTime(c) == step[c] = "held" /\ now < at[c] + Ttl

LockExclusive == \A c, d \in Callers : HoldsInTime(c) /\ HoldsInTime(d) => c = d

(***************************************************************************)
(* The three statements and the clock keep what a cache lock promises: the *)
(* lock is its row's owner's while the row has not expired, granted only   *)
(* while it is free, and freed by nobody but its owner or time.            *)
(***************************************************************************)
Owner == IF row # None /\ row.until > now THEN {row.owner} ELSE {}
Holding == {c \in Callers : step[c] = "held"}
Late == {c \in Holding : now >= at[c] + Ttl}

Name == "refresh"
Promise == INSTANCE TimedLock WITH
    Names <- {Name}, Users <- Callers,
    owner <- [n \in {Name} |-> Owner], holds <- [n \in {Name} |-> Holding],
    late <- [n \in {Name} |-> Late]

ImplementsLock == Promise!Spec
=============================================================================
