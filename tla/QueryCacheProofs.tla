--------------------------- MODULE QueryCacheProofs ---------------------------
(* Proofs about CacheLock as QueryCache uses it, for any callers and any clock. *)
EXTENDS QueryCache, TLAPS

USE CacheLockAssumption

(* A caller that holds the lock in time has the row, until the time it took it for;
   attempts were started in the past. *)
RowInv ==
    /\ \A c \in Callers : at[c] <= now
    /\ \A c \in Callers : HoldsInTime(c) =>
          row # None /\ row.owner = c /\ row.until = at[c] + Ttl

(* The row belongs to a caller that has not let it go, unless a statement of the lock failed
   and left it, and will expire; an attempt ends before its caller. *)
OwnerInv ==
    /\ row # None => row.until <= now + Ttl /\ (~row.lost => step[row.owner] = "held")
    /\ \A c \in Callers : step[c] \notin {"out", "held"} => pc[c] = "lock"
    /\ \A c \in Callers : step[c] = "held" => pc[c] # "idle"

CallersInv == pc \in [Processes -> {"idle", "lock", "reread", "retry", "watched", "put", "register",
                                    "registering", "check", "list", "forget", "remove", "release"}]

LockInv == LockTypeOK /\ CallersInv /\ RowInv /\ OwnerInv

-----------------------------------------------------------------------------
(* The lock's steps *)

LEMMA LookStep ==
  ASSUME LockInv, NEW c \in Callers, Look(c), pc[c] = "lock", UNCHANGED <<now, pc>>
  PROVE  LockInv'
<1> USE DEF LockInv, LockTypeOK, Rows, Look
<1>1. LockTypeOK' /\ CallersInv'
  BY DEF CallersInv
<1>2. RowInv'
  BY DEF RowInv, HoldsInTime
<1>3. OwnerInv'
  BY DEF OwnerInv
<1> QED
  BY <1>1, <1>2, <1>3

LEMMA ClearStep ==
  ASSUME LockInv, NEW c \in Callers, Clear(c), pc[c] = "lock", UNCHANGED <<now, pc>>
  PROVE  LockInv'
<1> USE DEF LockInv, LockTypeOK, Rows, Clear
<1>1. LockTypeOK' /\ CallersInv'
  BY DEF CallersInv
<1>2. RowInv'
  BY DEF RowInv, HoldsInTime
<1>3. OwnerInv'
  BY DEF OwnerInv
<1> QED
  BY <1>1, <1>2, <1>3

LEMMA InsertStep ==
  ASSUME LockInv, NEW c \in Callers, Insert(c), pc[c] = "lock", UNCHANGED <<now, pc>>
  PROVE  LockInv'
<1> USE DEF LockInv, LockTypeOK, Rows, Insert
<1>1. CASE row # None
  <2>1. LockTypeOK' /\ CallersInv'
    BY <1>1 DEF CallersInv
  <2>2. RowInv'
    BY <1>1 DEF RowInv, HoldsInTime
  <2>3. OwnerInv'
    BY <1>1 DEF OwnerInv
  <2> QED
    BY <2>1, <2>2, <2>3
<1>2. CASE row = None
  <2> DEFINE taken == [owner |-> c, until |-> at[c] + Ttl, lost |-> FALSE]
  <2>1. /\ row' = taken /\ taken \in Rows /\ UNCHANGED <<now, pc, at, deadline>>
        /\ taken.owner = c /\ taken.until = at[c] + Ttl /\ step' = [step EXCEPT ![c] = "held"]
    BY <1>2
  <2> HIDE DEF taken
  <2>2. LockTypeOK' /\ CallersInv'
    BY <2>1 DEF CallersInv
  <2>3. RowInv'
    <3>1. \A d \in Callers \ {c} : step'[d] = step[d] /\ ~ HoldsInTime(d)
      BY <1>2, <2>1 DEF RowInv
    <3>2. row' # None
      <4> HIDE DEF Rows
      <4> QED
        BY <2>1, NoneNoRow
    <3>3. \A d \in Callers \ {c} : ~ HoldsInTime(d)'
      BY <2>1, <3>1 DEF HoldsInTime
    <3> QED
      BY <2>1, <3>2, <3>3 DEF RowInv
  <2>4. OwnerInv'
    BY <2>1 DEF OwnerInv, RowInv
  <2> QED
    BY <2>2, <2>3, <2>4
<1> QED
  BY <1>1, <1>2

LEMMA AgainStep ==
  ASSUME LockInv, NEW c \in Callers, Again(c), pc[c] = "lock", UNCHANGED <<now, pc>>
  PROVE  LockInv'
<1> USE DEF LockInv, LockTypeOK, Rows, Again
<1>1. LockTypeOK' /\ CallersInv'
  BY DEF CallersInv
<1>2. RowInv'
  BY DEF RowInv, HoldsInTime
<1>3. OwnerInv'
  BY DEF OwnerInv
<1> QED
  BY <1>1, <1>2, <1>3

LEMMA DeadlockStep ==
  ASSUME LockInv, NEW c \in Callers, Deadlock(c), pc[c] = "lock", UNCHANGED <<now, pc>>
  PROVE  LockInv'
<1> USE DEF LockInv, LockTypeOK, Rows, Deadlock
<1>1. LockTypeOK' /\ CallersInv'
  BY DEF CallersInv
<1>2. RowInv'
  BY DEF RowInv, HoldsInTime
<1>3. OwnerInv'
  BY DEF OwnerInv
<1> QED
  BY <1>1, <1>2, <1>3

LEMMA PruneStep ==
  ASSUME LockInv, NEW c \in Callers, PruneExpiredLocks(c), UNCHANGED <<now, pc>>
  PROVE  LockInv'
<1> USE DEF LockInv, LockTypeOK, Rows, PruneExpiredLocks
<1>1. LockTypeOK' /\ CallersInv'
  BY DEF CallersInv
<1>2. RowInv'
  BY DEF RowInv, HoldsInTime
<1>3. OwnerInv'
  BY DEF OwnerInv
<1> QED
  BY <1>1, <1>2, <1>3

(* A caller starts an attempt for get() or block(). *)
LEMMA AttemptStep ==
  ASSUME LockInv, NEW c \in Callers, NEW until, until \in Nat \cup {None}, Attempt(c, until),
         pc[c] = "idle", pc' = [pc EXCEPT ![c] = "lock"], UNCHANGED now
  PROVE  LockInv'
<1> USE DEF LockInv, LockTypeOK, Rows, Attempt
<1>1. LockTypeOK' /\ CallersInv'
  BY DEF CallersInv, Processes
<1>2. RowInv'
  BY DEF RowInv, HoldsInTime
<1>3. OwnerInv'
  BY DEF OwnerInv, CallersInv, Processes
<1> QED
  BY <1>1, <1>2, <1>3

(* A caller that does not hold the lock ends its call of it. *)
LEMMA LeaveStep ==
  ASSUME LockInv, NEW c \in Callers, Leave(c), step[c] # "held", NEW place,
         place \in {"idle", "reread"}, pc' = [pc EXCEPT ![c] = place], UNCHANGED now
  PROVE  LockInv'
<1> USE DEF LockInv, LockTypeOK, Rows, Leave, Out
<1>1. LockTypeOK' /\ CallersInv'
  BY DEF CallersInv, Processes
<1>2. RowInv'
  BY DEF RowInv, HoldsInTime
<1>3. OwnerInv'
  BY DEF OwnerInv, CallersInv, Processes
<1> QED
  BY <1>1, <1>2, <1>3

(* release(), by the caller whose lock it may no longer be. *)
LEMMA LetGoStep ==
  ASSUME LockInv, NEW c \in Callers, LetGo(c), pc' = [pc EXCEPT ![c] = "idle"], UNCHANGED now
  PROVE  LockInv'
<1> USE DEF LockInv, LockTypeOK, Rows, LetGo, Out
<1>1. LockTypeOK' /\ CallersInv'
  BY DEF CallersInv, Processes
<1>2. RowInv'
  BY DEF RowInv, HoldsInTime
<1>3. OwnerInv'
  BY DEF OwnerInv, CallersInv, Processes
<1> QED
  BY <1>1, <1>2, <1>3

(* The insert's answer is lost: the row stays, and nobody works under it. *)
LEMMA UnansweredStep ==
  ASSUME LockInv, NEW c \in Callers, InsertUnanswered(c), pc' = [pc EXCEPT ![c] = "idle"], UNCHANGED now
  PROVE  LockInv'
<1> USE DEF LockInv, LockTypeOK, Rows, InsertUnanswered, Out
<1> DEFINE left == [owner |-> c, until |-> at[c] + Ttl, lost |-> TRUE]
<1>1. row = None /\ row' = left /\ left \in Rows /\ left.owner = c /\ left.until = at[c] + Ttl /\ left.lost
  OBVIOUS
<1> HIDE DEF left
<1>2. LockTypeOK' /\ CallersInv'
  BY <1>1 DEF CallersInv, Processes
<1>3. RowInv'
  BY <1>1 DEF RowInv, HoldsInTime
<1>4. OwnerInv'
  BY <1>1 DEF OwnerInv, RowInv, CallersInv, Processes
<1> QED
  BY <1>2, <1>3, <1>4

(* The delete of release() fails: the caller's row stays. *)
LEMMA KeepsRowStep ==
  ASSUME LockInv, NEW c \in Callers, Out(c), pc' = [pc EXCEPT ![c] = "idle"], UNCHANGED now,
         row' = IF row # None /\ row.owner = c THEN [row EXCEPT !.lost = TRUE] ELSE row
  PROVE  LockInv'
<1> USE DEF LockInv, LockTypeOK, Rows, Out
<1>1. /\ row' = None <=> row = None
      /\ row # None => /\ row' \in Rows /\ row'.owner = row.owner /\ row'.until = row.until
                       /\ row'.lost = (row.lost \/ row.owner = c)
  <2>1. CASE row # None /\ row.owner = c
    <3>1. /\ row' = [row EXCEPT !.lost = TRUE] /\ row' \in Rows
          /\ row'.owner = row.owner /\ row'.until = row.until /\ row'.lost = TRUE
      BY <2>1
    <3> QED
      BY <2>1, <3>1, NoneNoRow
  <2>2. CASE ~ (row # None /\ row.owner = c)
    BY <2>2
  <2> QED
    BY <2>1, <2>2
<1>2. LockTypeOK' /\ CallersInv'
  BY <1>1 DEF CallersInv, Processes
<1>3. RowInv'
  BY <1>1 DEF RowInv, HoldsInTime
<1>4. OwnerInv'
  BY <1>1 DEF OwnerInv, CallersInv, Processes
<1> QED
  BY <1>2, <1>3, <1>4

LEMMA TickStep ==
  ASSUME LockInv, Tick, UNCHANGED pc
  PROVE  LockInv'
<1> USE DEF LockInv, LockTypeOK, Rows, Tick, lockVars
<1>1. LockTypeOK' /\ CallersInv'
  BY DEF CallersInv
<1>2. RowInv'
  BY DEF RowInv, HoldsInTime
<1>3. OwnerInv'
  BY DEF OwnerInv
<1> QED
  BY <1>1, <1>2, <1>3

(* Steps outside the lock: a process goes on, neither to the lock nor, a caller, to "idle". *)
LEMMA GoStep ==
  ASSUME LockInv, NEW p \in Processes, NEW place, Go(p, place), UNCHANGED <<now, lockVars>>,
         place \in {"idle", "reread", "watched", "put", "register", "registering", "check", "list",
                    "forget", "remove", "release"},
         p \in Callers => place # "idle" /\ (pc[p] = "lock" => step[p] = "held")
  PROVE  LockInv'
<1> USE DEF LockInv, LockTypeOK, Rows, Go, lockVars
<1>1. LockTypeOK' /\ CallersInv'
  BY DEF CallersInv
<1>2. RowInv'
  BY DEF RowInv, HoldsInTime
<1>3. OwnerInv'
  <2>1. \A c \in Callers : c \in Processes
    BY DEF Processes
  <2>2. \A c \in Callers : pc'[c] = IF c = p THEN place ELSE pc[c]
    BY <2>1 DEF CallersInv
  <2> QED
    BY <2>2 DEF OwnerInv
<1> QED
  BY <1>1, <1>2, <1>3

LEMMA SameStep ==
  ASSUME LockInv, UNCHANGED <<now, lockVars, pc>>
  PROVE  LockInv'
BY DEF LockInv, LockTypeOK, CallersInv, RowInv, OwnerInv, HoldsInTime, lockVars

-----------------------------------------------------------------------------
(* The steps of the query cache *)

LEMMA LockInit1 == Init => LockInv
BY DEF Init, LockInit, LockInv, LockTypeOK, CallersInv, RowInv, OwnerInv, HoldsInTime

LEMMA CallerSteps ==
  ASSUME LockInv, NEW c \in Callers, Ask(c) \/ CallerStep(c) \/ Failure(c)
  PROVE  LockInv'
<1>1. c \in Processes
  BY DEF Processes
<1>2. CASE Ask(c)
  <2>1. (IF State = "stale" THEN None ELSE now + Wait) \in Nat \cup {None}
    BY DEF LockInv, LockTypeOK
  <2> QED
    BY <1>2, <2>1, AttemptStep DEF Ask, Go
<1>3. CASE Locking(c)
  BY <1>3, LookStep, ClearStep, InsertStep, AgainStep, PruneStep, DeadlockStep
  DEF Locking, LockStep, cacheVars
<1>4. CASE Refused(c)
  <2>1. step[c] = "refused" /\ Leave(c) /\ UNCHANGED now
    BY <1>4 DEF Refused, GivesUp
  <2>2. CASE deadline[c] = None
    BY <1>4, <2>1, <2>2, LeaveStep DEF Refused, Go
  <2>3. CASE deadline[c] # None
    BY <1>4, <2>1, <2>3, LeaveStep DEF Refused, Go
  <2> QED
    BY <2>2, <2>3
<1>5. CASE Release(c)
  <2>1. pc' = [pc EXCEPT ![c] = "idle"] /\ UNCHANGED now
    BY <1>5 DEF Release, Done, Go
  <2>2. CASE step[c] = "held"
    BY <1>5, <2>1, <2>2, LetGoStep DEF Release
  <2>3. CASE step[c] # "held"
    BY <1>5, <2>1, <2>3, LeaveStep DEF Release
  <2> QED
    BY <2>2, <2>3
<1>6. ASSUME NEW place, Go(c, place), UNCHANGED <<now, lockVars>>,
             place \in {"reread", "watched", "put", "register", "registering", "check", "forget",
                        "release"},
             pc[c] = "lock" => step[c] = "held"
      PROVE  LockInv'
  BY <1>1, <1>6, GoStep
<1>7. CASE Locked(c)
  BY <1>6, <1>7 DEF Locked
<1>8. CASE Reread(c)
  BY <1>6, <1>8 DEF Reread
<1>9. CASE Read(c)
  BY <1>6, <1>9 DEF Read
<1>10. CASE Put(c)
  BY <1>6, <1>10 DEF Put
<1>11. CASE Unregister(c)
  BY <1>6, <1>11 DEF Unregister
<1>12. CASE Register(c)
  BY <1>6, <1>12 DEF Register
<1>13. CASE Check(c)
  BY <1>6, <1>13 DEF Check
<1>14. CASE RefreshFails(c)
  BY <1>6, <1>14 DEF RefreshFails
<1>15. CASE LockFails(c)
  <2>1. pc' = [pc EXCEPT ![c] = "idle"] /\ UNCHANGED now /\ (AttemptFails(c) \/ InsertUnanswered(c))
    BY <1>15 DEF LockFails, Go
  <2>2. CASE AttemptFails(c)
    BY <2>1, <2>2, LeaveStep DEF AttemptFails, Attempting
  <2>3. CASE InsertUnanswered(c)
    BY <2>1, <2>3, UnansweredStep
  <2> QED
    BY <2>1, <2>2, <2>3
<1>16. CASE ReleaseFails(c)
  <2>1. pc' = [pc EXCEPT ![c] = "idle"] /\ UNCHANGED now /\ LetGoFails(c)
    BY <1>16 DEF ReleaseFails, Done, Go
  <2> QED
    BY <2>1, LetGoStep, KeepsRowStep DEF LetGoFails
<1> QED
  BY <1>2, <1>3, <1>4, <1>5, <1>7, <1>8, <1>9, <1>10, <1>11, <1>12, <1>13, <1>14, <1>15, <1>16
  DEF CallerStep, Failure

LEMMA OtherSteps ==
  ASSUME LockInv,
         \/ \E w \in Writers : Commit(w) \/ Evict(w)
         \/ \E p \in Processes : Forget(p) \/ ForgetFails(p) \/ RemoveKey(p)
         \/ RemoteCommit \/ Receive \/ DrainTables
         \/ Time
  PROVE  LockInv'
<1>1. Drain \in Processes /\ Drain \notin Callers
      /\ \A w \in Writers : w \in Processes /\ w \notin Callers
  BY QueryCacheAssumption DEF Processes
<1>2. ASSUME NEW w \in Writers, Commit(w) \/ Evict(w) PROVE LockInv'
  <2>1. CASE Commit(w)
    BY <1>1, <2>1, GoStep DEF Commit
  <2>2. CASE Evict(w)
    <3>1. PICK place \in {"forget", "idle"} : Go(w, place)
      BY <2>2 DEF Evict
    <3> QED
      BY <1>1, <2>2, <3>1, GoStep DEF Evict
  <2> QED
    BY <1>2, <2>1, <2>2
<1>3. ASSUME NEW p \in Processes, Forget(p) \/ ForgetFails(p) \/ RemoveKey(p) PROVE LockInv'
  <2>1. CASE Forget(p)
    BY <2>1, GoStep DEF Forget
  <2>2. CASE ForgetFails(p)
    <3>1. CASE p \in Callers
      BY <2>2, <3>1, GoStep DEF ForgetFails
    <3>2. CASE p \notin Callers
      BY <2>2, <3>2, GoStep DEF ForgetFails
    <3> QED
      BY <3>1, <3>2
  <2>3. CASE RemoveKey(p)
    <3>1. CASE p \in Callers
      BY <2>3, <3>1, GoStep DEF RemoveKey
    <3>2. CASE p \notin Callers
      <4>1. PICK place \in {"list", "idle"} : Go(p, place)
        BY <2>3, <3>2 DEF RemoveKey
      <4> QED
        BY <2>3, <3>2, <4>1, GoStep DEF RemoveKey
    <3> QED
      BY <3>1, <3>2
  <2> QED
    BY <1>3, <2>1, <2>2, <2>3
<1>4. CASE RemoteCommit
  BY <1>4, SameStep DEF RemoteCommit
<1>5. CASE Receive
  <2>1. CASE pc[Drain] = "idle"
    BY <1>1, <1>5, <2>1, GoStep DEF Receive
  <2>2. CASE pc[Drain] # "idle"
    BY <1>5, <2>2, SameStep DEF Receive
  <2> QED
    BY <2>1, <2>2
<1>6. CASE DrainTables
  <2>1. PICK place \in {"forget", "idle"} : Go(Drain, place)
    BY <1>6 DEF DrainTables
  <2> QED
    BY <1>1, <1>6, <2>1, GoStep DEF DrainTables
<1>7. CASE Time
  BY <1>7, TickStep DEF Time, cacheVars
<1> QED
  BY <1>2, <1>3, <1>4, <1>5, <1>6, <1>7

(* The lock's invariant, in every state of the query cache. *)
THEOREM LockInvariant == Spec => []LockInv
<1>1. LockInv /\ [Next]_vars => LockInv'
  <2> SUFFICES ASSUME LockInv, [Next]_vars PROVE LockInv'
    OBVIOUS
  <2>1. CASE UNCHANGED vars
    BY <2>1, SameStep DEF vars, cacheVars
  <2> QED
    BY <2>1, CallerSteps, OtherSteps DEF Next
<1> QED
  BY <1>1, LockInit1, PTL DEF Spec

(* CacheTypeOK: every variable keeps its type, and no more invalidations are under way
   than other processes wrote. *)
TypeInv == LockInv /\ CacheTypeOK /\ events <= stored

LEMMA CallerTypes ==
  ASSUME TypeInv, LockInv', NEW c \in Callers, Ask(c) \/ CallerStep(c) \/ Failure(c)
  PROVE  CacheTypeOK' /\ events' <= stored'
<1> USE QueryCacheAssumption DEF TypeInv, LockInv, CacheTypeOK, CallersInv, Entries
<1>1. CASE Ask(c) \/ Locking(c) \/ Locked(c) \/ Refused(c) \/ Reread(c)
  BY <1>1 DEF Ask, Locking, Locked, Refused, Reread, cacheVars
<1>2. CASE Read(c)
  BY <1>2 DEF Read
<1>5. CASE Unregister(c) \/ Register(c) \/ Check(c)
  BY <1>5 DEF Unregister, Register, Check
<1>6. CASE RefreshFails(c) \/ LockFails(c)
  BY <1>6 DEF RefreshFails, LockFails
<1>7. CASE ReleaseFails(c)
  <2>1. /\ failures < MaxFailures /\ failures' = failures + 1 /\ pc' = [pc EXCEPT ![c] = "idle"]
        /\ got' = [got EXCEPT ![c] = 0] /\ flagged' = [flagged EXCEPT ![c] = FALSE]
        /\ UNCHANGED <<stored, entry, indexed, events, pending, missed>>
    BY <1>7 DEF ReleaseFails, Done, Go
  <2> QED
    BY <2>1
<1>3. CASE Put(c)
  <2>1. entry' \in Entries
    BY <1>3 DEF Put, LockTypeOK
  <2> QED
    BY <1>3, <2>1 DEF Put
<1>4. CASE Release(c)
  BY <1>4 DEF Release, Done
<1> QED
  BY <1>1, <1>2, <1>3, <1>4, <1>5, <1>6, <1>7 DEF CallerStep, Failure

LEMMA OtherTypes ==
  ASSUME TypeInv, LockInv',
         \/ \E w \in Writers : Commit(w) \/ Evict(w)
         \/ \E p \in Processes : Forget(p) \/ ForgetFails(p) \/ RemoveKey(p)
         \/ RemoteCommit \/ Receive \/ DrainTables
         \/ Time
  PROVE  CacheTypeOK' /\ events' <= stored'
<1> USE QueryCacheAssumption DEF TypeInv, LockInv, CacheTypeOK, CallersInv, Entries
<1>1. ASSUME NEW w \in Writers, Commit(w) PROVE CacheTypeOK' /\ events' <= stored'
  BY <1>1 DEF Commit
<1>2. ASSUME NEW w \in Writers, Evict(w) PROVE CacheTypeOK' /\ events' <= stored'
  BY <1>2 DEF Evict, Bump
<1>3. ASSUME NEW p \in Processes, Forget(p) PROVE CacheTypeOK' /\ events' <= stored'
  BY <1>3 DEF Forget
<1>4. ASSUME NEW p \in Processes, ForgetFails(p) PROVE CacheTypeOK' /\ events' <= stored'
  BY <1>4 DEF ForgetFails
<1>5. ASSUME NEW p \in Processes, RemoveKey(p) PROVE CacheTypeOK' /\ events' <= stored'
  BY <1>5 DEF RemoveKey
<1>6. CASE RemoteCommit
  BY <1>6 DEF RemoteCommit
<1>7. CASE Receive
  BY <1>7 DEF Receive, Bump
<1>8. CASE DrainTables
  BY <1>8 DEF DrainTables
<1>9. CASE Time
  BY <1>9 DEF Time, cacheVars
<1> QED
  BY <1>1, <1>2, <1>3, <1>4, <1>5, <1>6, <1>7, <1>8, <1>9

LEMMA TypeInvariant == Spec => []TypeInv
<1>1. Init => TypeInv
  <2> SUFFICES ASSUME Init PROVE TypeInv
    OBVIOUS
  <2>1. LockInv
    BY LockInit1
  <2>2. stored = 0 /\ events = 0 /\ failures = 0 /\ got = [c \in Callers |-> 0]
        /\ flagged = [c \in Callers |-> FALSE] /\ entry = None
        /\ indexed = FALSE /\ pending = FALSE /\ missed = FALSE
    BY DEF Init
  <2>3. 0 \in 0 .. MaxWrites /\ 0 \in 0 .. MaxFailures /\ events <= stored
    BY <2>2, QueryCacheAssumption
  <2>4. got \in [Callers -> 0 .. MaxWrites] /\ flagged \in [Callers -> BOOLEAN]
    BY <2>2, <2>3
  <2> QED
    BY <2>1, <2>2, <2>3, <2>4 DEF TypeInv, CacheTypeOK, LockInv, CallersInv
<1>2. TypeInv /\ LockInv' /\ [Next]_vars => TypeInv'
  <2> SUFFICES ASSUME TypeInv, LockInv', [Next]_vars PROVE CacheTypeOK' /\ events' <= stored'
    BY DEF TypeInv
  <2>1. CASE UNCHANGED vars
    BY <2>1 DEF vars, cacheVars, TypeInv, CacheTypeOK, LockInv
  <2> QED
    BY <2>1, CallerTypes, OtherTypes DEF Next
<1> QED
  BY <1>1, <1>2, LockInvariant, PTL DEF Spec

(* CacheTypeOK: every variable keeps its type. *)
THEOREM CacheTypes == Spec => []CacheTypeOK
<1>1. TypeInv => CacheTypeOK
  BY DEF TypeInv
<1> QED
  BY <1>1, TypeInvariant, PTL

(* LockExclusive: two callers never hold the lock in time, whatever the interleaving. *)
THEOREM Exclusion == Spec => []LockExclusive
<1>1. LockInv => LockExclusive
  BY DEF LockInv, RowInv, LockExclusive
<1> QED
  BY <1>1, LockInvariant, PTL

(* LockFreed: once a call is over its row is gone, unless a statement of the lock itself
   failed, and then the row expires. *)
THEOREM Freed == Spec => []LockFreed
<1>1. LockInv => LockFreed
  BY DEF LockInv, LockTypeOK, Rows, OwnerInv, LockFreed
<1> QED
  BY <1>1, LockInvariant, PTL

-----------------------------------------------------------------------------
(* The lock keeps the promise of TimedLock *)

(* The abstract steps, in terms of the row and of who holds the lock. *)
LEMMA NoPromise ==
  ASSUME Owner' = Owner, Holding' = Holding, Late' = Late
  PROVE  UNCHANGED Promise!vars
BY DEF Promise!vars

LEMMA GrantPromise ==
  ASSUME NEW c \in Callers, Owner = {}, Owner' = {c}, Holding' = Holding \cup {c}, Late' = Late
  PROVE  Promise!Next
<1>1. Promise!Acquire(c, Name)
  BY DEF Promise!Acquire
<1> QED
  BY <1>1 DEF Promise!Next

LEMMA LateGrantPromise ==
  ASSUME NEW c \in Callers, Owner = {}, Owner' = {}, Holding' = Holding \cup {c}, Late' = Late \cup {c}
  PROVE  Promise!Next
<1>1. Promise!AcquireLate(c, Name)
  BY DEF Promise!AcquireLate
<1> QED
  BY <1>1 DEF Promise!Next

LEMMA ReleasePromise ==
  ASSUME NEW c \in Callers, Owner' = Owner \ {c}, Holding' = Holding \ {c}, Late' = Late \ {c}
  PROVE  Promise!Next
<1>1. Promise!Release(c, Name)
  BY DEF Promise!Release
<1> QED
  BY <1>1 DEF Promise!Next

(* The insert's answer is lost. *)
LEMMA TryPromise ==
  ASSUME NEW c \in Callers, Owner = {}, Owner' = {c}, Holding' = Holding, Late' = Late
  PROVE  Promise!Next
<1>1. Promise!Try(c, Name)
  BY DEF Promise!Try
<1> QED
  BY <1>1 DEF Promise!Next

(* The release is lost. *)
LEMMA QuitPromise ==
  ASSUME NEW c \in Callers, Owner' = Owner, Holding' = Holding \ {c}, Late' = Late \ {c}
  PROVE  Promise!Next
<1>1. Promise!Quit(c, Name)
  BY DEF Promise!Quit
<1> QED
  BY <1>1 DEF Promise!Next

LEMMA ExpirePromise ==
  ASSUME Owner' = {}, Late' = Late \cup (Owner \cap Holding), Holding' = Holding
  PROVE  Promise!Next
<1>1. Promise!Expire({Name})
  BY DEF Promise!Expire
<1> QED
  BY <1>1 DEF Promise!Next

(* A caller that does not hold the lock before nor after a step has no part in it. *)
LEMMA ApartPromise ==
  ASSUME LockInv, NEW c \in Callers, step[c] # "held", step'[c] # "held", UNCHANGED now,
         \A d \in Callers \ {c} : step'[d] = step[d] /\ at'[d] = at[d],
         row' = row \/ (row' = None /\ row # None /\ row.until <= now)
  PROVE  UNCHANGED Promise!vars
<1>1. Holding' = Holding /\ Late' = Late
  BY DEF Holding, Late
<1>2. Owner' = Owner
  <2>1. CASE row' = row
    BY <2>1 DEF Owner
  <2>2. CASE row' = None /\ row # None /\ row.until <= now
    <3>1. row.until \in Nat /\ now \in Nat
      BY <2>2 DEF LockInv, LockTypeOK, Rows
    <3> QED
      BY <2>2, <3>1 DEF Owner
  <2> QED
    BY <2>1, <2>2
<1> QED
  BY <1>1, <1>2, NoPromise

LEMMA InsertPromise ==
  ASSUME LockInv, LockInv', NEW c \in Callers, Insert(c), UNCHANGED now
  PROVE  Promise!Next \/ UNCHANGED Promise!vars
<1>1. /\ now \in Nat /\ at \in [Callers -> Nat] /\ Ttl \in Nat \ {0} /\ UNCHANGED at
      /\ c \notin Holding
  BY DEF LockInv, LockTypeOK, Insert, Holding
<1>2. CASE row # None
  <2>1. row' = row /\ step' = [step EXCEPT ![c] = "refused"] /\ step[c] = "insert"
    BY <1>2 DEF Insert
  <2> QED
    BY <1>1, <2>1, ApartPromise DEF LockInv, LockTypeOK
<1>3. CASE row = None
  <2>1. row' = [owner |-> c, until |-> at[c] + Ttl, lost |-> FALSE] /\ step' = [step EXCEPT ![c] = "held"]
    BY <1>3 DEF Insert
  <2>2. row' # None /\ row'.owner = c /\ row'.until = at[c] + Ttl
    <3>1. [owner |-> c, until |-> at[c] + Ttl, lost |-> FALSE] \in Rows
      BY <1>1 DEF Rows
    <3> QED
      BY <2>1, <3>1, NoneNoRow
  <2>3. Owner = {} /\ Holding' = Holding \cup {c}
    BY <1>3, <2>1 DEF Owner, Holding, LockInv, LockTypeOK
  <2>4. CASE now < at[c] + Ttl
    <3>1. Owner' = {c}
      BY <1>1, <2>2, <2>4 DEF Owner
    <3>2. Late' = Late
      BY <1>1, <2>3, <2>4 DEF Late
    <3> QED
      BY <2>3, <3>1, <3>2, GrantPromise
  <2>5. CASE ~ now < at[c] + Ttl
    <3>1. Owner' = {}
      BY <1>1, <2>2, <2>5 DEF Owner
    <3>2. Late' = Late \cup {c}
      BY <1>1, <2>3, <2>5 DEF Late
    <3> QED
      BY <2>3, <3>1, <3>2, LateGrantPromise
  <2> QED
    BY <2>4, <2>5
<1> QED
  BY <1>2, <1>3

LEMMA UnansweredPromise ==
  ASSUME LockInv, NEW c \in Callers, InsertUnanswered(c), UNCHANGED now
  PROVE  Promise!Next \/ UNCHANGED Promise!vars
<1>1. /\ now \in Nat /\ at \in [Callers -> Nat] /\ Ttl \in Nat \ {0}
      /\ step \in [Callers -> {"out", "look", "clear", "insert", "refused", "held"}]
      /\ step[c] # "held" /\ row = None
  BY DEF LockInv, LockTypeOK, InsertUnanswered
<1>2. /\ row' = [owner |-> c, until |-> at[c] + Ttl, lost |-> TRUE]
      /\ step' = [step EXCEPT ![c] = "out"] /\ at' = [at EXCEPT ![c] = 0]
  BY DEF InsertUnanswered, Out
<1>3. row' # None /\ row'.owner = c /\ row'.until = at[c] + Ttl
  <2>1. [owner |-> c, until |-> at[c] + Ttl, lost |-> TRUE] \in Rows
    BY <1>1 DEF Rows
  <2> QED
    BY <1>2, <2>1, NoneNoRow
<1>4. Owner = {} /\ Holding' = Holding /\ Late' = Late
  BY <1>1, <1>2 DEF Owner, Holding, Late
<1>5. Owner' = {c} \/ Owner' = {}
  BY <1>3 DEF Owner
<1> QED
  BY <1>4, <1>5, TryPromise, NoPromise

(* The row of a caller that holds the lock in time expires when the caller's time is over. *)
LEMMA TickPromise ==
  ASSUME LockInv, Tick
  PROVE  Promise!Next \/ UNCHANGED Promise!vars
<1>1. /\ now \in Nat /\ now' = now + 1 /\ at \in [Callers -> Nat] /\ Ttl \in Nat \ {0}
      /\ UNCHANGED <<row, step, at>> /\ row \in Rows \cup {None} /\ Holding' = Holding
  BY DEF LockInv, LockTypeOK, Tick, lockVars, Holding
<1>2. \A c \in Holding : now < at[c] + Ttl => row # None /\ row.owner = c /\ row.until = at[c] + Ttl
  BY DEF LockInv, RowInv, HoldsInTime, Holding
<1>3. CASE row # None /\ row.until > now /\ row.until <= now + 1
  <2>1. Owner = {row.owner} /\ Owner' = {}
    BY <1>1, <1>3 DEF Owner, Rows
  <2>2. row.until \in Nat
    BY <1>1, <1>3 DEF Rows
  <2>3. Late' = Late \cup (Owner \cap Holding)
    <3>1. ASSUME NEW c \in Holding PROVE now + 1 >= at[c] + Ttl <=> now >= at[c] + Ttl \/ c = row.owner
      <4>1. CASE now < at[c] + Ttl
        BY <1>1, <1>2, <1>3, <2>2, <4>1 DEF Holding
      <4>2. CASE ~ now < at[c] + Ttl
        BY <1>1, <4>2 DEF Holding
      <4> QED
        BY <4>1, <4>2
    <3> QED
      BY <1>1, <2>1, <3>1 DEF Late
  <2> QED
    BY <1>1, <2>1, <2>3, ExpirePromise
<1>4. CASE ~ (row # None /\ row.until > now /\ row.until <= now + 1)
  <2>1. Owner' = Owner
    BY <1>1, <1>4 DEF Owner, Rows
  <2>2. ASSUME NEW c \in Holding PROVE now + 1 >= at[c] + Ttl <=> now >= at[c] + Ttl
    <3>1. at[c] \in Nat
      BY <1>1 DEF Holding
    <3> QED
      BY <1>1, <1>2, <1>4, <3>1 DEF Rows
  <2>3. Late' = Late
    BY <1>1, <2>2 DEF Late
  <2> QED
    BY <1>1, <2>1, <2>3, NoPromise
<1> QED
  BY <1>3, <1>4

(* The steps of the query cache that go through the lock. *)
LEMMA CallerPromise ==
  ASSUME LockInv, LockInv', NEW c \in Callers, Ask(c) \/ CallerStep(c) \/ Failure(c)
  PROVE  Promise!Next \/ UNCHANGED Promise!vars
<1>0. /\ step \in [Callers -> {"out", "look", "clear", "insert", "refused", "held"}]
      /\ at \in [Callers -> Nat] /\ now \in Nat /\ \A d \in Callers : at[d] <= now
      /\ row \in Rows \cup {None}
      /\ pc[c] = "idle" => step[c] # "held"
  BY DEF LockInv, LockTypeOK, RowInv, OwnerInv
<1>1. CASE Ask(c)
  BY <1>0, <1>1, ApartPromise DEF Ask, Attempt
<1>2. CASE Locking(c)
  <2>1. UNCHANGED now
    BY <1>2 DEF Locking
  <2>2. CASE Look(c)
    BY <1>0, <2>1, <2>2, ApartPromise DEF Look
  <2>3. CASE Clear(c)
    <3>1. row # None => row.until \in Nat
      BY <1>0 DEF Rows
    <3>2. row' = row \/ (row' = None /\ row # None /\ row.until <= now)
      BY <1>0, <2>3, <3>1 DEF Clear
    <3> QED
      BY <1>0, <2>1, <2>3, <3>2, ApartPromise DEF Clear
  <2>4. CASE Insert(c)
    BY <2>1, <2>4, InsertPromise
  <2>5. CASE Again(c)
    BY <1>0, <2>1, <2>5, ApartPromise DEF Again
  <2>6. CASE PruneExpiredLocks(c)
    BY <1>0, <2>1, <2>6, ApartPromise DEF PruneExpiredLocks
  <2>7. CASE Deadlock(c)
    BY <1>0, <2>1, <2>7, ApartPromise DEF Deadlock
  <2> QED
    BY <1>2, <2>2, <2>3, <2>4, <2>5, <2>6, <2>7 DEF Locking, LockStep
<1>3. ASSUME Leave(c), step[c] # "held", UNCHANGED now PROVE UNCHANGED Promise!vars
  BY <1>0, <1>3, ApartPromise DEF Leave, Out
<1>4. CASE Refused(c)
  BY <1>3, <1>4 DEF Refused, GivesUp
<1>5. ASSUME LetGo(c), UNCHANGED now PROVE Promise!Next
  <2>1. /\ row' = IF row # None /\ row.owner = c THEN None ELSE row
        /\ step' = [step EXCEPT ![c] = "out"] /\ at' = [at EXCEPT ![c] = 0]
    BY <1>5 DEF LetGo, Out
  <2>2. Owner' = Owner \ {c}
    BY <1>5, <2>1 DEF Owner
  <2>3. Holding' = Holding \ {c} /\ Late' = Late \ {c}
    BY <1>0, <1>5, <2>1 DEF Holding, Late
  <2> QED
    BY <2>2, <2>3, ReleasePromise
<1>6. CASE Release(c)
  BY <1>3, <1>5, <1>6 DEF Release, Done
<1>7. CASE ReleaseFails(c)
  <2>1. UNCHANGED now /\ LetGoFails(c)
    BY <1>7 DEF ReleaseFails, Done
  <2>2. CASE LetGo(c)
    BY <1>5, <2>1, <2>2
  <2>3. CASE ~ LetGo(c)
    <3>1. /\ row' = IF row # None /\ row.owner = c THEN [row EXCEPT !.lost = TRUE] ELSE row
          /\ step' = [step EXCEPT ![c] = "out"] /\ at' = [at EXCEPT ![c] = 0]
      BY <2>1, <2>3 DEF LetGoFails, Out
    <3>2. Owner' = Owner
      <4>1. CASE row # None /\ row.owner = c
        <5>1. row' \in Rows /\ row'.owner = row.owner /\ row'.until = row.until
          BY <1>0, <3>1, <4>1 DEF Rows
        <5> QED
          BY <2>1, <4>1, <5>1, NoneNoRow DEF Owner
      <4>2. CASE ~ (row # None /\ row.owner = c)
        BY <2>1, <3>1, <4>2 DEF Owner
      <4> QED
        BY <4>1, <4>2
    <3>3. Holding' = Holding \ {c} /\ Late' = Late \ {c}
      BY <1>0, <2>1, <3>1 DEF Holding, Late
    <3> QED
      BY <3>2, <3>3, QuitPromise
  <2> QED
    BY <2>2, <2>3
<1>8. CASE LockFails(c)
  <2>1. UNCHANGED now /\ (AttemptFails(c) \/ InsertUnanswered(c))
    BY <1>8 DEF LockFails
  <2>2. CASE AttemptFails(c)
    BY <1>3, <2>1, <2>2 DEF AttemptFails, Attempting
  <2> QED
    BY <2>1, <2>2, UnansweredPromise
<1>9. CASE UNCHANGED <<now, lockVars>>
  BY <1>9, NoPromise DEF lockVars, Owner, Holding, Late
<1> QED
  BY <1>1, <1>2, <1>4, <1>6, <1>7, <1>8, <1>9
  DEF CallerStep, Failure, Locked, Reread, Read, Put, Unregister, Register, Check, RefreshFails

(* ImplementsLock: for any callers, lifetimes and interleavings of their statements around an
   expired row, the lock is granted only while it is free and freed only by its owner or time. *)
THEOREM ImplementsTimedLock == Spec => ImplementsLock
<1>1. Init => Promise!Init
  BY DEF Init, LockInit, Promise!Init, Owner, Holding, Late
<1>2. ASSUME LockInv, LockInv', [Next]_vars
      PROVE  [Promise!Next]_(Promise!vars)
  <2>1. CASE UNCHANGED <<now, lockVars>>
    BY <2>1, NoPromise DEF lockVars, Owner, Holding, Late
  <2>2. ASSUME NEW c \in Callers, Ask(c) \/ CallerStep(c) \/ Failure(c)
        PROVE  Promise!Next \/ UNCHANGED Promise!vars
    BY <1>2, <2>2, CallerPromise
  <2>3. CASE Time
    BY <1>2, <2>3, TickPromise DEF Time
  <2>4. ASSUME NEW w \in Writers, Commit(w) \/ Evict(w) PROVE UNCHANGED <<now, lockVars>>
    BY <2>4 DEF Commit, Evict
  <2>5. ASSUME NEW p \in Processes, Forget(p) \/ ForgetFails(p) \/ RemoveKey(p)
        PROVE  UNCHANGED <<now, lockVars>>
    BY <2>5 DEF Forget, ForgetFails, RemoveKey
  <2>6. ASSUME RemoteCommit \/ Receive \/ DrainTables PROVE UNCHANGED <<now, lockVars>>
    BY <2>6 DEF RemoteCommit, Receive, DrainTables
  <2>7. CASE UNCHANGED vars
    BY <2>1, <2>7 DEF vars
  <2> QED
    BY <1>2, <2>1, <2>2, <2>3, <2>4, <2>5, <2>6, <2>7 DEF Next
<1> QED
  BY <1>1, <1>2, LockInvariant, PTL DEF Spec, ImplementsLock, Promise!Spec

-----------------------------------------------------------------------------
(* No stale entry: what a put or a forget that took effect still has to do. *)

Replying == {"register", "remove"}

(* Replies are under way to the processes that wait for one, once to each. *)
ReplyInv ==
    /\ replies \in Seq(Processes)
    /\ \A i \in 1 .. Len(replies) : pc[replies[i]] \in Replying
    /\ \A p \in Processes : pc[p] \in Replying => \E i \in 1 .. Len(replies) : replies[i] = p
    /\ \A i, j \in 1 .. Len(replies) : replies[i] = replies[j] => i = j

(* A forget took effect before the entry that is there now was put. *)
OrderInv ==
    entry # None =>
        \A i \in 1 .. Len(replies) : pc[replies[i]] = "remove" =>
            \E k \in i + 1 .. Len(replies) : replies[k] \in Callers /\ pc[replies[k]] = "register"

Registers(c) == pc[c] \in {"register", "registering"}

(* The entry is in the index, or somebody is about to put it there. *)
IndexInv == entry # None => indexed \/ \E c \in Callers : Registers(c)

(* A write whose invalidation has not reached the refreshes that run. *)
Announced == events > 0 \/ \E w \in Writers : pc[w] = "list"

(* A refresh that was not told of a write has read it, or will be told. *)
ReadInv ==
    \A c \in Callers :
        pc[c] \in {"put", "register", "registering", "check"} /\ ~flagged[c] /\ got[c] # stored
            => Announced

(* NoStaleEntry, but the drain is only relied on for an entry it finds in the index:
   a refresh that is still to register the entry was told itself. *)
StaleInv ==
    entry # None /\ entry.value # stored =>
        \/ missed \/ Announced
        \/ \E p \in Writers \cup Callers : InCharge(p)
        \/ /\ pending \/ pc[Drain] = "forget"
           /\ \A c \in Callers : ~Registers(c)

StoreInv == ReplyInv /\ OrderInv /\ IndexInv /\ ReadInv /\ StaleInv

(* Only p moves. *)
Alone(p) == \A q \in Processes \ {p} : pc'[q] = pc[q]

(* The processes are disjoint, and pc and the callers' variables are functions on them. *)
LEMMA Places ==
  ASSUME TypeInv
  PROVE  /\ Callers \subseteq Processes /\ Writers \subseteq Processes /\ Drain \in Processes
         /\ Drain \notin Callers \cup Writers /\ Writers \cap Callers = {}
         /\ \A p \in Processes : \A place : Go(p, place) => pc'[p] = place /\ Alone(p)
         /\ DOMAIN got = Callers /\ DOMAIN flagged = Callers
         /\ events \in Nat /\ stored \in Nat
<1> QED
  BY QueryCacheAssumption DEF Processes, TypeInv, LockInv, CallersInv, CacheTypeOK, Go, Alone

LEMMA RemovedAt ==
  ASSUME NEW S, NEW s \in Seq(S), NEW i \in 1 .. Len(s)
  PROVE  /\ RemoveAt(s, i) \in Seq(S)
         /\ Len(RemoveAt(s, i)) = Len(s) - 1
         /\ \A k \in 1 .. Len(s) - 1 : RemoveAt(s, i)[k] = IF k < i THEN s[k] ELSE s[k + 1]
<1>1. Len(s) \in Nat /\ i \in Nat /\ 1 <= i /\ i <= Len(s)
  OBVIOUS
<1>2. SubSeq(s, 1, i - 1) \in Seq(S) /\ Len(SubSeq(s, 1, i - 1)) = i - 1
      /\ \A k \in 1 .. i - 1 : SubSeq(s, 1, i - 1)[k] = s[k]
  BY <1>1
<1>3. SubSeq(s, i + 1, Len(s)) \in Seq(S) /\ Len(SubSeq(s, i + 1, Len(s))) = Len(s) - i
      /\ \A k \in 1 .. Len(s) - i : SubSeq(s, i + 1, Len(s))[k] = s[k + i]
  BY <1>1
<1> DEFINE a == SubSeq(s, 1, i - 1)
           b == SubSeq(s, i + 1, Len(s))
<1>4. RemoveAt(s, i) = a \o b
  BY DEF RemoveAt
<1>5. a \in Seq(S) /\ Len(a) = i - 1 /\ b \in Seq(S) /\ Len(b) = Len(s) - i
  BY <1>2, <1>3
<1> HIDE DEF a, b
<1>6. Len(a \o b) = Len(s) - 1 /\ a \o b \in Seq(S)
  BY <1>1, <1>5
<1>7. \A k \in 1 .. Len(s) - 1 : (a \o b)[k] = IF k < i THEN a[k] ELSE b[k - (i - 1)]
  BY <1>1, <1>5
<1>8. ASSUME NEW k \in 1 .. Len(s) - 1
      PROVE  (a \o b)[k] = IF k < i THEN s[k] ELSE s[k + 1]
  <2>1. CASE k < i
    BY <1>1, <1>2, <1>7, <2>1 DEF a
  <2>2. CASE ~ (k < i)
    <3>1. k - (i - 1) \in 1 .. Len(s) - i /\ k - (i - 1) + i = k + 1
      BY <1>1, <2>2
    <3>2. b[k - (i - 1)] = s[k + 1]
      BY <1>3, <3>1 DEF b
    <3> QED
      BY <1>7, <2>2, <3>2
  <2> QED
    BY <2>1, <2>2
<1> QED
  BY <1>4, <1>6, <1>8

(* A step that neither sends nor handles a reply. *)
LEMMA ReplySame ==
  ASSUME TypeInv, ReplyInv, OrderInv, NEW p \in Processes, Alone(p), UNCHANGED <<replies, entry>>,
         pc[p] \notin Replying, pc'[p] \notin Replying
  PROVE  ReplyInv' /\ OrderInv'
<1>1. \A i \in 1 .. Len(replies) :
        replies[i] \in Processes /\ pc[replies[i]] \in Replying /\ pc'[replies[i]] = pc[replies[i]]
  BY DEF ReplyInv, Alone
<1>2. ReplyInv'
  BY <1>1 DEF ReplyInv, Alone
<1>3. OrderInv'
  <2>1. \A i, k : i \in 1 .. Len(replies) /\ k \in i + 1 .. Len(replies) => k \in 1 .. Len(replies)
    BY DEF ReplyInv
  <2> QED
    BY <1>1, <2>1 DEF OrderInv
<1> QED
  BY <1>2, <1>3

(* A put or a forget takes effect. *)
LEMMA ReplySent ==
  ASSUME TypeInv, ReplyInv, NEW p \in Processes, Alone(p), replies' = Append(replies, p),
         pc[p] \notin Replying, pc'[p] \in Replying
  PROVE  ReplyInv'
<1>1. replies \in Seq(Processes) /\ Len(replies) \in Nat
  BY DEF ReplyInv
<1>2. /\ replies' \in Seq(Processes) /\ Len(replies') = Len(replies) + 1
      /\ \A i \in 1 .. Len(replies) : replies'[i] = replies[i] /\ replies[i] \in Processes /\ replies[i] # p
      /\ replies'[Len(replies) + 1] = p
  BY <1>1 DEF ReplyInv
<1>3. \A i \in 1 .. Len(replies') : i \in 1 .. Len(replies) \/ i = Len(replies) + 1
  BY <1>1, <1>2
<1>4. \A i \in 1 .. Len(replies') : pc'[replies'[i]] \in Replying
  BY <1>2, <1>3 DEF ReplyInv, Alone
<1>5. ASSUME NEW q \in Processes, pc'[q] \in Replying
      PROVE  \E i \in 1 .. Len(replies') : replies'[i] = q
  <2>1. CASE q = p
    BY <1>1, <1>2, <2>1
  <2>2. CASE q # p
    <3>1. PICK i \in 1 .. Len(replies) : replies[i] = q
      BY <1>5, <2>2 DEF ReplyInv, Alone
    <3> QED
      BY <1>1, <1>2, <3>1
  <2> QED
    BY <2>1, <2>2
<1>6. \A i, j \in 1 .. Len(replies') : replies'[i] = replies'[j] => i = j
  BY <1>2, <1>3 DEF ReplyInv
<1> QED
  BY <1>2, <1>4, <1>5, <1>6 DEF ReplyInv

(* A reply is handled: nobody that is to remove a key is overtaken. *)
LEMMA ReplyHandled ==
  ASSUME TypeInv, ReplyInv, OrderInv, Ordered, NEW p \in Processes, Alone(p), Reply(p),
         pc'[p] \notin Replying, UNCHANGED entry
  PROVE  /\ ReplyInv' /\ OrderInv'
         /\ entry # None /\ pc[p] = "remove" => \E c \in Callers : c # p /\ pc[c] = "register"
<1>1. PICK i \in 1 .. Len(replies) :
        /\ replies[i] = p
        /\ \A k \in 1 .. i - 1 : pc[replies[k]] # "remove"
        /\ replies' = RemoveAt(replies, i)
  BY DEF Reply
<1>2. replies \in Seq(Processes) /\ Len(replies) \in Nat
  BY DEF ReplyInv
<1>3. /\ replies' \in Seq(Processes) /\ Len(replies') = Len(replies) - 1
      /\ \A k \in 1 .. Len(replies') : replies'[k] = IF k < i THEN replies[k] ELSE replies[k + 1]
  BY <1>1, <1>2, RemovedAt
<1> DEFINE Old(k) == IF k < i THEN k ELSE k + 1
<1>4. \A k \in 1 .. Len(replies') :
        /\ Old(k) \in 1 .. Len(replies) /\ Old(k) # i /\ replies'[k] = replies[Old(k)]
        /\ replies[Old(k)] \in Processes \ {p} /\ pc'[replies'[k]] = pc[replies[Old(k)]]
  <2>1. \A k \in 1 .. Len(replies') : Old(k) \in 1 .. Len(replies) /\ Old(k) # i /\ replies'[k] = replies[Old(k)]
    BY <1>1, <1>2, <1>3
  <2>2. \A k \in 1 .. Len(replies) : replies[k] \in Processes /\ (k # i => replies[k] # p)
    BY <1>1 DEF ReplyInv
  <2> QED
    BY <2>1, <2>2 DEF Alone
<1>5. \A j \in 1 .. Len(replies) \ {i} : \E k \in 1 .. Len(replies') : j = Old(k)
  <2> SUFFICES ASSUME NEW j \in 1 .. Len(replies), j # i
               PROVE  \E k \in 1 .. Len(replies') : j = Old(k)
    OBVIOUS
  <2>1. CASE j < i
    BY <1>1, <1>2, <1>3, <2>1
  <2>2. CASE j > i
    <3>1. j - 1 \in 1 .. Len(replies') /\ Old(j - 1) = j
      BY <1>1, <1>2, <1>3, <2>2
    <3> QED
      BY <3>1
  <2> QED
    BY <1>1, <1>2, <2>1, <2>2
<1>6. ReplyInv'
  <2>1. \A k \in 1 .. Len(replies') : pc'[replies'[k]] \in Replying
    BY <1>4 DEF ReplyInv
  <2>2. ASSUME NEW q \in Processes, pc'[q] \in Replying
        PROVE  \E k \in 1 .. Len(replies') : replies'[k] = q
    <3>1. q # p /\ pc[q] \in Replying
      BY <2>2 DEF Alone
    <3>2. PICK j \in 1 .. Len(replies) : replies[j] = q
      BY <3>1 DEF ReplyInv
    <3>3. j # i
      BY <1>1, <3>1, <3>2
    <3>4. PICK k \in 1 .. Len(replies') : j = Old(k)
      BY <1>5, <3>3
    <3>5. replies'[k] = replies[Old(k)]
      BY <1>4
    <3> QED
      BY <3>2, <3>4, <3>5
  <2>3. ASSUME NEW k \in 1 .. Len(replies'), NEW l \in 1 .. Len(replies'), replies'[k] = replies'[l]
        PROVE  k = l
    <3>1. /\ Old(k) \in 1 .. Len(replies) /\ Old(l) \in 1 .. Len(replies)
          /\ replies'[k] = replies[Old(k)] /\ replies'[l] = replies[Old(l)]
      BY <1>4
    <3>2. \A x, y \in 1 .. Len(replies) : replies[x] = replies[y] => x = y
      BY DEF ReplyInv
    <3> HIDE DEF Old
    <3>3. Old(k) = Old(l)
      BY <2>3, <3>1, <3>2
    <3> USE DEF Old
    <3>4. k \in Int /\ l \in Int /\ i \in Int
      BY <1>1, <1>2, <1>3
    <3> QED
      BY <3>3, <3>4
  <2> QED
    BY <1>3, <2>1, <2>2, <2>3 DEF ReplyInv
<1>7. OrderInv'
  <2> SUFFICES ASSUME entry # None, NEW k \in 1 .. Len(replies'), pc'[replies'[k]] = "remove"
               PROVE  \E l \in k + 1 .. Len(replies') :
                          replies'[l] \in Callers /\ pc'[replies'[l]] = "register"
    BY DEF OrderInv
  <2>1. Old(k) \in 1 .. Len(replies) /\ pc[replies[Old(k)]] = "remove"
    BY <1>4
  <2>2. k >= i /\ Old(k) = k + 1
    BY <1>1, <1>2, <1>3, <2>1
  <2>3. PICK j \in k + 2 .. Len(replies) : replies[j] \in Callers /\ pc[replies[j]] = "register"
    BY <1>2, <1>3, <2>1, <2>2 DEF OrderInv
  <2>4. j - 1 \in 1 .. Len(replies') /\ j - 1 \in k + 1 .. Len(replies') /\ Old(j - 1) = j
    BY <1>1, <1>2, <1>3, <2>2, <2>3
  <2>5. replies'[j - 1] \in Callers /\ pc'[replies'[j - 1]] = "register"
    <3> HIDE DEF Old
    <3> QED
      BY <1>4, <2>3, <2>4
  <2> QED
    BY <2>4, <2>5
<1>8. ASSUME entry # None, pc[p] = "remove"
      PROVE  \E c \in Callers : c # p /\ pc[c] = "register"
  BY <1>1, <1>8 DEF OrderInv
<1> QED
  BY <1>6, <1>7, <1>8

(* A step that leaves the entry, the index and the database alone, away from the puts. *)
LEMMA OutsideStep ==
  ASSUME TypeInv, StoreInv, NEW c \in Callers, Alone(c),
         UNCHANGED <<replies, entry, indexed, stored, events, pending, missed>>,
         pc[c] \notin {"register", "registering", "check", "list", "forget", "remove"},
         pc'[c] \notin {"register", "registering", "check", "list", "forget", "remove"},
         pc'[c] = "put" => got'[c] = stored,
         \A d \in Callers \ {c} : got'[d] = got[d] /\ flagged'[d] = flagged[d]
  PROVE  StoreInv'
<1>1. \A q \in Processes \ {c} : pc'[q] = pc[q]
  BY DEF Alone
<1>2. c \in Processes /\ Callers \subseteq Processes /\ Writers \subseteq Processes
      /\ Drain \in Processes \ {c} /\ c \notin Writers
  BY Places
<1>3. ReplyInv' /\ OrderInv'
  BY <1>2, ReplySame DEF StoreInv, Replying
<1>4. Announced' <=> Announced
  BY <1>1, <1>2 DEF Announced
<1>5. \A d \in Callers : Registers(d)' <=> Registers(d)
  BY <1>1, <1>2 DEF Registers
<1>6. \A p \in Processes : InCharge(p)' <=> InCharge(p)
  BY <1>1, <1>2 DEF InCharge
<1>7. IndexInv'
  BY <1>5 DEF StoreInv, IndexInv
<1>8. ReadInv'
  <2> SUFFICES ASSUME NEW d \in Callers, pc'[d] \in {"put", "register", "registering", "check"},
                      ~ flagged'[d], got'[d] # stored
               PROVE  Announced
    BY <1>4 DEF ReadInv
  <2> QED
    BY <1>1, <1>2 DEF StoreInv, ReadInv
<1>9. StaleInv'
  BY <1>1, <1>2, <1>4, <1>5, <1>6 DEF StoreInv, StaleInv
<1> QED
  BY <1>3, <1>7, <1>8, <1>9 DEF StoreInv

(* Nothing of the cache changes. *)
LEMMA StoreSame == TypeInv /\ StoreInv /\ UNCHANGED cacheVars => StoreInv'
BY DEF StoreInv, ReplyInv, OrderInv, IndexInv, ReadInv, StaleInv, Announced, Registers, InCharge,
       cacheVars

(* The rows of a put are those of the database, or a write is announced or was told. *)
LEMMA PutStore ==
  ASSUME TypeInv, StoreInv, NEW c \in Callers, Put(c)
  PROVE  StoreInv'
<1>1. c \in Processes /\ Callers \subseteq Processes /\ Writers \subseteq Processes
      /\ Drain \in Processes /\ c \notin Writers \cup {Drain} /\ pc'[c] = "register" /\ Alone(c)
  BY Places DEF Put
<1>2. /\ pc[c] = "put" /\ entry'.value = got[c] /\ replies' = Append(replies, c)
      /\ UNCHANGED <<stored, indexed, got, flagged, events, pending>>
  BY DEF Put
<1>3. \A q \in Processes \ {c} : pc'[q] = pc[q]
  BY <1>1 DEF Alone
<1>4. ReplyInv'
  BY <1>1, <1>2, ReplySent DEF StoreInv, Replying
<1>5. OrderInv'
  <2> SUFFICES ASSUME NEW i \in 1 .. Len(replies'), pc'[replies'[i]] = "remove"
               PROVE  \E k \in i + 1 .. Len(replies') :
                          replies'[k] \in Callers /\ pc'[replies'[k]] = "register"
    BY DEF OrderInv
  <2>1. replies \in Seq(Processes) /\ Len(replies) \in Nat
    BY DEF StoreInv, ReplyInv
  <2>2. Len(replies') = Len(replies) + 1 /\ replies'[Len(replies) + 1] = c
    BY <1>2, <2>1
  <2>3. i # Len(replies) + 1
    BY <1>1, <2>2
  <2>4. Len(replies) + 1 \in i + 1 .. Len(replies')
    BY <2>1, <2>2, <2>3
  <2> QED
    BY <1>1, <2>2, <2>4
<1>6. Announced' <=> Announced
  BY <1>1, <1>2, <1>3 DEF Announced
<1>7. IndexInv'
  BY <1>1 DEF IndexInv, Registers
<1>8. ReadInv'
  BY <1>1, <1>2, <1>3, <1>6 DEF StoreInv, ReadInv
<1>9. StaleInv'
  <2> SUFFICES ASSUME got[c] # stored, ~ Announced PROVE InCharge(c)'
    BY <1>1, <1>2, <1>6 DEF StaleInv
  <2>1. flagged[c]
    BY <1>2 DEF StoreInv, ReadInv
  <2> QED
    BY <1>1, <1>2, <2>1 DEF InCharge
<1> QED
  BY <1>4, <1>5, <1>7, <1>8, <1>9 DEF StoreInv

(* The refresh that put the entry takes its key out of the index, on its way to add it. *)
LEMMA UnregisterStore ==
  ASSUME TypeInv, StoreInv, Ordered, NEW c \in Callers, Unregister(c)
  PROVE  StoreInv'
<1>1. c \in Processes /\ Callers \subseteq Processes /\ Writers \subseteq Processes
      /\ Drain \in Processes \ {c} /\ c \notin Writers /\ pc'[c] = "registering" /\ Alone(c)
  BY Places DEF Unregister
<1>2. pc[c] = "register" /\ UNCHANGED <<stored, entry, got, flagged, events, pending, missed>>
  BY DEF Unregister
<1>3. \A q \in Processes \ {c} : pc'[q] = pc[q]
  BY <1>1 DEF Alone
<1>4. ReplyInv' /\ OrderInv'
  BY <1>1, <1>2, ReplyHandled DEF StoreInv, Replying, Unregister
<1>5. Announced' <=> Announced
  BY <1>1, <1>2, <1>3 DEF Announced
<1>6. \A d \in Callers : Registers(d)' <=> Registers(d)
  BY <1>1, <1>2, <1>3 DEF Registers
<1>7. \A p \in Processes : InCharge(p)' <=> InCharge(p)
  BY <1>1, <1>2, <1>3 DEF InCharge
<1>8. IndexInv'
  BY <1>1 DEF IndexInv, Registers
<1>9. ReadInv'
  BY <1>1, <1>2, <1>3, <1>5 DEF StoreInv, ReadInv
<1>10. StaleInv'
  BY <1>1, <1>2, <1>3, <1>5, <1>6, <1>7 DEF StoreInv, StaleInv
<1> QED
  BY <1>4, <1>8, <1>9, <1>10 DEF StoreInv

(* The key is in the index again; a write that did not find it told the refresh. *)
LEMMA RegisterStore ==
  ASSUME TypeInv, StoreInv, NEW c \in Callers, Register(c)
  PROVE  StoreInv'
<1>1. c \in Processes /\ Callers \subseteq Processes /\ Writers \subseteq Processes
      /\ Drain \in Processes \ {c} /\ c \notin Writers /\ pc'[c] = "check" /\ Alone(c)
  BY Places DEF Register
<1>2. /\ pc[c] = "registering" /\ indexed' = TRUE
      /\ UNCHANGED <<stored, entry, got, flagged, replies, events, pending, missed>>
  BY DEF Register
<1>3. \A q \in Processes \ {c} : pc'[q] = pc[q]
  BY <1>1 DEF Alone
<1>4. ReplyInv' /\ OrderInv'
  BY <1>1, <1>2, ReplySame DEF StoreInv, Replying
<1>5. Announced' <=> Announced
  BY <1>1, <1>2, <1>3 DEF Announced
<1>6. \A p \in Processes : InCharge(p)' <=> InCharge(p)
  BY <1>1, <1>2, <1>3 DEF InCharge
<1>7. ReadInv'
  BY <1>1, <1>2, <1>3, <1>5 DEF StoreInv, ReadInv
<1>8. StaleInv'
  BY <1>1, <1>2, <1>5, <1>6 DEF StoreInv, StaleInv, Registers
<1> QED
  BY <1>2, <1>4, <1>7, <1>8 DEF StoreInv, IndexInv

(* A refresh that was told of a write goes to delete what it put. *)
LEMMA CheckStore ==
  ASSUME TypeInv, StoreInv, NEW c \in Callers, Check(c)
  PROVE  StoreInv'
<1>1. c \in Processes /\ Callers \subseteq Processes /\ Writers \subseteq Processes
      /\ Drain \in Processes \ {c} /\ c \notin Writers /\ Alone(c)
      /\ pc'[c] = IF flagged[c] THEN "forget" ELSE "release"
  BY Places DEF Check
<1>2. /\ pc[c] = "check"
      /\ UNCHANGED <<stored, entry, indexed, got, flagged, replies, events, pending, missed>>
  BY DEF Check
<1>3. \A q \in Processes \ {c} : pc'[q] = pc[q]
  BY <1>1 DEF Alone
<1>4. ReplyInv' /\ OrderInv'
  BY <1>1, <1>2, ReplySame DEF StoreInv, Replying
<1>5. Announced' <=> Announced
  BY <1>1, <1>2, <1>3 DEF Announced
<1>6. \A p \in Processes : InCharge(p)' <=> InCharge(p)
  BY <1>1, <1>2, <1>3 DEF InCharge
<1>7. \A d \in Callers : Registers(d)' <=> Registers(d)
  BY <1>1, <1>2, <1>3 DEF Registers
<1>8. ReadInv'
  BY <1>1, <1>2, <1>3, <1>5 DEF StoreInv, ReadInv
<1>9. StaleInv'
  BY <1>1, <1>2, <1>3, <1>5, <1>6, <1>7 DEF StoreInv, StaleInv
<1>10. IndexInv'
  BY <1>2, <1>7 DEF StoreInv, IndexInv
<1> QED
  BY <1>4, <1>8, <1>9, <1>10 DEF StoreInv

LEMMA CallerStore ==
  ASSUME TypeInv, StoreInv, Ordered, NEW c \in Callers, Ask(c) \/ CallerStep(c) \/ Failure(c)
  PROVE  StoreInv'
<1>1. c \in Processes /\ \A place : Go(c, place) => pc'[c] = place /\ Alone(c)
  BY Places
<1>2. DOMAIN got = Callers /\ DOMAIN flagged = Callers
  BY Places
<1>3. CASE Locking(c)
  BY <1>3, StoreSame DEF Locking
<1>4. CASE Ask(c)
  BY <1>1, <1>4, OutsideStep DEF Ask
<1>5. CASE Locked(c)
  <2>1. pc[c] = "lock" /\ pc'[c] \in {"watched", "reread"} /\ Alone(c)
    BY <1>1, <1>5 DEF Locked
  <2>2. UNCHANGED <<replies, entry, indexed, stored, events, pending, missed>>
        /\ \A d \in Callers \ {c} : got'[d] = got[d] /\ flagged'[d] = flagged[d]
    BY <1>2, <1>5 DEF Locked
  <2> QED
    BY <2>1, <2>2, OutsideStep
<1>6. CASE Refused(c)
  BY <1>1, <1>6, OutsideStep DEF Refused
<1>7. CASE Reread(c)
  <2>1. pc[c] = "reread" /\ pc'[c] \in {"watched", "release"} /\ Alone(c)
    BY <1>1, <1>7 DEF Reread
  <2>2. UNCHANGED <<replies, entry, indexed, stored, events, pending, missed>>
        /\ \A d \in Callers \ {c} : got'[d] = got[d] /\ flagged'[d] = flagged[d]
    BY <1>2, <1>7 DEF Reread
  <2> QED
    BY <2>1, <2>2, OutsideStep
<1>8. CASE Read(c)
  BY <1>1, <1>2, <1>8, OutsideStep DEF Read
<1>9. CASE RefreshFails(c)
  BY <1>1, <1>9, OutsideStep DEF RefreshFails
<1>10. CASE Release(c) \/ ReleaseFails(c)
  <2>1. pc[c] = "release" /\ pc'[c] \in {"idle"} /\ Alone(c)
    BY <1>1, <1>10 DEF Release, ReleaseFails, Done
  <2>2. UNCHANGED <<replies, entry, indexed, stored, events, pending, missed>>
        /\ \A d \in Callers \ {c} : got'[d] = got[d] /\ flagged'[d] = flagged[d]
    BY <1>2, <1>10 DEF Release, ReleaseFails, Done
  <2> QED
    BY <2>1, <2>2, OutsideStep
<1>11. CASE LockFails(c)
  BY <1>1, <1>11, OutsideStep DEF LockFails
<1> QED
  BY <1>3, <1>4, <1>5, <1>6, <1>7, <1>8, <1>9, <1>10, <1>11,
     PutStore, UnregisterStore, RegisterStore, CheckStore DEF CallerStep, Failure

(* A write commits: its invalidation is announced. *)
LEMMA CommitStore ==
  ASSUME TypeInv, StoreInv, NEW w \in Writers, Commit(w)
  PROVE  StoreInv'
<1>1. w \in Processes /\ Callers \subseteq Processes /\ w \notin Callers
      /\ pc'[w] = "list" /\ Alone(w)
  BY Places DEF Commit
<1>2. pc[w] = "idle" /\ UNCHANGED <<entry, indexed, got, flagged, replies, events, pending, missed>>
  BY DEF Commit
<1>3. ReplyInv' /\ OrderInv'
  BY <1>1, <1>2, ReplySame DEF StoreInv, Replying
<1>4. Announced'
  BY <1>1 DEF Announced
<1>5. \A d \in Callers : Registers(d)' <=> Registers(d)
  BY <1>1 DEF Registers, Alone
<1>6. IndexInv'
  BY <1>2, <1>5 DEF StoreInv, IndexInv
<1> QED
  BY <1>3, <1>4, <1>6 DEF StoreInv, ReadInv, StaleInv

(* The refreshes that run were told; an entry whose key is not in the index is one of theirs. *)
LEMMA EvictStore ==
  ASSUME TypeInv, StoreInv, NEW w \in Writers, Evict(w)
  PROVE  StoreInv'
<1>1. w \in Processes /\ Callers \subseteq Processes /\ w \notin Callers /\ Alone(w)
      /\ pc'[w] = IF indexed THEN "forget" ELSE "idle"
  BY Places DEF Evict
<1>2. /\ pc[w] = "list" /\ UNCHANGED <<stored, entry, indexed, got, replies, events, pending, missed>>
      /\ \A c \in Watching : flagged'[c]
  BY DEF Evict, Bump, Watching
<1>3. \A c \in Callers : pc'[c] = pc[c]
  BY <1>1 DEF Alone
<1>4. ReplyInv' /\ OrderInv'
  BY <1>1, <1>2, ReplySame DEF StoreInv, Replying
<1>5. \A d \in Callers : Registers(d)' <=> Registers(d)
  BY <1>3 DEF Registers
<1>6. IndexInv'
  BY <1>2, <1>5 DEF StoreInv, IndexInv
<1>7. ReadInv'
  BY <1>2, <1>3 DEF ReadInv, Watching
<1>8. StaleInv'
  <2> SUFFICES ASSUME entry # None PROVE \E p \in Writers \cup Callers : InCharge(p)'
    BY <1>2 DEF StaleInv
  <2>1. CASE indexed
    BY <1>1, <2>1 DEF InCharge
  <2>2. CASE ~ indexed
    <3>1. PICK c \in Callers : pc[c] \in {"register", "registering"}
      BY <2>2 DEF StoreInv, IndexInv, Registers
    <3> QED
      BY <1>2, <1>3, <3>1 DEF InCharge, Watching
  <2> QED
    BY <2>1, <2>2
<1> QED
  BY <1>4, <1>6, <1>7, <1>8 DEF StoreInv

LEMMA ForgetStore ==
  ASSUME TypeInv, StoreInv, NEW p \in Processes, Forget(p)
  PROVE  StoreInv'
<1>1. Callers \subseteq Processes /\ Writers \subseteq Processes /\ pc'[p] = "remove" /\ Alone(p)
  BY Places DEF Forget
<1>2. /\ pc[p] = "forget" /\ entry' = None /\ replies' = Append(replies, p)
      /\ UNCHANGED <<stored, got, flagged, events>>
  BY DEF Forget
<1>3. ReplyInv'
  BY <1>1, <1>2, ReplySent DEF StoreInv, Replying
<1>4. Announced' <=> Announced
  BY <1>1, <1>2 DEF Announced, Alone
<1>5. ReadInv'
  BY <1>1, <1>2, <1>4 DEF StoreInv, ReadInv, Alone
<1> QED
  BY <1>2, <1>3, <1>5 DEF StoreInv, OrderInv, IndexInv, StaleInv

(* A refused delete is a miss, or leaves the table to the drain. *)
LEMMA ForgetFailsStore ==
  ASSUME TypeInv, StoreInv, NEW p \in Processes, ForgetFails(p)
  PROVE  StoreInv'
<1>1. Callers \subseteq Processes /\ Writers \subseteq Processes /\ Drain \in Processes
      /\ Drain \notin Callers \cup Writers /\ Alone(p)
      /\ pc'[p] = IF p \in Callers THEN "release" ELSE "idle"
  BY Places DEF ForgetFails
<1>2. /\ pc[p] = "forget" /\ UNCHANGED <<stored, entry, indexed, got, flagged, replies, events>>
      /\ missed' = (missed \/ p # Drain) /\ pending' = (pending \/ p = Drain)
  BY DEF ForgetFails
<1>3. \A q \in Processes \ {p} : pc'[q] = pc[q]
  BY <1>1 DEF Alone
<1>4. ReplyInv' /\ OrderInv'
  BY <1>1, <1>2, ReplySame DEF StoreInv, Replying
<1>5. Announced' <=> Announced
  BY <1>1, <1>2, <1>3 DEF Announced
<1>6. \A d \in Callers : Registers(d)' <=> Registers(d)
  BY <1>1, <1>2, <1>3 DEF Registers
<1>7. IndexInv'
  BY <1>2, <1>6 DEF StoreInv, IndexInv
<1>8. ReadInv'
  BY <1>1, <1>2, <1>3, <1>5 DEF StoreInv, ReadInv
<1>9. StaleInv'
  <2>1. CASE p = Drain
    <3>1. \A q \in Writers \cup Callers : InCharge(q)' <=> InCharge(q)
      BY <1>1, <1>2, <1>3, <2>1 DEF InCharge
    <3> QED
      BY <1>2, <1>5, <1>6, <2>1, <3>1 DEF StoreInv, StaleInv
  <2>2. CASE p # Drain
    BY <1>2, <2>2 DEF StaleInv
  <2> QED
    BY <2>1, <2>2
<1> QED
  BY <1>4, <1>7, <1>8, <1>9 DEF StoreInv

(* A key is removed for an entry that is gone: one that was put since registers it again. *)
LEMMA RemoveKeyStore ==
  ASSUME TypeInv, StoreInv, Ordered, NEW p \in Processes, RemoveKey(p)
  PROVE  StoreInv'
<1>1. Callers \subseteq Processes /\ Writers \subseteq Processes /\ Drain \in Processes /\ Alone(p)
      /\ pc'[p] \in {"release", "list", "idle"} /\ (p \in Writers => pc'[p] = "idle")
      /\ (p \in Callers => pc'[p] = "release")
  <2>1. pc'[p] = (IF p \in Callers THEN "release" ELSE IF p = Drain /\ pending THEN "list" ELSE "idle")
        /\ Alone(p)
    BY Places DEF RemoveKey
  <2> QED
    BY <2>1, Places
<1>2. pc[p] = "remove" /\ UNCHANGED <<stored, entry, got, flagged, events, pending, missed>>
  BY DEF RemoveKey
<1>3. \A q \in Processes \ {p} : pc'[q] = pc[q]
  BY <1>1 DEF Alone
<1>4. ReplyInv' /\ OrderInv' /\ (entry # None => \E c \in Callers : c # p /\ pc[c] = "register")
  BY <1>1, <1>2, ReplyHandled DEF StoreInv, Replying, RemoveKey
<1>5. Announced' <=> Announced
  BY <1>1, <1>2, <1>3 DEF Announced
<1>6. \A d \in Callers : Registers(d)' <=> Registers(d)
  BY <1>1, <1>2, <1>3 DEF Registers
<1>7. IndexInv'
  BY <1>2, <1>4, <1>6 DEF IndexInv, Registers
<1>8. ReadInv'
  BY <1>1, <1>2, <1>3, <1>5 DEF StoreInv, ReadInv
<1>9. StaleInv'
  <2>1. \A q \in Writers \cup Callers : InCharge(q) => InCharge(q)'
    BY <1>1, <1>2, <1>3 DEF InCharge
  <2> QED
    BY <1>2, <1>4, <1>5, <2>1 DEF StoreInv, StaleInv, Registers
<1> QED
  BY <1>4, <1>7, <1>8, <1>9 DEF StoreInv

LEMMA RemoteCommitStore ==
  ASSUME TypeInv, StoreInv, RemoteCommit
  PROVE  StoreInv'
<1>1. events' > 0 /\ UNCHANGED <<entry, indexed, pc, replies>>
  BY Places DEF RemoteCommit
<1> QED
  BY <1>1 DEF StoreInv, ReplyInv, OrderInv, IndexInv, ReadInv, StaleInv, Announced, Registers

(* The refreshes that run are told, and the drain will find an entry none of them registers. *)
LEMMA ReceiveStore ==
  ASSUME TypeInv, StoreInv, Receive
  PROVE  StoreInv'
<1>1. Drain \in Processes /\ Callers \subseteq Processes /\ Drain \notin Callers /\ Alone(Drain)
      /\ (pc[Drain] \in Replying => pc'[Drain] = pc[Drain])
      /\ (pc[Drain] \notin Replying => pc'[Drain] \notin Replying)
  BY Places DEF Receive, Replying, Alone
<1>2. /\ pending' = TRUE /\ UNCHANGED <<stored, entry, indexed, got, replies, missed>>
      /\ \A c \in Watching : flagged'[c]
  BY DEF Receive, Bump, Watching
<1>3. \A c \in Callers : pc'[c] = pc[c]
  BY <1>1 DEF Alone
<1>4. ReplyInv' /\ OrderInv'
  <2>1. CASE pc[Drain] \notin Replying
    BY <1>1, <1>2, <2>1, ReplySame DEF StoreInv
  <2>2. CASE pc[Drain] \in Replying
    <3>1. \A q \in Processes : pc'[q] = pc[q]
      BY <1>1, <2>2 DEF Alone
    <3>2. replies \in Seq(Processes) /\ \A i \in 1 .. Len(replies) : replies[i] \in Processes
      BY DEF StoreInv, ReplyInv
    <3>3. ReplyInv'
      BY <1>2, <3>1, <3>2 DEF StoreInv, ReplyInv
    <3>4. OrderInv'
      <4>1. \A i, k : i \in 1 .. Len(replies) /\ k \in i + 1 .. Len(replies) => k \in 1 .. Len(replies)
        BY <3>2
      <4> QED
        BY <1>2, <3>1, <3>2, <4>1 DEF StoreInv, OrderInv
    <3> QED
      BY <3>3, <3>4
  <2> QED
    BY <2>1, <2>2
<1>5. \A d \in Callers : Registers(d)' <=> Registers(d)
  BY <1>3 DEF Registers
<1>6. IndexInv'
  BY <1>2, <1>5 DEF StoreInv, IndexInv
<1>7. ReadInv'
  BY <1>2, <1>3 DEF ReadInv, Watching
<1>8. StaleInv'
  <2>1. \A c \in Callers : Registers(c) => InCharge(c)'
    BY <1>2, <1>3 DEF InCharge, Registers, Watching
  <2> QED
    BY <1>2, <1>5, <2>1 DEF StaleInv
<1> QED
  BY <1>4, <1>6, <1>7, <1>8 DEF StoreInv

(* The drain finds the entry in the index, unless a refresh is on its way to put it there. *)
LEMMA DrainStore ==
  ASSUME TypeInv, StoreInv, DrainTables
  PROVE  StoreInv'
<1>1. Drain \in Processes /\ Callers \subseteq Processes /\ Writers \subseteq Processes
      /\ Drain \notin Callers \cup Writers /\ Alone(Drain)
      /\ pc'[Drain] = IF indexed THEN "forget" ELSE "idle"
  BY Places DEF DrainTables
<1>2. pc[Drain] = "list" /\ UNCHANGED <<stored, entry, indexed, got, flagged, replies, events, missed>>
  BY DEF DrainTables
<1>3. \A q \in Processes \ {Drain} : pc'[q] = pc[q]
  BY <1>1 DEF Alone
<1>4. ReplyInv' /\ OrderInv'
  BY <1>1, <1>2, ReplySame DEF StoreInv, Replying
<1>5. Announced' <=> Announced
  BY <1>1, <1>2, <1>3 DEF Announced
<1>6. \A d \in Callers : Registers(d)' <=> Registers(d)
  BY <1>1, <1>2, <1>3 DEF Registers
<1>7. \A q \in Writers \cup Callers : InCharge(q)' <=> InCharge(q)
  BY <1>1, <1>2, <1>3 DEF InCharge
<1>8. IndexInv'
  BY <1>2, <1>6 DEF StoreInv, IndexInv
<1>9. ReadInv'
  BY <1>1, <1>2, <1>3, <1>5 DEF StoreInv, ReadInv
<1>10. StaleInv'
  BY <1>1, <1>2, <1>5, <1>6, <1>7 DEF StoreInv, StaleInv, IndexInv
<1> QED
  BY <1>4, <1>8, <1>9, <1>10 DEF StoreInv

(* The entry's bookkeeping, in every state, when the store's replies come in order. *)
LEMMA StoreInvariant ==
  ASSUME Ordered
  PROVE  Spec => [](TypeInv /\ StoreInv)
<1>1. Init => StoreInv
  BY QueryCacheAssumption
  DEF Init, StoreInv, ReplyInv, OrderInv, IndexInv, ReadInv, StaleInv, Replying, Processes
<1>2. TypeInv /\ StoreInv /\ [Next]_vars => StoreInv'
  <2> SUFFICES ASSUME TypeInv, StoreInv, [Next]_vars PROVE StoreInv'
    OBVIOUS
  <2>1. CASE UNCHANGED vars \/ Time
    BY <2>1, StoreSame DEF vars, Time
  <2> QED
    BY <2>1, CallerStore, CommitStore, EvictStore, ForgetStore, ForgetFailsStore, RemoveKeyStore,
       RemoteCommitStore, ReceiveStore, DrainStore DEF Next
<1> QED
  BY <1>1, <1>2, TypeInvariant, PTL DEF Spec

(***************************************************************************)
(* NoStaleEntry: with a store that answers in order, no write is lost on   *)
(* the cache, for any number of refreshes, writes and processes.           *)
(***************************************************************************)
THEOREM NoWriteLost ==
  ASSUME Ordered
  PROVE  Spec => []NoStaleEntry
<1>1. TypeInv /\ StoreInv => NoStaleEntry
  <2> SUFFICES ASSUME TypeInv, StoreInv PROVE NoStaleEntry
    OBVIOUS
  <2>1. Callers \subseteq Processes /\ Writers \subseteq Processes /\ Drain \in Processes
    BY Places
  <2> QED
    BY <2>1 DEF StoreInv, StaleInv, NoStaleEntry, Announced, InCharge
<1> QED
  BY <1>1, StoreInvariant, PTL
=============================================================================
