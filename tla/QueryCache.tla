----------------------------- MODULE QueryCache -----------------------------
(***************************************************************************)
(* One cached query of one server process: the stale-while-revalidate      *)
(* resolution of a read (packages/cache/src/flexible.ts) behind a lock,    *)
(* the refresh that stores and registers a result and the invalidations    *)
(* that race it (packages/cache/src/query-bridge.ts), and the writes that  *)
(* start them once they are committed (packages/db/src/cache.ts).          *)
(*                                                                         *)
(* Statements on the store take effect in one step and continue in         *)
(* another one: "replies" are the callers whose put or forget took effect  *)
(* and whose reply is under way.                                           *)
(***************************************************************************)
EXTENDS CacheLock, FiniteSets, SequencesExt

CONSTANTS
    Writers,      \* writes to the query's table in this process
    Drain,        \* the process' drain of invalidated tables
    Ordered,      \* the store's replies are handled in the order its statements took effect
    FreshFor,     \* the windows of an entry: served as it is for FreshFor,
    StaleFor,     \* and while it is refreshed until StaleFor
    MaxWrites,    \* bound on the writes
    MaxFailures   \* bound on the statements that fail

ASSUME QueryCacheAssumption ==
    /\ Ordered \in BOOLEAN
    /\ FreshFor \in Nat /\ StaleFor \in Nat /\ FreshFor <= StaleFor /\ Ttl = StaleFor
    /\ MaxWrites \in Nat /\ MaxFailures \in Nat
    /\ Writers \cap Callers = {} /\ Drain \notin Writers \cup Callers

VARIABLES
    stored,     \* the version of the rows in the database
    entry,      \* the cached envelope
    indexed,    \* the dependency index lists the key under the table
    pc,         \* where each caller, each writer and the drain is
    got,        \* the rows a refresh read
    flagged,    \* the caller's watch was invalidated
    replies,    \* statements on the store whose replies are not handled yet, in order
    events,     \* invalidations other processes published that have not arrived
    pending,    \* pendingDependencyTables holds the table
    missed,     \* an eviction failed, and the entry it was for is still there
    failures    \* statements that failed

cacheVars == <<stored, entry, indexed, pc, got, flagged, replies, events, pending, missed, failures>>
vars == <<now, lockVars, cacheVars>>

Processes == Callers \cup Writers \cup {Drain}
Entries == [value : 0 .. MaxWrites, freshUntil : Nat, staleUntil : Nat]

(* The type invariant; "replies" lists processes, each at most once. *)
CacheTypeOK ==
    /\ LockTypeOK
    /\ stored \in 0 .. MaxWrites
    /\ entry \in Entries \cup {None}
    /\ indexed \in BOOLEAN /\ pending \in BOOLEAN /\ missed \in BOOLEAN
    /\ pc \in [Processes -> {"idle", "lock", "reread", "retry", "watched", "put", "register",
                             "registering", "check", "list", "forget", "remove", "release"}]
    /\ got \in [Callers -> 0 .. MaxWrites]
    /\ flagged \in [Callers -> BOOLEAN]
    /\ events \in 0 .. MaxWrites
    /\ failures \in 0 .. MaxFailures

Init ==
    /\ LockInit
    /\ stored = 0
    /\ entry = None
    /\ indexed = FALSE
    /\ pc = [p \in Processes |-> "idle"]
    /\ got = [c \in Callers |-> 0]
    /\ flagged = [c \in Callers |-> FALSE]
    /\ replies = <<>>
    /\ events = 0
    /\ pending = FALSE
    /\ missed = FALSE
    /\ failures = 0

Go(p, place) == pc' = [pc EXCEPT ![p] = place]

(* resolveFlexibleEnvelopeState(): an expired envelope counts as none. *)
State == IF entry = None \/ now > entry.staleUntil THEN "expired"
         ELSE IF now > entry.freshUntil THEN "stale" ELSE "fresh"

(***************************************************************************)
(* The reply to p's statement is handled.  A store with one connection     *)
(* answers in order, so that no continuation overtakes that of a forget    *)
(* which took effect before.                                               *)
(***************************************************************************)
Reply(p) ==
    \E i \in 1 .. Len(replies) :
        /\ replies[i] = p
        /\ Ordered => \A k \in 1 .. i - 1 : pc[replies[k]] # "remove"
        /\ replies' = RemoveAt(replies, i)

-----------------------------------------------------------------------------
(* resolveFlexibleCachedValue() *)

(* The first read: a fresh entry is served, a stale one too while the caller
   tries once for the lock to refresh it, and otherwise the caller waits for it. *)
Ask(c) ==
    /\ pc[c] = "idle" /\ State # "fresh"
    /\ Attempt(c, IF State = "stale" THEN None ELSE now + Wait)
    /\ Go(c, "lock")
    /\ UNCHANGED <<now, stored, entry, indexed, got, flagged, replies, events, pending, missed, failures>>

Locking(c) ==
    /\ pc[c] = "lock"
    /\ LockStep(c)
    /\ UNCHANGED <<now, cacheVars>>

(* The lock is held: a stale entry is refreshed, a caller that waited looks again. *)
Locked(c) ==
    /\ pc[c] = "lock" /\ step[c] = "held"
    /\ Go(c, IF deadline[c] = None THEN "watched" ELSE "reread")
    /\ flagged' = [flagged EXCEPT ![c] = FALSE]
    /\ UNCHANGED <<now, lockVars, stored, entry, indexed, got, replies, events, pending, missed, failures>>

(* The lock is not: get() leaves the stale entry, block() looks again without it. *)
Refused(c) ==
    /\ pc[c] = "lock" /\ GivesUp(c)
    /\ Leave(c)
    /\ Go(c, IF deadline[c] = None THEN "idle" ELSE "reread")
    /\ UNCHANGED <<now, stored, entry, indexed, got, flagged, replies, events, pending, missed, failures>>

(* A statement of the lock fails: the call rejects, without refreshing the entry. *)
LockFails(c) ==
    /\ pc[c] = "lock" /\ failures < MaxFailures
    /\ AttemptFails(c) \/ InsertUnanswered(c)
    /\ failures' = failures + 1
    /\ Go(c, "idle")
    /\ UNCHANGED <<now, stored, entry, indexed, got, flagged, replies, events, pending, missed>>

(* The second read, inside the lock or without it: watchInvalidations() starts with
   the refresh if the entry is still missing. *)
Reread(c) ==
    /\ pc[c] = "reread"
    /\ Go(c, IF State = "expired" THEN "watched" ELSE "release")
    /\ flagged' = [flagged EXCEPT ![c] = FALSE]
    /\ UNCHANGED <<now, lockVars, stored, entry, indexed, got, replies, events, pending, missed, failures>>

-----------------------------------------------------------------------------
(* refreshValue() *)

(* The callback runs the query. *)
Read(c) ==
    /\ pc[c] = "watched"
    /\ got' = [got EXCEPT ![c] = stored]
    /\ Go(c, "put")
    /\ UNCHANGED <<now, lockVars, stored, entry, indexed, flagged, replies, events, pending, missed,
                   failures>>

(* Mutant of RefreshFails: the lock is released only after a refresh. *)
RefreshFailsKeeping(c) ==
    /\ pc[c] \in {"reread", "watched", "put"} /\ failures < MaxFailures
    /\ failures' = failures + 1
    /\ Go(c, "idle")
    /\ UNCHANGED <<now, lockVars, stored, entry, indexed, got, flagged, replies, events, pending, missed>>

(* The second read, the query or the put fails: the call rejects, and nothing was cached. *)
RefreshFails(c) ==
    /\ pc[c] \in {"reread", "watched", "put"} /\ failures < MaxFailures
    /\ failures' = failures + 1
    /\ Go(c, "release")
    /\ UNCHANGED <<now, lockVars, stored, entry, indexed, got, flagged, replies, events, pending, missed>>

(* writeCacheEntry() takes effect. *)
Put(c) ==
    /\ pc[c] = "put"
    /\ entry' = [value |-> got[c], freshUntil |-> now + FreshFor, staleUntil |-> now + StaleFor]
    /\ replies' = Append(replies, c)
    /\ missed' = FALSE
    /\ Go(c, "register")
    /\ UNCHANGED <<now, lockVars, stored, indexed, got, flagged, events, pending, failures>>

(* syncDependencies(): the memory index removes the key, and adds it in a later microtask. *)
Unregister(c) ==
    /\ pc[c] = "register"
    /\ Reply(c)
    /\ indexed' = FALSE
    /\ Go(c, "registering")
    /\ UNCHANGED <<now, lockVars, stored, entry, got, flagged, events, pending, missed, failures>>

Register(c) ==
    /\ pc[c] = "registering"
    /\ indexed' = TRUE
    /\ Go(c, "check")
    /\ UNCHANGED <<now, lockVars, stored, entry, got, flagged, replies, events, pending, missed, failures>>

(* watch.invalidated(): rows read before a write are not left in the cache. *)
Check(c) ==
    /\ pc[c] = "check"
    /\ Go(c, IF flagged[c] THEN "forget" ELSE "release")
    /\ UNCHANGED <<now, lockVars, stored, entry, indexed, got, flagged, replies, events, pending, missed,
                   failures>>

(* The call is over, and its variables gone. *)
Done(c) ==
    /\ Go(c, "idle")
    /\ got' = [got EXCEPT ![c] = 0]
    /\ flagged' = [flagged EXCEPT ![c] = FALSE]
    /\ UNCHANGED <<now, stored, entry, indexed, replies, events, pending, missed>>

(* The watch and the lock are let go, whatever came of the refresh. *)
Release(c) ==
    /\ pc[c] = "release"
    /\ IF step[c] = "held" THEN LetGo(c) ELSE Leave(c)
    /\ Done(c)
    /\ UNCHANGED failures

(* The delete of the lock's row fails in the "finally" that lets the lock go. *)
ReleaseFails(c) ==
    /\ pc[c] = "release" /\ step[c] = "held" /\ failures < MaxFailures
    /\ LetGoFails(c)
    /\ failures' = failures + 1
    /\ Done(c)

-----------------------------------------------------------------------------
(* Invalidations *)

Watching == {c \in Callers : pc[c] \in {"watched", "put", "register", "registering", "check"}}

(* bumpInvalidationGenerations() reaches every refresh that runs. *)
Bump == flagged' = [c \in Callers |-> c \in Watching \/ flagged[c]]

(* Mutant of Evict: the refreshes that run are told after the keys were evicted, so not
   when there was none. *)
EvictListed(w) ==
    /\ pc[w] = "list"
    /\ IF indexed THEN Bump ELSE UNCHANGED flagged
    /\ Go(w, IF indexed THEN "forget" ELSE "idle")
    /\ UNCHANGED <<now, lockVars, stored, entry, indexed, got, replies, events, pending, missed, failures>>

(* A write commits; its invalidation runs after. *)
Commit(w) ==
    /\ pc[w] = "idle" /\ stored < MaxWrites
    /\ stored' = stored + 1
    /\ Go(w, "list")
    /\ UNCHANGED <<now, lockVars, entry, indexed, got, flagged, replies, events, pending, missed, failures>>

(* invalidateDependencies(): the refreshes that run are told, and the keys listed. *)
Evict(w) ==
    /\ pc[w] = "list"
    /\ Bump
    /\ Go(w, IF indexed THEN "forget" ELSE "idle")
    /\ UNCHANGED <<now, lockVars, stored, entry, indexed, got, replies, events, pending, missed, failures>>

(* forgetNormalizedCacheEntry(): the entry is deleted by a writer, the drain, or a
   refresh that was told of a write. *)
Forget(p) ==
    /\ pc[p] = "forget"
    /\ entry' = None
    /\ missed' = FALSE
    /\ replies' = Append(replies, p)
    /\ Go(p, "remove")
    /\ UNCHANGED <<now, lockVars, stored, indexed, got, flagged, events, pending, failures>>

(* The delete fails: a refresh rejects, a writer reports it, and the drain keeps the
   table for the next one. *)
ForgetFails(p) ==
    /\ pc[p] = "forget" /\ failures < MaxFailures
    /\ failures' = failures + 1
    /\ missed' = (missed \/ p # Drain)
    /\ pending' = (pending \/ p = Drain)
    /\ Go(p, IF p \in Callers THEN "release" ELSE "idle")
    /\ UNCHANGED <<now, lockVars, stored, entry, indexed, got, flagged, replies, events>>

(* removeKey(), and the drain looks for tables that came meanwhile. *)
RemoveKey(p) ==
    /\ pc[p] = "remove"
    /\ Reply(p)
    /\ indexed' = FALSE
    /\ Go(p, IF p \in Callers THEN "release" ELSE IF p = Drain /\ pending THEN "list" ELSE "idle")
    /\ UNCHANGED <<now, lockVars, stored, entry, got, flagged, events, pending, missed, failures>>

(* Another process commits a write and publishes its table. *)
RemoteCommit ==
    /\ stored < MaxWrites
    /\ stored' = stored + 1
    /\ events' = events + 1
    /\ UNCHANGED <<now, lockVars, entry, indexed, pc, got, flagged, replies, pending, missed, failures>>

(* invalidateDependencyTables(): the table is kept for a drain, which is started
   unless one runs. *)
Receive ==
    /\ events > 0
    /\ events' = events - 1
    /\ Bump
    /\ pending' = TRUE
    /\ IF pc[Drain] = "idle" THEN Go(Drain, "list") ELSE UNCHANGED pc
    /\ UNCHANGED <<now, lockVars, stored, entry, indexed, got, replies, missed, failures>>

(* evictPendingDependencyTables(): a batch is taken, and its keys listed. *)
DrainTables ==
    /\ pc[Drain] = "list"
    /\ pending' = FALSE
    /\ Go(Drain, IF indexed THEN "forget" ELSE "idle")
    /\ UNCHANGED <<now, lockVars, stored, entry, indexed, got, flagged, replies, events, missed, failures>>

-----------------------------------------------------------------------------
CallerStep(c) ==
    \/ Locking(c) \/ Locked(c) \/ Refused(c) \/ Reread(c)
    \/ Read(c) \/ Put(c) \/ Unregister(c) \/ Register(c) \/ Check(c) \/ Release(c)

Failure(c) == LockFails(c) \/ RefreshFails(c) \/ ReleaseFails(c)

Time == Tick /\ UNCHANGED cacheVars

Next ==
    \/ \E c \in Callers : Ask(c) \/ CallerStep(c) \/ Failure(c)
    \/ \E w \in Writers : Commit(w) \/ Evict(w)
    \/ \E p \in Processes : Forget(p) \/ ForgetFails(p) \/ RemoveKey(p)
    \/ RemoteCommit \/ Receive \/ DrainTables
    \/ Time

Spec == Init /\ [][Next]_vars

-----------------------------------------------------------------------------
(* Who will still delete the entry: a write whose invalidation has not listed or not
   deleted the key yet, an invalidation from another process, and a refresh that was told. *)
InCharge(p) ==
    \/ p \in Writers \cup {Drain} /\ pc[p] \in {"list", "forget"}
    \/ p \in Callers /\ pc[p] = "forget"
    \/ p \in Callers /\ pc[p] \in {"register", "registering", "check"} /\ flagged[p]

(***************************************************************************)
(* No write is lost on the cache: while an entry that may be served holds  *)
(* rows older than the database, someone is on the way to delete it,       *)
(* unless the store refused to.  A refresh that read before the write may  *)
(* put its rows at any time, and the key it put them under may be missing  *)
(* from the index when the write lists it.                                 *)
(***************************************************************************)
NoStaleEntry ==
    entry # None /\ entry.value # stored =>
        missed \/ events > 0 \/ pending \/ \E p \in Processes : InCharge(p)

(***************************************************************************)
(* The refresh lock is free again once its caller is done, however the     *)
(* refresh failed.  Only a failing statement of the lock itself, in the    *)
(* attempt or in the "finally" that releases it, leaves a row behind, and  *)
(* no longer than the lock's lifetime.                                     *)
(***************************************************************************)
LockFreed ==
    row # None =>
        /\ row.until <= now + Ttl
        /\ pc[row.owner] = "idle" => row.lost
=============================================================================
