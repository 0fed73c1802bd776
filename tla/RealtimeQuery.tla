---------------------------- MODULE RealtimeQuery ----------------------------
(***************************************************************************)
(* Live queries of one process (packages/realtime/src/runtime): how the    *)
(* invalidations of writes, made here or in another process, bring the     *)
(* result of a subscribed query up to date, by patching the result with    *)
(* the write or by running the query again, and the order the writes are   *)
(* published in (packages/db/src/cache.ts).                                *)
(*                                                                         *)
(* A result is the sequence of the writes it reflects: every write changes *)
(* the same row, so that one applied twice, or before an older one, shows. *)
(***************************************************************************)
EXTENDS FiniteSets, Naturals, SequencesExt

CONSTANTS
    Subs,         \* subscriptions; each one has an id, and so a query entry, of its own
    Local,        \* writes of this process
    Remote,       \* writes of other processes, whose tables are published here
    Overlapping,  \* a subscription may end while another one resolves its arguments
    Slots,        \* REMOTE_REFRESH_CONCURRENCY
    Retention,    \* MUTATION_PUBLICATION_RETENTION
    MaxFailures,  \* bound on the queries that fail
    None          \* no listener when the write began, no result yet

ASSUME RealtimeAssumption ==
    /\ IsFiniteSet(Subs) /\ Local \cap Remote = {} /\ Overlapping \in BOOLEAN
    /\ Slots \in Nat \ {0} /\ Retention \in Nat \ {0} /\ MaxFailures \in Nat
    /\ None \notin Nat \cup Seq(Local \cup Remote)

VARIABLES
    log,          \* the committed writes, in order
    write,        \* where each write is
    startedAt,    \* the publication sequence when a local write began
    publications, \* mutationPublications: sequence, records, prunedThrough
    attached,     \* the runtime listens to invalidations
    sub,          \* where each subscription is
    indexed,      \* entries in the dependency indexes
    stale,        \* entries whose table was invalidated since their creation began
    requested,    \* initialRefreshRequests
    entry,        \* query entries: the result, the read boundary, a failed refresh
    batch,        \* the invalidations by local writes that wait for the batch timer
    remoteBatch,  \* one by another process' write waits for it
    patches,      \* attempts to patch that are awaited
    refresh,      \* the running refresh of an entry, and whether another one is pending
    got,          \* the result a query returned
    asked,        \* remote refreshes requested
    remote,       \* the remote refresh of an entry, queued for the running one or a slot
    timers,       \* deferred remote refreshes
    recent,       \* entries refreshed for another process a moment ago
    active,       \* activeRemoteRefreshes
    holding,      \* entries whose remote refresh runs in a slot
    slotQueue,    \* remoteRefreshWaiters
    client,       \* the result the subscriber was given
    failures      \* queries that failed

writeVars == <<log, write, startedAt, publications>>
subVars == <<attached, sub, indexed, stale, requested>>
remoteVars == <<asked, remote, timers, recent, active, holding, slotQueue>>
batchVars == <<batch, remoteBatch>>
vars == <<writeVars, subVars, entry, batchVars, patches, refresh, got, remoteVars, client, failures>>

Writes == Local \cup Remote
Results == Seq(Writes)
Maybe == Results \cup {None}
Patches == [sub : Subs, writes : Results, intact : BOOLEAN, read : Maybe]
Events == [write : Local, startedAt : Nat \cup {None}]
Publications == [sequence : Nat, records : Seq(Nat), prunedThrough : Nat]

(* The type invariant; the publications are kept within their bound. *)
WriteTypes ==
    /\ log \in Results /\ IsInjective(log)
    /\ write \in [Writes -> {"idle", "begun", "committed", "published"}]
    /\ startedAt \in [Local -> Nat \cup {None}]
    /\ publications \in Publications /\ Len(publications.records) <= Retention

SubTypes ==
    /\ attached \in BOOLEAN
    /\ sub \in [Subs -> {"new", "args", "query", "mark", "register", "entered", "active", "gone"}]
    /\ indexed \subseteq Subs /\ stale \subseteq Subs /\ requested \subseteq Subs

EntryTypes ==
    /\ entry \in [Subs -> [data : Maybe, boundary : Nat, failed : BOOLEAN]]
    /\ batch \in Seq(Events) /\ remoteBatch \in BOOLEAN
    /\ patches \subseteq Patches
    /\ got \in [Subs -> Maybe] /\ client \in [Subs -> Maybe]

RefreshTypes ==
    /\ refresh \in [Subs -> [at : {"none", "query", "mark", "deliver"}, pending : BOOLEAN]]
    /\ remote \in [Subs -> {"none", "waiting", "slot", "granted"}]
    /\ asked \subseteq Subs /\ timers \subseteq Subs /\ recent \subseteq Subs
    /\ active \in 0 .. Slots /\ holding \subseteq Subs /\ slotQueue \in Seq(Subs)
    /\ failures \in 0 .. MaxFailures

RealtimeTypeOK == WriteTypes /\ SubTypes /\ EntryTypes /\ RefreshTypes

NoEntry == [data |-> None, boundary |-> 0, failed |-> FALSE]

Init ==
    /\ log = <<>>
    /\ write = [w \in Writes |-> "idle"]
    /\ startedAt = [w \in Local |-> None]
    /\ publications = [sequence |-> 0, records |-> <<>>, prunedThrough |-> 0]
    /\ attached = FALSE
    /\ sub = [s \in Subs |-> "new"]
    /\ indexed = {} /\ stale = {} /\ requested = {}
    /\ entry = [s \in Subs |-> NoEntry]
    /\ batch = <<>> /\ remoteBatch = FALSE
    /\ patches = {}
    /\ refresh = [s \in Subs |-> [at |-> "none", pending |-> FALSE]]
    /\ got = [s \in Subs |-> None]
    /\ asked = {} /\ timers = {} /\ recent = {}
    /\ remote = [s \in Subs |-> "none"]
    /\ active = 0 /\ holding = {} /\ slotQueue = <<>>
    /\ client = [s \in Subs |-> None]
    /\ failures = 0

(* queryEntries and subscriptions. *)
Entered == {s \in Subs : sub[s] \in {"query", "mark", "register", "entered", "active"}}
Subscribed == {s \in Subs : sub[s] = "active"}

-----------------------------------------------------------------------------
(* Writes and their publication *)

(* beginMutationPublication(), before the statement runs. *)
Begin(w) ==
    /\ write[w] = "idle"
    /\ write' = [write EXCEPT ![w] = "begun"]
    /\ startedAt' = [startedAt EXCEPT ![w] = IF attached THEN publications.sequence ELSE None]
    /\ UNCHANGED <<log, publications, subVars, entry, batchVars, patches, refresh, got,
                   remoteVars, client, failures>>

(* The write, or its transaction, commits. *)
Commit(w) ==
    /\ write[w] = IF w \in Local THEN "begun" ELSE "idle"
    /\ write' = [write EXCEPT ![w] = "committed"]
    /\ log' = Append(log, w)
    /\ UNCHANGED <<startedAt, publications, subVars, entry, batchVars, patches, refresh, got,
                   remoteVars, client, failures>>

(* recordMutationPublications(): a bounded list of what was published when. *)
Recorded ==
    LET sequence == publications.sequence + 1
        records == Append(publications.records, sequence)
    IN  IF Len(records) <= Retention
        THEN [publications EXCEPT !.sequence = sequence, !.records = records]
        ELSE [sequence |-> sequence, records |-> Tail(records), prunedThrough |-> Head(records)]

(* No overlapping write was published since this one began. *)
Ordered(w) ==
    /\ startedAt[w] # None
    /\ startedAt[w] >= publications.prunedThrough
    /\ \A i \in DOMAIN publications.records : publications.records[i] <= startedAt[w]

(* handleBatchedDatabaseInvalidation(): the table's generation grows, and the event joins
   the batch if there is any entry. *)
Notify(w, began) ==
    /\ stale' = stale \cup {s \in Subs : sub[s] \in {"query", "mark", "register"}}
    /\ batch' = IF w \in Local /\ Entered # {} THEN Append(batch, [write |-> w, startedAt |-> began])
                ELSE batch
    /\ remoteBatch' = (remoteBatch \/ (w \in Remote /\ Entered # {}))

(* invalidateQueryCacheDependencies() of a local write, after its commit, and
   receiveRemoteDatabaseDependencyInvalidation() of another process' write.  Only a write
   published in order tells when it began. *)
Publish(w) ==
    /\ write[w] = "committed"
    /\ write' = [write EXCEPT ![w] = "published"]
    /\ startedAt' = IF w \in Local THEN [startedAt EXCEPT ![w] = None] ELSE startedAt
    /\ IF attached
       THEN /\ publications' = Recorded
            /\ Notify(w, IF w \in Local /\ Ordered(w) THEN startedAt[w] ELSE None)
       ELSE UNCHANGED <<publications, stale, batchVars>>
    /\ UNCHANGED <<log, attached, sub, indexed, requested, entry, patches, refresh, got,
                   remoteVars, client, failures>>

-----------------------------------------------------------------------------
(* subscribeRealtimeQuery() *)

(* ensureDatabaseSubscription(): a first listener starts a new epoch of publications. *)
Subscribe(s) ==
    /\ sub[s] = "new"
    /\ sub' = [sub EXCEPT ![s] = "args"]
    /\ attached' = TRUE
    /\ publications' = IF attached THEN publications
                       ELSE LET sequence == publications.sequence + 1
                            IN  [publications EXCEPT !.sequence = sequence, !.prunedThrough = sequence]
    /\ UNCHANGED <<log, write, startedAt, indexed, stale, requested, entry, batchVars, patches,
                   refresh, got, remoteVars, client, failures>>

(* createQueryEntry(): the entry is there, in no index yet, and its query runs. *)
Enter(s) ==
    /\ sub[s] = "args"
    /\ sub' = [sub EXCEPT ![s] = "query"]
    /\ UNCHANGED <<writeVars, attached, indexed, stale, requested, entry, batchVars, patches, refresh, got,
                   remoteVars, client, failures>>

InitialRead(s) ==
    /\ sub[s] = "query"
    /\ got' = [got EXCEPT ![s] = log]
    /\ sub' = [sub EXCEPT ![s] = "mark"]
    /\ UNCHANGED <<writeVars, attached, indexed, stale, requested, entry, batchVars, patches, refresh,
                   remoteVars, client, failures>>

(* detachDatabaseSubscriptionIfIdle() *)
Detached(subs) == attached /\ \E s \in Subs : subs[s] \in {"query", "mark", "register", "entered", "active"}

(* The arguments are invalid, or the query fails: the entry goes. *)
SubscribeFails(s) ==
    /\ sub[s] \in {"args", "query"} /\ failures < MaxFailures
    /\ Overlapping \/ \A t \in Subs \ {s} : sub[t] # "args"
    /\ failures' = failures + 1
    /\ sub' = [sub EXCEPT ![s] = "gone"]
    /\ attached' = Detached(sub')
    /\ stale' = stale \ {s}
    /\ UNCHANGED <<writeVars, indexed, requested, entry, batchVars, patches, refresh, got,
                   remoteVars, client>>

(* markMutationPublicationBoundary(): of a write that begins later, the result has nothing. *)
Boundary == [publications EXCEPT !.sequence = @ + 1]

InitialMark(s) ==
    /\ sub[s] = "mark"
    /\ publications' = Boundary
    /\ entry' = [entry EXCEPT ![s].boundary = publications'.sequence]
    /\ sub' = [sub EXCEPT ![s] = "register"]
    /\ UNCHANGED <<log, write, startedAt, attached, indexed, stale, requested, batchVars, patches,
                   refresh, got, remoteVars, client, failures>>

(* Mutant of InitialRegister: what was invalidated while the query ran is not looked at. *)
InitialRegisterBlind(s) ==
    /\ sub[s] = "register"
    /\ entry' = [entry EXCEPT ![s].data = got[s]]
    /\ indexed' = indexed \cup {s}
    /\ stale' = stale \ {s}
    /\ sub' = [sub EXCEPT ![s] = "entered"]
    /\ UNCHANGED <<writeVars, attached, requested, batchVars, patches, refresh, got, remoteVars, client,
                   failures>>

(* The entry is indexed, and is to be refreshed if its table was invalidated meanwhile. *)
InitialRegister(s) ==
    /\ sub[s] = "register"
    /\ entry' = [entry EXCEPT ![s].data = got[s]]
    /\ indexed' = indexed \cup {s}
    /\ requested' = IF s \in stale THEN requested \cup {s} ELSE requested
    /\ stale' = stale \ {s}
    /\ sub' = [sub EXCEPT ![s] = "entered"]
    /\ UNCHANGED <<writeVars, attached, batchVars, patches, refresh, got, remoteVars, client, failures>>

(* The subscription is there, and its subscriber given what the entry holds by now. *)
Activate(s) ==
    /\ sub[s] = "entered"
    /\ sub' = [sub EXCEPT ![s] = "active"]
    /\ client' = [client EXCEPT ![s] = entry[s].data]
    /\ UNCHANGED <<writeVars, attached, indexed, stale, requested, entry, batchVars, patches, refresh, got,
                   remoteVars, failures>>

(* deleteSubscription(), once subscribeRealtimeQuery() has returned it.  A remote refresh
   that waits goes on, to find no entry. *)
Unsubscribe(s) ==
    /\ sub[s] = "active" /\ s \notin requested
    /\ Overlapping \/ \A t \in Subs : sub[t] # "args"
    /\ sub' = [sub EXCEPT ![s] = "gone"]
    /\ attached' = Detached(sub')
    /\ indexed' = indexed \ {s}
    /\ timers' = timers \ {s} /\ recent' = recent \ {s}
    /\ patches' = {p \in patches : p.sub # s}
    /\ entry' = [entry EXCEPT ![s] = NoEntry]
    /\ client' = [client EXCEPT ![s] = None]
    /\ UNCHANGED <<writeVars, stale, requested, batchVars, refresh, got, asked, remote, active, holding,
                   slotQueue, failures>>

-----------------------------------------------------------------------------
(* Refreshing an entry by its query *)

(* Mutant of Scheduled: a request for an entry whose refresh runs is left to that one. *)
ScheduledOnce(entries) ==
    [s \in Subs |-> IF s \notin entries \/ refresh[s].at # "none" THEN refresh[s]
                    ELSE [at |-> "query", pending |-> FALSE]]

(* scheduleRefreshKey(): a refresh that runs is followed by another one. *)
Scheduled(entries) ==
    [s \in Subs |-> IF s \notin entries THEN refresh[s]
                    ELSE IF refresh[s].at # "none" THEN [refresh[s] EXCEPT !.pending = TRUE]
                    ELSE [at |-> "query", pending |-> FALSE]]

(* takeInitialRefreshRequest() *)
RefreshInitially(s) ==
    /\ sub[s] = "active" /\ s \in requested
    /\ requested' = requested \ {s}
    /\ refresh' = Scheduled({s})
    /\ UNCHANGED <<writeVars, attached, sub, indexed, stale, entry, batchVars, patches, got,
                   remoteVars, client, failures>>

(* refreshQueryEntry(): the query reads, unless the entry is gone. *)
RefreshRead(s) ==
    /\ refresh[s].at = "query"
    /\ IF s \in Entered THEN refresh' = [refresh EXCEPT ![s].at = "mark"] /\ got' = [got EXCEPT ![s] = log]
       ELSE refresh' = [refresh EXCEPT ![s].at = "deliver"] /\ UNCHANGED got
    /\ UNCHANGED <<writeVars, subVars, entry, batchVars, patches, remoteVars, client, failures>>

(* The query fails: the subscriber is told, and the next write runs it again. *)
RefreshFails(s) ==
    /\ refresh[s].at = "query" /\ s \in Entered /\ failures < MaxFailures
    /\ failures' = failures + 1
    /\ entry' = [entry EXCEPT ![s].failed = TRUE]
    /\ refresh' = [refresh EXCEPT ![s].at = "deliver"]
    /\ UNCHANGED <<writeVars, subVars, batchVars, patches, got, remoteVars, client>>

(* An entry whose version or boundary changed is not patched by attempts begun before. *)
Overtaken(s) == {[p EXCEPT !.intact = @ /\ p.sub # s] : p \in patches}

(* Mutant of RefreshMark: the boundary stays that of the result before. *)
RefreshMarkUnbounded(s) ==
    /\ refresh[s].at = "mark"
    /\ refresh' = [refresh EXCEPT ![s].at = "deliver"]
    /\ patches' = Overtaken(s)
    /\ got' = [got EXCEPT ![s] = None]
    /\ entry' = [entry EXCEPT ![s].data = got[s], ![s].failed = FALSE]
    /\ client' = IF s \in Subscribed THEN [client EXCEPT ![s] = got[s]] ELSE client
    /\ UNCHANGED <<writeVars, subVars, batchVars, remoteVars, failures>>

(* The boundary is marked, and deliverRefreshData() gives the subscriber the result. *)
RefreshMark(s) ==
    /\ refresh[s].at = "mark"
    /\ refresh' = [refresh EXCEPT ![s].at = "deliver"]
    /\ publications' = Boundary
    /\ patches' = Overtaken(s)
    /\ got' = [got EXCEPT ![s] = None]
    /\ entry' = IF s \in Entered
                THEN [entry EXCEPT ![s] = [data |-> got[s], boundary |-> publications'.sequence,
                                           failed |-> FALSE]]
                ELSE entry
    /\ client' = IF s \in Subscribed THEN [client EXCEPT ![s] = got[s]] ELSE client
    /\ UNCHANGED <<log, write, startedAt, subVars, batchVars, remoteVars, failures>>

(* releaseRemoteRefreshSlot(): a slot goes to the first refresh that waits. *)
ReleaseSlot(refreshes) ==
    IF slotQueue = <<>> THEN active' = active - 1 /\ remote' = refreshes /\ UNCHANGED slotQueue
    ELSE /\ remote' = [refreshes EXCEPT ![Head(slotQueue)] = "granted"]
         /\ slotQueue' = Tail(slotQueue)
         /\ UNCHANGED active

(* drainRefresh() goes on while a refresh is pending, and lets its slot go at the end. *)
RefreshDone(s) ==
    /\ refresh[s].at = "deliver"
    /\ refresh' = [refresh EXCEPT ![s] = [at |-> IF @.pending THEN "query" ELSE "none",
                                          pending |-> FALSE]]
    /\ IF s \in holding /\ ~ refresh[s].pending
       THEN holding' = holding \ {s} /\ ReleaseSlot(remote)
       ELSE UNCHANGED <<holding, active, remote, slotQueue>>
    /\ UNCHANGED <<writeVars, subVars, entry, batchVars, patches, got, asked, timers, recent, client, failures>>

-----------------------------------------------------------------------------
(* Local writes: patching an entry *)

(* tryPatchQueryEntry() leaves the entry to its query while that runs, after it failed, and
   for a write that may be in the result already, or not come next in it. *)
Patchable(s, events) ==
    /\ refresh[s].at = "none" /\ ~ entry[s].failed
    /\ \A e \in ToSet(events) : e.startedAt # None /\ e.startedAt >= entry[s].boundary

(* flushInvalidationBatch(): entries are patched with the local writes or run again, and
   those that read a table another process wrote are asked to refresh. *)
Flush ==
    /\ batch # <<>> \/ remoteBatch
    /\ batch' = <<>> /\ remoteBatch' = FALSE
    /\ LET writes == [i \in DOMAIN batch |-> batch[i].write]
           tried == {s \in indexed : batch # <<>> /\ Patchable(s, batch)}
       IN  /\ patches' = patches \cup
                  {[sub |-> s, writes |-> writes, intact |-> TRUE, read |-> None] : s \in tried}
           /\ refresh' = Scheduled(IF batch = <<>> THEN {} ELSE indexed \ tried)
    /\ asked' = IF remoteBatch THEN asked \cup indexed ELSE asked
    /\ UNCHANGED <<writeVars, subVars, entry, got, remote, timers, recent, active, holding, slotQueue,
                   client, failures>>

(* A patch that lacks rows reads them. *)
PatchRead(p) ==
    /\ p.read = None
    /\ patches' = (patches \ {p}) \cup {[p EXCEPT !.read = log]}
    /\ UNCHANGED <<writeVars, subVars, entry, batchVars, refresh, got, remoteVars, client, failures>>

(* The attempt fails, or the entry changed while it was awaited: the query runs. *)
Unpatched(p) ==
    /\ patches' = patches \ {p}
    /\ refresh' = Scheduled({p.sub})
    /\ UNCHANGED <<writeVars, subVars, entry, batchVars, got, remoteVars, client, failures>>

(* deliverPatchedQueryEntry(): the writes are applied to the result, in the entry and at the
   subscriber; rows that were read move the boundary. *)
Patched(p) ==
    /\ p.intact
    /\ patches' = {q \in Overtaken(p.sub) : q.writes # p.writes \/ q.sub # p.sub}
    /\ publications' = IF p.read = None THEN publications ELSE Boundary
    /\ LET apply(result) == IF p.read = None THEN result \o p.writes ELSE p.read
       IN  /\ entry' = [entry EXCEPT ![p.sub].data = apply(@),
                            ![p.sub].boundary = IF p.read = None THEN @ ELSE publications'.sequence]
           /\ client' = IF p.sub \in Subscribed THEN [client EXCEPT ![p.sub] = apply(@)] ELSE client
    /\ UNCHANGED <<log, write, startedAt, subVars, batchVars, refresh, got, remoteVars, failures>>

-----------------------------------------------------------------------------
(* Writes of other processes: a few queries at a time, and not too often *)

(* acquireRemoteRefreshSlot(), when no refresh of an entry that is there runs: of the values
   of remote, "waiting" stands for a running refresh awaited, "slot" for a slot awaited. *)
RefreshRemote(s, others) ==
    IF s \in Entered /\ refresh[s].at # "none"
    THEN remote' = [others EXCEPT ![s] = "waiting"] /\ UNCHANGED <<active, slotQueue>>
    ELSE IF active < Slots
    THEN remote' = [others EXCEPT ![s] = "granted"] /\ active' = active + 1 /\ UNCHANGED slotQueue
    ELSE remote' = [others EXCEPT ![s] = "slot"] /\ slotQueue' = Append(slotQueue, s) /\ UNCHANGED active

(* requestRemoteRefresh(): deferred if the last one was a moment ago, dropped if a deferred
   one or a queued one will read later anyway. *)
RequestRemoteRefresh(s) ==
    /\ s \in asked
    /\ asked' = asked \ {s}
    /\ timers' = IF s \in recent THEN timers \cup {s} ELSE timers
    /\ IF s \notin timers \cup recent /\ remote[s] = "none" THEN RefreshRemote(s, remote)
       ELSE UNCHANGED <<remote, active, slotQueue>>
    /\ UNCHANGED <<writeVars, subVars, entry, batchVars, patches, refresh, got, recent, holding, client,
                   failures>>

(* The running refresh has ended, and the remote one is requested again. *)
Resume(s) ==
    /\ remote[s] = "waiting" /\ refresh[s].at = "none"
    /\ remote' = [remote EXCEPT ![s] = "none"]
    /\ asked' = asked \cup {s}
    /\ UNCHANGED <<writeVars, subVars, entry, batchVars, patches, refresh, got, timers, recent, active,
                   holding, slotQueue, client, failures>>

(* scheduleDeferredRemoteRefresh()'s timer, after the interval. *)
TimerFires(s) ==
    /\ s \in timers
    /\ timers' = timers \ {s}
    /\ recent' = recent \ {s}
    /\ IF remote[s] = "none" THEN RefreshRemote(s, remote) ELSE UNCHANGED <<remote, active, slotQueue>>
    /\ UNCHANGED <<writeVars, subVars, entry, batchVars, patches, refresh, got, asked, holding, client,
                   failures>>

(* REMOTE_REFRESH_MIN_INTERVAL_MS passes, with no refresh deferred. *)
IntervalPasses(s) ==
    /\ s \in recent \ timers
    /\ recent' = recent \ {s}
    /\ UNCHANGED <<writeVars, subVars, entry, batchVars, patches, refresh, got, asked, remote, timers,
                   active, holding, slotQueue, client, failures>>

(* Mutant of Granted: the slot of an entry that is gone is not given back. *)
GrantedLeaks(s) ==
    /\ remote[s] = "granted"
    /\ LET others == [remote EXCEPT ![s] = "none"]
       IN  CASE s \notin Entered ->
                  remote' = others /\ UNCHANGED <<refresh, recent, active, holding, slotQueue>>
             [] s \in Entered /\ refresh[s].at = "none" ->
                  /\ recent' = recent \cup {s}
                  /\ refresh' = Scheduled({s})
                  /\ holding' = holding \cup {s}
                  /\ remote' = others
                  /\ UNCHANGED <<active, slotQueue>>
             [] s \in Entered /\ refresh[s].at # "none" ->
                  /\ recent' = recent \cup {s}
                  /\ refresh' = Scheduled({s})
                  /\ ReleaseSlot(others)
                  /\ UNCHANGED holding
    /\ UNCHANGED <<writeVars, subVars, entry, batchVars, patches, got, asked, timers, client, failures>>

(* refreshRemoteEntry() has a slot: it runs the refresh in it, or gives it back if one runs
   already, which it makes run again, or if the entry is gone. *)
Granted(s) ==
    /\ remote[s] = "granted"
    /\ LET others == [remote EXCEPT ![s] = "none"]
       IN  IF s \in Entered /\ refresh[s].at = "none"
           THEN remote' = others /\ holding' = holding \cup {s} /\ UNCHANGED <<active, slotQueue>>
           ELSE ReleaseSlot(others) /\ UNCHANGED holding
    /\ recent' = IF s \in Entered THEN recent \cup {s} ELSE recent \ {s}
    /\ refresh' = Scheduled({s} \cap Entered)
    /\ UNCHANGED <<writeVars, subVars, entry, batchVars, patches, got, asked, timers, client, failures>>

-----------------------------------------------------------------------------
Publishing == \E w \in Writes : Publish(w)
Subscribing(s) ==
    Enter(s) \/ InitialRead(s) \/ InitialMark(s) \/ InitialRegister(s) \/ Activate(s)
Refreshing(s) == RefreshInitially(s) \/ RefreshRead(s) \/ RefreshMark(s) \/ RefreshDone(s)
Patching == \E p \in patches : Patched(p) \/ Unpatched(p)
Remotely(s) ==
    RequestRemoteRefresh(s) \/ Resume(s) \/ TimerFires(s) \/ Granted(s)

Next ==
    \/ \E w \in Local : Begin(w)
    \/ \E w \in Writes : Commit(w)
    \/ Publishing
    \/ \E s \in Subs : \/ Subscribe(s) \/ Subscribing(s) \/ SubscribeFails(s) \/ Unsubscribe(s)
                       \/ Refreshing(s) \/ RefreshFails(s)
                       \/ Remotely(s) \/ IntervalPasses(s)
    \/ Flush
    \/ \E p \in patches : PatchRead(p)
    \/ Patching

Spec == Init /\ [][Next]_vars

(* The event loop runs what is scheduled, queries answer, timers fire and what was
   committed is published; nobody has to write, subscribe or leave. *)
FairSpec ==
    /\ Spec
    /\ WF_vars(Publishing) /\ WF_vars(Flush) /\ WF_vars(Patching)
    /\ \A s \in Subs : WF_vars(Subscribing(s)) /\ WF_vars(Refreshing(s)) /\ WF_vars(Remotely(s))

-----------------------------------------------------------------------------
(* Properties *)

(* What the subscriber was given is not what the database has, and the last query did
   not fail. *)
Behind(s) == sub[s] = "active" /\ ~ entry[s].failed /\ client[s] # log

(* Something is under way that will bring the result up to date. *)
InCharge(s) ==
    \/ \E w \in Writes : write[w] = "committed"
    \/ batch # <<>> \/ remoteBatch
    \/ s \in requested \cup asked \cup timers
    \/ remote[s] # "none"
    \/ \E p \in patches : p.sub = s
    \/ refresh[s].at = "query" \/ refresh[s].pending
    \/ refresh[s].at = "mark" /\ got[s] = log

(* A result that lacks a write, or has the writes in another order than the database, is
   never left so: whatever write, read and patch crossed, a patch or a refresh that
   repairs it is under way.  A result whose last query failed waits for the next write. *)
Current == \A s \in Subs : Behind(s) => InCharge(s)

(* No write is ever applied twice to a result, whether it was read, patched or both. *)
AppliedOnce == \A s \in Subscribed : client[s] # None => IsInjective(client[s])

(* Every slot of the refreshes for other processes is held or granted, never lost, and
   nobody waits while one is free. *)
SlotsCounted ==
    /\ active = Cardinality(holding) + Cardinality({s \in Subs : remote[s] = "granted"})
    /\ slotQueue # <<>> => active = Slots
    /\ ToSet(slotQueue) = {s \in Subs : remote[s] = "slot"}

(* A subscription that stays is brought up to date with every committed write, unless its
   query fails. *)
Refreshed == \A s \in Subs : Behind(s) ~> ~ Behind(s)

(* The page about realtime: a subscription is kept updated after writes.  It takes a
   listener that hears of them. *)
Attached == Subscribed # {} => attached
=============================================================================
