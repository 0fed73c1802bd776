-------------------------- MODULE RealtimeQueryProofs --------------------------
(* Proofs about RealtimeQuery, for any number of subscriptions, writes and slots. *)
EXTENDS RealtimeQuery, FiniteSetTheorems, SequenceTheorems, TLAPS

-------------------------------------------------------------------------------
(* What makes SlotsCounted, AppliedOnce and Current inductive *)

(* Nobody waits for a slot twice, and a refresh that holds one runs. *)
SlotInv ==
    /\ SlotsCounted
    /\ \A i, j \in DOMAIN slotQueue : slotQueue[i] = slotQueue[j] => i = j
    /\ \A s \in holding : refresh[s].at # "none"

Asked(s) == s \in requested \cup asked \cup timers \/ remote[s] # "none" \/ refresh[s].pending

(* What a subscription has depends on how far it is; nothing is asked for or patched before
   it is indexed, and its subscriber has what the entry has. *)
PlaceInv ==
    /\ indexed = {s \in Subs : sub[s] \in {"entered", "active"}}
    /\ \A s \in Subs :
         /\ sub[s] \notin {"entered", "active", "gone"} => ~ Asked(s) /\ refresh[s].at = "none"
         /\ sub[s] \in {"mark", "register"} \/ refresh[s].at = "mark" => got[s] # None
         /\ s \in indexed => entry[s].data # None
         /\ s \in Subscribed => client[s] = entry[s].data
    /\ \A p \in patches : p.sub \in indexed

(* A write is in the log when it has committed; what began is behind the publications, and
   what waits for the batch timer was published, each write once. *)
WriteInv ==
    /\ \A w \in Writes : w \in ToSet(log) <=> write[w] \in {"committed", "published"}
    /\ \A w \in Local : startedAt[w] # None =>
         write[w] \in {"begun", "committed"} /\ startedAt[w] <= publications.sequence
    /\ \A i \in DOMAIN batch :
         /\ write[batch[i].write] = "published"
         /\ batch[i].startedAt # None => batch[i].startedAt <= publications.sequence
         /\ \A j \in DOMAIN batch : batch[i].write = batch[j].write => i = j

Injective(result) == \A i, j \in DOMAIN result : result[i] = result[j] => i = j

(* The result has each write once, and none that began after its boundary. *)
Within(result, boundary) ==
    /\ Injective(result) /\ ToSet(result) \subseteq ToSet(log)
    /\ \A w \in Local : startedAt[w] # None /\ startedAt[w] >= boundary => w \notin ToSet(result)
    /\ \A i \in DOMAIN batch :
         batch[i].startedAt # None /\ batch[i].startedAt >= boundary => batch[i].write \notin ToSet(result)

(* What a query returned, an entry has or a patch will apply is within its boundary. *)
OnceInv ==
    /\ \A s \in Subs :
         /\ got[s] # None => Injective(got[s]) /\ ToSet(got[s]) \subseteq ToSet(log)
         /\ sub[s] = "register" => Within(got[s], entry[s].boundary)
         /\ entry[s].data # None => Within(entry[s].data, entry[s].boundary)
    /\ \A p \in patches :
         /\ p.writes # <<>> /\ Injective(p.writes)
         /\ \A i \in DOMAIN p.writes : write[p.writes[i]] = "published"
         /\ p.read # None => Injective(p.read) /\ ToSet(p.read) \subseteq ToSet(log)
         /\ ToSet(p.writes) \cap {batch[i].write : i \in DOMAIN batch} = {}
         /\ p.intact => ToSet(p.writes) \cap ToSet(entry[p.sub].data) = {}
         /\ \A q \in patches : q.sub = p.sub /\ q.writes = p.writes => q = p

Committed == {w \in Writes : write[w] = "committed"}

(* Who resolves arguments or has an entry is listened for. *)
AttachInv == \A s \in Subs : sub[s] = "args" \/ s \in Entered => attached

(* The query of a new entry has read all but what invalidates it or has yet to be published. *)
FreshInv ==
    \A s \in Subs \ stale :
        /\ sub[s] \in {"mark", "register"} =>
             /\ Len(got[s]) <= Len(log)
             /\ \A i \in DOMAIN log :
                  IF i <= Len(got[s]) THEN log[i] = got[s][i] ELSE write[log[i]] = "committed"
        /\ sub[s] = "register" =>
             \A i \in DOMAIN batch : batch[i].startedAt # None => batch[i].startedAt < entry[s].boundary

(* A refresh that has read less than the log will be followed by another. *)
MarkInv ==
    \A s \in indexed : refresh[s].at = "mark" =>
        got[s] = log \/ Committed # {} \/ batch # <<>> \/ remoteBatch \/ Asked(s)

Fits(s, began) == began # None /\ began >= entry[s].boundary

(* Neither a query nor another patch will follow what is under way for the entry. *)
Calm(s) ==
    /\ s \in indexed /\ ~ entry[s].failed
    /\ ~ Asked(s) /\ refresh[s].at \notin {"query", "mark"}
    /\ ~ remoteBatch /\ \A i \in DOMAIN batch : Fits(s, batch[i].startedAt)
    /\ \A w \in Committed : w \in Local /\ Ordered(w) /\ Fits(s, startedAt[w])
    /\ \A p, q \in patches : p.sub = s /\ q.sub = s => p.intact /\ p = q

(* The log is the result, what the patch applies, what waits in the batch, and the rest. *)
Line(s, todo) ==
    LET result == entry[s].data
        done == Len(result) + Len(todo)
    IN  /\ done + Len(batch) <= Len(log)
        /\ \A i \in DOMAIN result : log[i] = result[i]
        /\ \A i \in DOMAIN todo : log[Len(result) + i] = todo[i]
        /\ \A i \in DOMAIN batch : log[done + i] = batch[i].write
        /\ \A i \in DOMAIN log : i > done + Len(batch) => write[log[i]] = "committed"

(* What is under way for the entry brings it the rest of the log. *)
Lined(s) ==
    /\ (\A p \in patches : p.sub # s) => Line(s, <<>>)
    /\ \A p \in patches : p.sub = s =>
         IF p.read = None THEN Line(s, p.writes)
         ELSE batch = <<>> /\ Committed = {} => p.read = log

LineInv == \A s \in Subs : Calm(s) => Lined(s)

CurrentInv == AttachInv /\ FreshInv /\ MarkInv /\ LineInv

USE RealtimeAssumption

Inv == RealtimeTypeOK /\ SlotInv /\ PlaceInv /\ WriteInv

-----------------------------------------------------------------------------
(* Publications *)

(* What the updates of the publications keep and change. *)
LEMMA BoundaryIs ==
  ASSUME publications \in Publications
  PROVE  /\ Boundary \in Publications /\ Boundary.sequence = publications.sequence + 1
         /\ Boundary.records = publications.records /\ Boundary.prunedThrough = publications.prunedThrough
BY DEF Boundary, Publications

LEMMA RecordedIs ==
  ASSUME publications \in Publications, Len(publications.records) <= Retention
  PROVE  /\ Recorded \in Publications /\ Recorded.sequence = publications.sequence + 1
         /\ Len(Recorded.records) <= Retention
<1> DEFINE records == Append(publications.records, publications.sequence + 1)
<1>1. publications.sequence \in Nat /\ publications.records \in Seq(Nat) /\ publications.prunedThrough \in Nat
  BY DEF Publications
<1>2. records \in Seq(Nat) /\ Len(records) = Len(publications.records) + 1
  BY <1>1, AppendProperties
<1> HIDE DEF records
<1>3. Tail(records) \in Seq(Nat) /\ Len(Tail(records)) = Len(records) - 1 /\ Head(records) \in Nat
  <2>1. Len(records) \in Nat /\ Len(records) > 0
    BY <1>1, <1>2
  <2>2. records # <<>> /\ Head(records) = records[1] /\ records[1] \in Nat
    BY <1>2, <2>1
  <2> QED
    BY <1>2, <2>2, HeadTailProperties
<1>4. CASE Len(records) <= Retention
  <2>1. Recorded = [Boundary EXCEPT !.records = records]
    BY <1>4 DEF Recorded, records, Boundary
  <2> QED
    BY <1>1, <1>2, <1>4, <2>1, BoundaryIs DEF Publications
<1>5. CASE ~ (Len(records) <= Retention)
  <2>1. Recorded = [sequence |-> publications.sequence + 1, records |-> Tail(records),
                    prunedThrough |-> Head(records)]
    BY <1>5 DEF Recorded, records
  <2> QED
    BY <1>1, <1>2, <1>3, <2>1 DEF Publications
<1> QED
  BY <1>4, <1>5

(* A new epoch, of the first listener. *)
Epoch == [publications EXCEPT !.sequence = publications.sequence + 1,
                              !.prunedThrough = publications.sequence + 1]

LEMMA EpochIs ==
  ASSUME publications \in Publications
  PROVE  /\ Epoch \in Publications /\ Epoch.sequence = publications.sequence + 1
         /\ Epoch.records = publications.records /\ Epoch.prunedThrough = publications.sequence + 1
<1>1. Epoch = [Boundary EXCEPT !.prunedThrough = publications.sequence + 1]
  BY DEF Epoch, Boundary
<1>2. publications.sequence \in Nat
  BY DEF Publications
<1> QED
  BY <1>1, <1>2, BoundaryIs DEF Publications

-----------------------------------------------------------------------------
(* The batch *)

LEMMA BatchIs ==
  ASSUME batch \in Seq(Events)
  PROVE  /\ Len(batch) \in Nat /\ DOMAIN batch = 1 .. Len(batch)
         /\ \A i \in DOMAIN batch : batch[i].write \in Local /\ batch[i].startedAt \in Nat \cup {None}
<1>1. Len(batch) \in Nat /\ DOMAIN batch = 1 .. Len(batch) /\ \A i \in 1 .. Len(batch) : batch[i] \in Events
  BY ElementOfSeq
<1> QED
  BY <1>1 DEF Events

LEMMA BatchWrites ==
  ASSUME batch \in Seq(Events), NEW writes, writes = [i \in DOMAIN batch |-> batch[i].write]
  PROVE  writes \in Results /\ Len(writes) = Len(batch) /\ DOMAIN writes = DOMAIN batch
<1>1. writes \in [1 .. Len(batch) -> Writes]
  BY BatchIs DEF Writes
<1> QED
  BY <1>1, BatchIs DEF Results

LEMMA NotifyIs ==
  ASSUME batch \in Seq(Events), NEW w \in Writes, NEW began \in Nat \cup {None}, Notify(w, began)
  PROVE  /\ batch' \in Seq(Events)
         /\ w \notin Local \/ Entered = {} => batch' = batch
         /\ w \in Local /\ Entered # {} =>
              /\ Len(batch') = Len(batch) + 1 /\ \A i \in DOMAIN batch : batch'[i] = batch[i]
              /\ batch'[Len(batch) + 1].write = w /\ batch'[Len(batch) + 1].startedAt = began
<1> DEFINE event == [write |-> w, startedAt |-> began]
<1>1. w \in Local => event \in Events
  BY DEF Events
<1>2. event.write = w /\ event.startedAt = began
  OBVIOUS
<1>3. batch' = IF w \in Local /\ Entered # {} THEN Append(batch, event) ELSE batch
  BY DEF Notify
<1> HIDE DEF event
<1>4. CASE w \in Local /\ Entered # {}
  <2>1. batch' = Append(batch, event) /\ event \in Events
    BY <1>1, <1>3, <1>4
  <2>2. batch' \in Seq(Events) /\ Len(batch') = Len(batch) + 1 /\ batch'[Len(batch) + 1] = event
        /\ \A i \in 1 .. Len(batch) : batch'[i] = batch[i]
    BY <2>1, AppendProperties
  <2> QED
    BY <1>2, <1>4, <2>2, BatchIs
<1>5. CASE ~ (w \in Local /\ Entered # {})
  BY <1>3, <1>5
<1> QED
  BY <1>4, <1>5

-----------------------------------------------------------------------------
(* Patches *)

LEMMA IntactIs ==
  ASSUME NEW p \in Patches, NEW intact \in BOOLEAN, NEW q, q = [p EXCEPT !.intact = intact]
  PROVE  q \in Patches /\ q.sub = p.sub /\ q.writes = p.writes /\ q.read = p.read /\ q.intact = intact
BY DEF Patches

LEMMA OvertakenIs ==
  ASSUME patches \subseteq Patches, NEW s
  PROVE  /\ Overtaken(s) \subseteq Patches
         /\ \A q \in Overtaken(s) : \E p \in patches :
              /\ q.sub = p.sub /\ q.writes = p.writes /\ q.read = p.read
              /\ q.intact => p.intact /\ p.sub # s
              /\ p.sub # s => q = p
         /\ \A p \in patches : \E q \in Overtaken(s) :
              /\ q.sub = p.sub /\ q.writes = p.writes /\ q.read = p.read
              /\ p.sub # s => q = p
<1> DEFINE mark(p) == [p EXCEPT !.intact = p.intact /\ p.sub # s]
<1>1. ASSUME NEW p \in patches
      PROVE  /\ mark(p) \in Patches /\ mark(p).sub = p.sub /\ mark(p).writes = p.writes
             /\ mark(p).read = p.read /\ (mark(p).intact => p.intact /\ p.sub # s)
             /\ (p.sub # s => mark(p) = p)
  <2> DEFINE kept == p.intact /\ p.sub # s
  <2>1. kept \in BOOLEAN
    OBVIOUS
  <2>2. mark(p) = [p EXCEPT !.intact = kept]
    OBVIOUS
  <2>3. kept => p.intact /\ p.sub # s
    OBVIOUS
  <2>4. p.sub # s => kept = p.intact
    BY DEF Patches
  <2> HIDE DEF mark, kept
  <2>5. /\ mark(p) \in Patches /\ mark(p).sub = p.sub /\ mark(p).writes = p.writes
        /\ mark(p).read = p.read /\ mark(p).intact = kept
    BY <2>1, <2>2, IntactIs
  <2>6. p.sub # s => mark(p) = p
    BY <2>2, <2>4 DEF Patches
  <2> QED
    BY <2>3, <2>5, <2>6
<1>2. Overtaken(s) = {mark(p) : p \in patches}
  BY DEF Overtaken
<1> HIDE DEF mark
<1> QED
  BY <1>1, <1>2

LEMMA WriteTypesStep ==
  ASSUME Inv, Next PROVE WriteTypes'
<1> USE DEF Inv, RealtimeTypeOK, WriteTypes, Results
<1>1. ASSUME NEW w \in Local, Begin(w) PROVE WriteTypes'
  BY <1>1 DEF Begin, Writes, Publications
<1>2. ASSUME NEW w \in Writes, Commit(w) PROVE WriteTypes'
  <2>1. w \notin ToSet(log)
    BY <1>2 DEF Commit, WriteInv
  <2>2. log' \in Seq(Writes) /\ Len(log') = Len(log) + 1 /\ log'[Len(log) + 1] = w
        /\ \A i \in 1 .. Len(log) : log'[i] = log[i]
    BY <1>2, AppendProperties DEF Commit
  <2>3. \A i \in DOMAIN log : log[i] # w
    BY <2>1 DEF ToSet
  <2>4. IsInjective(log')
    <3>1. IsInjective(log) /\ DOMAIN log = 1 .. Len(log) /\ DOMAIN log' = 1 .. Len(log) + 1
      BY <2>2
    <3> QED
      BY <3>1, <2>2, <2>3 DEF IsInjective
  <2> QED
    BY <1>2, <2>2, <2>4 DEF Commit
<1>3. ASSUME NEW w \in Writes, Publish(w) PROVE WriteTypes'
  BY <1>3, RecordedIs DEF Publish
<1>4. ASSUME NEW s \in Subs, Subscribe(s) PROVE WriteTypes'
  BY <1>4, EpochIs DEF Subscribe, Epoch
<1>5. ASSUME NEW s \in Subs, InitialMark(s) PROVE WriteTypes'
  BY <1>5, BoundaryIs DEF InitialMark
<1>6. ASSUME NEW s \in Subs, RefreshMark(s) PROVE WriteTypes'
  BY <1>6, BoundaryIs DEF RefreshMark
<1>7. ASSUME NEW p \in patches, Patched(p) PROVE WriteTypes'
  BY <1>7, BoundaryIs DEF Patched
<1>8. ASSUME UNCHANGED writeVars PROVE WriteTypes'
  BY <1>8 DEF writeVars
<1> QED
  BY <1>1, <1>2, <1>3, <1>4, <1>5, <1>6, <1>7, <1>8, ZenonT(40)
  DEF Next, Publishing, Subscribing, Refreshing, Patching, Remotely, Enter, InitialRead, InitialRegister,
      Activate, SubscribeFails, Unsubscribe, RefreshInitially, RefreshRead, RefreshDone, RefreshFails,
      RequestRemoteRefresh, Resume, TimerFires, Granted, IntervalPasses, Flush, PatchRead, Unpatched

LEMMA SubTypesStep ==
  ASSUME Inv, Next PROVE SubTypes'
<1> USE DEF Inv, RealtimeTypeOK, SubTypes
<1>1. ASSUME NEW s \in Subs, Subscribe(s) \/ Subscribing(s) \/ RefreshInitially(s) PROVE SubTypes'
  BY <1>1
  DEF Subscribe, Subscribing, Enter, InitialRead, InitialMark, InitialRegister, Activate, RefreshInitially
<1>2. ASSUME NEW s \in Subs, SubscribeFails(s) \/ Unsubscribe(s) PROVE SubTypes'
  BY <1>2 DEF SubscribeFails, Unsubscribe, Detached
<1>3. ASSUME NEW w \in Writes, Publish(w) PROVE SubTypes'
  BY <1>3 DEF Publish, Notify
<1>4. ASSUME UNCHANGED subVars PROVE SubTypes'
  BY <1>4 DEF subVars
<1> QED
  BY <1>1, <1>2, <1>3, <1>4
  DEF Next, Publishing, Refreshing, Patching, Remotely, Begin, Commit, RefreshRead, RefreshMark,
      RefreshDone, RefreshFails, RequestRemoteRefresh, Resume, TimerFires, Granted, IntervalPasses, Flush,
      PatchRead, Patched, Unpatched

(* What a patch has done to the result, which is there. *)
LEMMA EntryTypesStep ==
  ASSUME Inv, Next PROVE EntryTypes'
<1> USE DEF Inv, RealtimeTypeOK, EntryTypes
<1>0. /\ log \in Maybe
      /\ \A n \in Subs : sub[n] \in {"mark", "register"} \/ refresh[n].at = "mark" => got[n] \in Results
  BY DEF PlaceInv, WriteTypes, Maybe
<1>1. ASSUME NEW w \in Writes, Publish(w) PROVE EntryTypes'
  <2>1. w \in Local /\ Ordered(w) => startedAt[w] \in Nat
    BY DEF Ordered, WriteTypes
  <2> DEFINE began == IF w \in Local /\ Ordered(w) THEN startedAt[w] ELSE None
  <2>2. began \in Nat \cup {None}
    BY <2>1
  <2>3. CASE attached
    <3>1. Notify(w, began)
      BY <1>1, <2>3 DEF Publish
    <3>2. batch' \in Seq(Events) /\ remoteBatch' \in BOOLEAN
      BY <2>2, <3>1, NotifyIs DEF Notify
    <3> QED
      BY <1>1, <3>2 DEF Publish
  <2>4. CASE ~ attached
    BY <1>1, <2>4 DEF Publish, batchVars
  <2> QED
    BY <2>3, <2>4 DEF SubTypes
<1>2. ASSUME NEW s \in Subs, InitialRead(s) \/ RefreshRead(s) PROVE EntryTypes'
  BY <1>0, <1>2 DEF InitialRead, RefreshRead, batchVars
<1>3. ASSUME NEW s \in Subs, InitialMark(s) PROVE EntryTypes'
  <2>1. publications'.sequence \in Nat
    BY <1>3, BoundaryIs DEF InitialMark, WriteTypes, Publications
  <2> QED
    BY <1>3, <2>1 DEF InitialMark, batchVars
<1>4. ASSUME NEW s \in Subs, InitialRegister(s) PROVE EntryTypes'
  BY <1>4 DEF InitialRegister, batchVars
<1>5. ASSUME NEW s \in Subs, Activate(s) PROVE EntryTypes'
  BY <1>5 DEF Activate, batchVars
<1>6. ASSUME NEW s \in Subs, Unsubscribe(s) PROVE EntryTypes'
  BY <1>6 DEF Unsubscribe, batchVars, NoEntry, Maybe
<1>7. ASSUME NEW s \in Subs, RefreshFails(s) PROVE EntryTypes'
  BY <1>7 DEF RefreshFails, batchVars
<1>8. ASSUME NEW s \in Subs, RefreshMark(s) PROVE EntryTypes'
  <2>1. publications'.sequence \in Nat
    BY <1>8, BoundaryIs DEF RefreshMark, WriteTypes, Publications
  <2>2. patches' \subseteq Patches
    BY <1>8, OvertakenIs DEF RefreshMark
  <2> QED
    BY <1>8, <2>1, <2>2 DEF RefreshMark, batchVars, Maybe
<1>9. CASE Flush
  <2> DEFINE writes == [i \in DOMAIN batch |-> batch[i].write]
  <2>1. writes \in Results
    BY BatchWrites
  <2>2. PICK tried \in SUBSET indexed : patches' = patches \cup
          {[sub |-> s, writes |-> writes, intact |-> TRUE, read |-> None] : s \in tried}
    BY <1>9 DEF Flush
  <2> HIDE DEF writes
  <2>3. \A s \in tried : [sub |-> s, writes |-> writes, intact |-> TRUE, read |-> None] \in Patches
    BY <2>1 DEF Patches, Maybe, SubTypes
  <2>4. patches' \subseteq Patches
    BY <2>2, <2>3
  <2>5. /\ batch' \in Seq(Events) /\ remoteBatch' \in BOOLEAN
        /\ UNCHANGED <<entry, got, client>>
    BY <1>9, EmptySeq DEF Flush
  <2> QED
    BY <2>4, <2>5
<1>10. ASSUME NEW p \in patches, PatchRead(p) PROVE EntryTypes'
  BY <1>0, <1>10 DEF PatchRead, batchVars, Patches
<1>11. ASSUME NEW p \in patches, Unpatched(p) PROVE EntryTypes'
  BY <1>11 DEF Unpatched, batchVars
<1>12. ASSUME NEW p \in patches, Patched(p) PROVE EntryTypes'
  <2>1. p.sub \in Subs /\ p.writes \in Results /\ p.read \in Maybe
    BY DEF Patches
  <2>2. publications'.sequence \in Nat
    BY <1>12, BoundaryIs DEF Patched, WriteTypes, Publications
  <2>3. entry[p.sub].data \in Results
    BY DEF PlaceInv, Maybe
  <2>4. p.sub \in Subscribed => client[p.sub] \in Results
    BY <2>3 DEF PlaceInv
  <2>5. patches' \subseteq Patches
    BY <1>12, OvertakenIs DEF Patched
  <2> DEFINE apply(result) == IF p.read = None THEN result \o p.writes ELSE p.read
             bound == IF p.read = None THEN entry[p.sub].boundary ELSE publications'.sequence
  <2>6. \A result \in Results : apply(result) \in Maybe
    BY <2>1, ConcatProperties DEF Maybe, Results
  <2>7. apply(entry[p.sub].data) \in Maybe /\ (p.sub \in Subscribed => apply(client[p.sub]) \in Maybe)
    BY <2>3, <2>4, <2>6
  <2>8. /\ entry' = [entry EXCEPT ![p.sub].data = apply(entry[p.sub].data), ![p.sub].boundary = bound]
        /\ client' = IF p.sub \in Subscribed THEN [client EXCEPT ![p.sub] = apply(client[p.sub])] ELSE client
        /\ UNCHANGED <<batchVars, got>>
    BY <1>12 DEF Patched
  <2>9. bound \in Nat
    BY <2>1, <2>2
  <2> HIDE DEF apply, bound
  <2>10. entry' \in [Subs -> [data : Maybe, boundary : Nat, failed : BOOLEAN]]
    BY <2>1, <2>7, <2>8, <2>9
  <2> QED
    BY <2>1, <2>5, <2>7, <2>8, <2>10 DEF batchVars
<1>13. ASSUME UNCHANGED <<entry, batchVars, patches, got, client>> PROVE EntryTypes'
  BY <1>13 DEF batchVars
<1> QED
  BY <1>1, <1>2, <1>3, <1>4, <1>5, <1>6, <1>7, <1>8, <1>9, <1>10, <1>11, <1>12, <1>13
  DEF Next, Publishing, Subscribing, Refreshing, Patching, Remotely, Begin, Commit, Subscribe, Enter,
      SubscribeFails, RefreshInitially, RefreshDone, RequestRemoteRefresh, Resume, TimerFires, Granted,
      IntervalPasses

-----------------------------------------------------------------------------
(* Slots *)

(* "queue" lists the members of "members", each of them once. *)
Queued(queue, members) ==
    /\ queue \in Seq(Subs) /\ ToSet(queue) = members
    /\ \A i, j \in DOMAIN queue : queue[i] = queue[j] => i = j

LEMMA QueuedAppend ==
  ASSUME NEW queue, NEW members, Queued(queue, members), NEW s \in Subs, s \notin members
  PROVE  Queued(Append(queue, s), members \cup {s})
<1> DEFINE longer == Append(queue, s)
<1>1. queue \in Seq(Subs) /\ Len(queue) \in Nat /\ DOMAIN queue = 1 .. Len(queue)
  BY DEF Queued
<1>2. /\ longer \in Seq(Subs) /\ Len(longer) = Len(queue) + 1 /\ DOMAIN longer = 1 .. Len(queue) + 1
      /\ \A i \in 1 .. Len(queue) : longer[i] = queue[i]
      /\ longer[Len(queue) + 1] = s
  BY <1>1, AppendProperties
<1> HIDE DEF longer
<1>3. \A i \in 1 .. Len(queue) : queue[i] # s
  BY <1>1 DEF Queued, ToSet
<1>4. ToSet(longer) = members \cup {s}
  <2>1. /\ members = {queue[i] : i \in 1 .. Len(queue)}
        /\ ToSet(longer) = {longer[i] : i \in 1 .. Len(queue) + 1}
    BY <1>1, <1>2 DEF Queued, ToSet
  <2> QED
    BY <1>1, <1>2, <2>1
<1>5. \A i, j \in DOMAIN longer : longer[i] = longer[j] => i = j
  BY <1>1, <1>2, <1>3 DEF Queued
<1> QED
  BY <1>2, <1>4, <1>5 DEF Queued, longer

LEMMA QueuedTail ==
  ASSUME NEW queue, NEW members, Queued(queue, members), queue # <<>>
  PROVE  Head(queue) \in members /\ Queued(Tail(queue), members \ {Head(queue)})
<1> DEFINE rest == Tail(queue)
<1>1. /\ queue \in Seq(Subs) /\ Len(queue) \in Nat /\ Len(queue) > 0 /\ DOMAIN queue = 1 .. Len(queue)
      /\ Head(queue) = queue[1]
  BY DEF Queued
<1>2. /\ rest \in Seq(Subs) /\ Len(rest) = Len(queue) - 1 /\ DOMAIN rest = 1 .. Len(queue) - 1
      /\ \A i \in 1 .. Len(queue) - 1 : rest[i] = queue[i + 1]
  BY <1>1, HeadTailProperties
<1> HIDE DEF rest
<1>3. \A i, j \in 1 .. Len(queue) : queue[i] = queue[j] => i = j
  BY <1>1 DEF Queued
<1>4. members = {queue[i] : i \in 1 .. Len(queue)} /\ ToSet(rest) = {rest[i] : i \in 1 .. Len(queue) - 1}
  BY <1>1, <1>2 DEF Queued, ToSet
<1>5. ToSet(rest) = members \ {queue[1]}
  <2>1. ASSUME NEW x \in ToSet(rest) PROVE x \in members /\ x # queue[1]
    <3>1. PICK i \in 1 .. Len(queue) - 1 : x = rest[i]
      BY <1>4
    <3>2. x = queue[i + 1] /\ i + 1 \in 1 .. Len(queue) /\ i + 1 # 1 /\ 1 \in 1 .. Len(queue)
      BY <1>1, <1>2, <3>1
    <3> QED
      BY <1>3, <1>4, <3>2
  <2>2. ASSUME NEW x \in members, x # queue[1] PROVE x \in ToSet(rest)
    <3>1. PICK i \in 1 .. Len(queue) : x = queue[i]
      BY <1>4
    <3>2. i - 1 \in 1 .. Len(queue) - 1 /\ rest[i - 1] = queue[i]
      BY <1>1, <1>2, <2>2, <3>1
    <3> QED
      BY <1>4, <3>1, <3>2
  <2> QED
    BY <2>1, <2>2
<1>6. \A i, j \in DOMAIN rest : rest[i] = rest[j] => i = j
  BY <1>1, <1>2, <1>3
<1> QED
  BY <1>1, <1>2, <1>4, <1>5, <1>6 DEF Queued, rest

GrantedIn(places) == {s \in Subs : places[s] = "granted"}
SlotsIn(places) == {s \in Subs : places[s] = "slot"}
Places == [Subs -> {"none", "waiting", "slot", "granted"}]

(* SlotsCounted, of the slots taken, who holds one, what is asked for, and who waits. *)
Counted(taken, holders, places, queue) ==
    /\ holders \subseteq Subs /\ places \in Places /\ taken \in 0 .. Slots
    /\ taken = Cardinality(holders) + Cardinality(GrantedIn(places))
    /\ queue # <<>> => taken = Slots
    /\ Queued(queue, SlotsIn(places))

LEMMA FiniteSubs ==
  ASSUME NEW S, S \subseteq Subs
  PROVE  IsFiniteSet(S) /\ Cardinality(S) \in Nat
BY FS_Subset, FS_CardinalityType

LEMMA CountAdd ==
  ASSUME NEW S, S \subseteq Subs, NEW s \in Subs, s \notin S
  PROVE  Cardinality(S \cup {s}) = Cardinality(S) + 1
BY FiniteSubs, FS_AddElement

LEMMA CountRemove ==
  ASSUME NEW S, S \subseteq Subs, NEW s \in S
  PROVE  Cardinality(S \ {s}) = Cardinality(S) - 1
BY FiniteSubs, FS_RemoveElement

(* What is asked for moves between states that need no slot. *)
LEMMA CountedSame ==
  ASSUME NEW taken, NEW holders, NEW places, NEW queue, Counted(taken, holders, places, queue),
         NEW others \in Places, GrantedIn(others) = GrantedIn(places), SlotsIn(others) = SlotsIn(places)
  PROVE  Counted(taken, holders, others, queue)
BY DEF Counted

(* A remote refresh takes a free slot, or waits for one. *)
LEMMA RefreshRemoteCounted ==
  ASSUME Counted(active, holding, remote, slotQueue), NEW s \in Subs, remote[s] = "none",
         RefreshRemote(s, remote)
  PROVE  Counted(active', holding, remote', slotQueue')
<1> USE DEF Places
<1>1. remote \in Places /\ active \in 0 .. Slots /\ Slots \in Nat
  BY DEF Counted
<1>2. CASE remote' = [remote EXCEPT ![s] = "waiting"] /\ UNCHANGED <<active, slotQueue>>
  <2>1. remote' \in Places /\ GrantedIn(remote') = GrantedIn(remote) /\ SlotsIn(remote') = SlotsIn(remote)
    BY <1>1, <1>2 DEF GrantedIn, SlotsIn
  <2> QED
    BY <1>2, <2>1, CountedSame
<1>3. CASE /\ remote' = [remote EXCEPT ![s] = "granted"] /\ active < Slots /\ active' = active + 1
           /\ UNCHANGED slotQueue
  <2>1. /\ remote' \in Places /\ GrantedIn(remote') = GrantedIn(remote) \cup {s}
        /\ SlotsIn(remote') = SlotsIn(remote) /\ s \notin GrantedIn(remote)
    BY <1>1, <1>3 DEF GrantedIn, SlotsIn
  <2>2. Cardinality(GrantedIn(remote')) = Cardinality(GrantedIn(remote)) + 1
    BY <2>1, CountAdd DEF GrantedIn
  <2>3. Cardinality(GrantedIn(remote)) \in Nat /\ Cardinality(holding) \in Nat
    BY FiniteSubs DEF GrantedIn, Counted
  <2> QED
    BY <1>1, <1>3, <2>1, <2>2, <2>3 DEF Counted
<1>4. CASE /\ remote' = [remote EXCEPT ![s] = "slot"] /\ ~ (active < Slots)
           /\ slotQueue' = Append(slotQueue, s) /\ UNCHANGED active
  <2>1. /\ remote' \in Places /\ SlotsIn(remote') = SlotsIn(remote) \cup {s}
        /\ GrantedIn(remote') = GrantedIn(remote) /\ s \notin SlotsIn(remote)
    BY <1>1, <1>4 DEF GrantedIn, SlotsIn
  <2>2. Queued(slotQueue', SlotsIn(remote'))
    <3>1. Queued(slotQueue, SlotsIn(remote))
      BY DEF Counted
    <3>2. Queued(Append(slotQueue, s), SlotsIn(remote) \cup {s})
      BY <2>1, <3>1, QueuedAppend
    <3> QED
      BY <1>4, <2>1, <3>2
  <2> QED
    BY <1>1, <1>4, <2>1, <2>2 DEF Counted
<1> QED
  BY <1>2, <1>3, <1>4 DEF RefreshRemote

(* A slot that one holder less needs goes to the first refresh that waits, if any does. *)
LEMMA ReleaseSlotCounted ==
  ASSUME Counted(active, holding, remote, slotQueue), NEW others \in Places, NEW holders, holders \subseteq Subs,
         SlotsIn(others) = SlotsIn(remote),
         Cardinality(holders) + Cardinality(GrantedIn(others)) = active - 1,
         ReleaseSlot(others)
  PROVE  Counted(active', holders, remote', slotQueue')
<1> USE DEF Places
<1>1. active \in 0 .. Slots /\ Slots \in Nat /\ slotQueue \in Seq(Subs)
  BY DEF Counted, Queued
<1>2. Cardinality(GrantedIn(others)) \in Nat /\ Cardinality(holders) \in Nat
  BY FiniteSubs DEF GrantedIn
<1>3. CASE slotQueue = <<>>
  <2>1. active' = active - 1 /\ remote' = others /\ slotQueue' = slotQueue
    BY <1>3 DEF ReleaseSlot
  <2>2. active' \in 0 .. Slots
    BY <1>1, <1>2, <2>1
  <2> QED
    BY <1>3, <2>1, <2>2 DEF Counted
<1>4. CASE slotQueue # <<>>
  <2> DEFINE head == Head(slotQueue)
  <2>1. head \in SlotsIn(remote) /\ Queued(Tail(slotQueue), SlotsIn(remote) \ {head})
    BY <1>4, QueuedTail DEF Counted
  <2>2. /\ remote' = [others EXCEPT ![head] = "granted"] /\ slotQueue' = Tail(slotQueue)
        /\ active' = active /\ active = Slots
    BY <1>4 DEF ReleaseSlot, Counted
  <2> HIDE DEF head
  <2>3. /\ remote' \in Places /\ SlotsIn(remote') = SlotsIn(remote) \ {head}
        /\ GrantedIn(remote') = GrantedIn(others) \cup {head} /\ head \notin GrantedIn(others)
        /\ head \in Subs
    BY <2>1, <2>2 DEF GrantedIn, SlotsIn
  <2>4. Cardinality(GrantedIn(remote')) = Cardinality(GrantedIn(others)) + 1
    BY <2>3, CountAdd DEF GrantedIn
  <2>5. active' = Cardinality(holders) + Cardinality(GrantedIn(remote'))
    <3>1. active' = active /\ active = Cardinality(holders) + Cardinality(GrantedIn(others)) + 1
      BY <1>1, <2>2
    <3> QED
      BY <1>2, <2>4, <3>1
  <2>6. Queued(slotQueue', SlotsIn(remote'))
    BY <2>1, <2>2, <2>3
  <2> QED
    BY <1>1, <2>2, <2>3, <2>5, <2>6 DEF Counted
<1> QED
  BY <1>3, <1>4

-----------------------------------------------------------------------------
(* Refreshes *)

Refreshes == [Subs -> [at : {"none", "query", "mark", "deliver"}, pending : BOOLEAN]]

LEMMA ScheduledIs ==
  ASSUME refresh \in Refreshes, NEW entries
  PROVE  /\ Scheduled(entries) \in Refreshes
         /\ \A s \in Subs :
              /\ s \notin entries => Scheduled(entries)[s] = refresh[s]
              /\ s \in entries /\ refresh[s].at = "none" =>
                   Scheduled(entries)[s].at = "query" /\ ~ Scheduled(entries)[s].pending
              /\ s \in entries /\ refresh[s].at # "none" =>
                   Scheduled(entries)[s].at = refresh[s].at /\ Scheduled(entries)[s].pending
              /\ refresh[s].at # "none" => Scheduled(entries)[s].at = refresh[s].at
              /\ refresh[s].pending => Scheduled(entries)[s].pending \/ Scheduled(entries)[s].at = "query"
<1>1. ASSUME NEW s \in Subs
      PROVE  /\ Scheduled(entries)[s] \in [at : {"none", "query", "mark", "deliver"}, pending : BOOLEAN]
             /\ s \notin entries => Scheduled(entries)[s] = refresh[s]
             /\ s \in entries /\ refresh[s].at = "none" =>
                  Scheduled(entries)[s].at = "query" /\ ~ Scheduled(entries)[s].pending
             /\ s \in entries /\ refresh[s].at # "none" =>
                  Scheduled(entries)[s].at = refresh[s].at /\ Scheduled(entries)[s].pending
  <2>1. refresh[s] \in [at : {"none", "query", "mark", "deliver"}, pending : BOOLEAN]
    BY DEF Refreshes
  <2>2. CASE s \notin entries
    BY <2>1, <2>2 DEF Scheduled
  <2>3. CASE s \in entries /\ refresh[s].at = "none"
    <3>1. Scheduled(entries)[s] = [at |-> "query", pending |-> FALSE]
      BY <2>3 DEF Scheduled
    <3> QED
      BY <2>3, <3>1
  <2>4. CASE s \in entries /\ refresh[s].at # "none"
    <3>1. Scheduled(entries)[s] = [refresh[s] EXCEPT !.pending = TRUE]
      BY <2>4 DEF Scheduled
    <3> QED
      BY <2>1, <2>4, <3>1
  <2> QED
    BY <2>2, <2>3, <2>4
<1>2. Scheduled(entries) = [s \in Subs |-> Scheduled(entries)[s]]
  BY DEF Scheduled
<1> QED
  BY <1>1, <1>2 DEF Refreshes

LEMMA CountedNow ==
  ASSUME Inv PROVE Counted(active, holding, remote, slotQueue) /\ refresh \in Refreshes /\ remote \in Places
BY DEF Inv, RealtimeTypeOK, RefreshTypes, SlotInv, SlotsCounted, Counted, Queued, GrantedIn, SlotsIn, Places,
       Refreshes

(* Whoever asks for a remote refresh, or drops its slot, counts it. *)
LEMMA SlotStep ==
  ASSUME Inv, Next
  PROVE  /\ Counted(active, holding, remote, slotQueue)'
         /\ \A s \in Subs : s \in holding' => refresh'[s].at # "none"
         /\ refresh' \in Refreshes
<1> DEFINE Holders == \A n \in Subs : n \in holding' => refresh'[n].at # "none"
           Goal == Counted(active', holding', remote', slotQueue') /\ Holders /\ refresh' \in Refreshes
<1>0. /\ Counted(active, holding, remote, slotQueue) /\ refresh \in Refreshes /\ remote \in Places
      /\ \A n \in Subs : n \in holding => refresh[n].at # "none"
      /\ holding \subseteq Subs
  BY CountedNow DEF Inv, SlotInv, Counted
<1>1. ASSUME UNCHANGED <<active, holding, remote, slotQueue>>,
             UNCHANGED refresh \/ \E e \in SUBSET Subs : refresh' = Scheduled(e)
      PROVE  Goal
  BY <1>0, <1>1, ScheduledIs
<1>2. ASSUME NEW s \in Subs, RequestRemoteRefresh(s) \/ TimerFires(s) PROVE Goal
  <2>1. UNCHANGED <<holding, refresh>>
    BY <1>2 DEF RequestRemoteRefresh, TimerFires
  <2>2. (remote[s] = "none" /\ RefreshRemote(s, remote)) \/ UNCHANGED <<remote, active, slotQueue>>
    BY <1>2 DEF RequestRemoteRefresh, TimerFires
  <2> QED
    BY <1>0, <2>1, <2>2, RefreshRemoteCounted
<1>3. ASSUME NEW s \in Subs, Resume(s) PROVE Goal
  <2>1. remote' \in Places /\ GrantedIn(remote') = GrantedIn(remote) /\ SlotsIn(remote') = SlotsIn(remote)
    BY <1>0, <1>3 DEF Resume, Places, GrantedIn, SlotsIn
  <2> QED
    BY <1>0, <1>3, <2>1, CountedSame DEF Resume
<1>4. ASSUME NEW s \in Subs, RefreshRead(s) \/ RefreshFails(s) \/ RefreshMark(s) PROVE Goal
  BY <1>0, <1>4 DEF RefreshRead, RefreshFails, RefreshMark, remoteVars, Refreshes
<1>5. ASSUME NEW s \in Subs, RefreshDone(s) PROVE Goal
  <2>1. /\ refresh' \in Refreshes
        /\ \A n \in Subs : n # s \/ refresh[n].pending => (refresh'[n].at = "none" => refresh[n].at = "none")
    BY <1>0, <1>5 DEF RefreshDone, Refreshes
  <2>2. CASE s \in holding /\ ~ refresh[s].pending
    <3>1. holding' = holding \ {s} /\ ReleaseSlot(remote)
      BY <1>5, <2>2 DEF RefreshDone
    <3>2. Cardinality(holding') = Cardinality(holding) - 1 /\ Cardinality(holding) \in Nat
          /\ Cardinality(GrantedIn(remote)) \in Nat
      BY <1>0, <2>2, <3>1, CountRemove, FiniteSubs DEF GrantedIn
    <3>3. Cardinality(holding') + Cardinality(GrantedIn(remote)) = active - 1
      BY <1>0, <3>2 DEF Counted
    <3>4. Counted(active', holding', remote', slotQueue')
      BY <1>0, <3>1, <3>3, ReleaseSlotCounted
    <3> QED
      BY <1>0, <2>1, <3>1, <3>4
  <2>3. CASE ~ (s \in holding /\ ~ refresh[s].pending)
    BY <1>0, <1>5, <2>1, <2>3 DEF RefreshDone
  <2> QED
    BY <2>2, <2>3
<1>6. ASSUME NEW s \in Subs, Granted(s) PROVE Goal
  <2> DEFINE others == [remote EXCEPT ![s] = "none"]
  <2>1. /\ others \in Places /\ SlotsIn(others) = SlotsIn(remote) /\ s \in GrantedIn(remote)
        /\ GrantedIn(others) = GrantedIn(remote) \ {s}
    BY <1>0, <1>6 DEF Granted, Places, GrantedIn, SlotsIn
  <2>2. refresh' = Scheduled({s} \cap Entered)
    BY <1>6 DEF Granted
  <2>3. Cardinality(GrantedIn(others)) = Cardinality(GrantedIn(remote)) - 1 /\ Cardinality(GrantedIn(remote)) \in Nat
        /\ Cardinality(holding) \in Nat
    BY <1>0, <2>1, CountRemove, FiniteSubs DEF GrantedIn
  <2>4. CASE s \in Entered /\ refresh[s].at = "none"
    <3>1. remote' = others /\ holding' = holding \cup {s} /\ UNCHANGED <<active, slotQueue>>
      BY <1>6, <2>4 DEF Granted
    <3>2. s \notin holding /\ Cardinality(holding') = Cardinality(holding) + 1
      BY <1>0, <2>4, <3>1, CountAdd
    <3>3. active = Cardinality(holding') + Cardinality(GrantedIn(others))
      BY <1>0, <2>3, <3>2 DEF Counted
    <3>4. Counted(active', holding', remote', slotQueue')
      BY <1>0, <2>1, <3>1, <3>3 DEF Counted
    <3>5. Holders /\ refresh' \in Refreshes
      BY <1>0, <2>2, <2>4, <3>1, ScheduledIs
    <3> QED
      BY <3>4, <3>5
  <2>5. CASE ~ (s \in Entered /\ refresh[s].at = "none")
    <3>1. ReleaseSlot(others) /\ holding' = holding
      BY <1>6, <2>5 DEF Granted
    <3>2. Cardinality(holding) + Cardinality(GrantedIn(others)) = active - 1
      BY <1>0, <2>3 DEF Counted
    <3>3. Counted(active', holding, remote', slotQueue')
      BY <1>0, <2>1, <3>1, <3>2, ReleaseSlotCounted
    <3> QED
      BY <1>0, <2>2, <3>1, <3>3, ScheduledIs
  <2> QED
    BY <2>4, <2>5
<1>7. CASE Flush
  <2>1. \E e \in SUBSET Subs : refresh' = Scheduled(e)
    <3> DEFINE tried == {s \in indexed : batch # <<>> /\ Patchable(s, batch)}
               e == IF batch = <<>> THEN {} ELSE indexed \ tried
    <3>1. refresh' = Scheduled(e)
      BY <1>7 DEF Flush
    <3>2. e \in SUBSET Subs
      BY DEF Inv, RealtimeTypeOK, SubTypes
    <3> QED
      BY <3>1, <3>2
  <2> QED
    BY <1>1, <1>7, <2>1 DEF Flush
<1>8. ASSUME NEW p \in patches, Unpatched(p) PROVE Goal
  <2>1. {p.sub} \in SUBSET Subs
    BY DEF Inv, RealtimeTypeOK, EntryTypes, Patches
  <2> QED
    BY <1>1, <1>8, <2>1 DEF Unpatched, remoteVars
<1>9. ASSUME NEW s \in Subs, RefreshInitially(s) PROVE Goal
  BY <1>1, <1>9 DEF RefreshInitially, remoteVars
<1>10. CASE UNCHANGED <<active, holding, remote, slotQueue, refresh>>
  BY <1>1, <1>10
<1>11. Goal
  BY <1>2, <1>3, <1>4, <1>5, <1>6, <1>7, <1>8, <1>9, <1>10
  DEF Next, Publishing, Subscribing, Refreshing, Patching, Remotely, Begin, Commit, Publish, Subscribe, Enter,
      InitialRead, InitialMark, InitialRegister, Activate, SubscribeFails, Unsubscribe, IntervalPasses,
      PatchRead, Patched, remoteVars
<1> QED
  BY <1>11

LEMMA RefreshTypesStep ==
  ASSUME Inv, Next PROVE RefreshTypes'
<1>1. Counted(active, holding, remote, slotQueue)' /\ refresh' \in Refreshes
  BY SlotStep
<1>2. /\ holding' \subseteq Subs /\ active' \in 0 .. Slots /\ slotQueue' \in Seq(Subs)
      /\ remote' \in [Subs -> {"none", "waiting", "slot", "granted"}]
  BY <1>1 DEF Counted, Queued, Places
<1>3. RefreshTypes /\ SubTypes
  BY DEF Inv, RealtimeTypeOK
<1>4. /\ failures' \in 0 .. MaxFailures
      /\ asked' \subseteq Subs /\ timers' \subseteq Subs /\ recent' \subseteq Subs
  <2> DEFINE Goal == /\ failures' \in 0 .. MaxFailures
                     /\ asked' \subseteq Subs /\ timers' \subseteq Subs /\ recent' \subseteq Subs
  <2>1. /\ failures \in 0 .. MaxFailures /\ MaxFailures \in Nat
        /\ asked \subseteq Subs /\ timers \subseteq Subs /\ recent \subseteq Subs
    BY <1>3 DEF RefreshTypes
  <2>2. ASSUME NEW s \in Subs, SubscribeFails(s) PROVE Goal
    BY <2>1, <2>2 DEF SubscribeFails, remoteVars
  <2>3. ASSUME NEW s \in Subs, RefreshFails(s) PROVE Goal
    BY <2>1, <2>3 DEF RefreshFails, remoteVars
  <2>4. ASSUME NEW s \in Subs, Unsubscribe(s) PROVE Goal
    BY <2>1, <2>4 DEF Unsubscribe
  <2>5. ASSUME NEW s \in Subs, RequestRemoteRefresh(s) PROVE Goal
    BY <2>1, <2>5 DEF RequestRemoteRefresh
  <2>6. ASSUME NEW s \in Subs, Resume(s) PROVE Goal
    BY <2>1, <2>6 DEF Resume
  <2>7. ASSUME NEW s \in Subs, TimerFires(s) PROVE Goal
    BY <2>1, <2>7 DEF TimerFires
  <2>8. ASSUME NEW s \in Subs, Granted(s) PROVE Goal
    BY <2>1, <2>8 DEF Granted
  <2>9. ASSUME NEW s \in Subs, IntervalPasses(s) PROVE Goal
    BY <2>1, <2>9 DEF IntervalPasses
  <2>10. CASE Flush
    BY <1>3, <2>1, <2>10 DEF Flush, SubTypes
  <2>11. CASE UNCHANGED <<failures, asked, timers, recent>>
    BY <2>1, <2>11
  <2>12. ASSUME NEW w \in Writes, Begin(w) \/ Commit(w) \/ Publish(w)
         PROVE  UNCHANGED <<failures, asked, timers, recent>>
    BY <2>12 DEF Begin, Commit, Publish, remoteVars
  <2>13. ASSUME NEW s \in Subs, Subscribe(s) \/ Subscribing(s)
         PROVE  UNCHANGED <<failures, asked, timers, recent>>
    BY <2>13 DEF Subscribing, Subscribe, Enter, InitialRead, InitialMark, InitialRegister, Activate, remoteVars
  <2>14. ASSUME NEW s \in Subs, Refreshing(s) PROVE UNCHANGED <<failures, asked, timers, recent>>
    BY <2>14 DEF Refreshing, RefreshInitially, RefreshRead, RefreshMark, RefreshDone, remoteVars
  <2>15. ASSUME NEW p \in patches, PatchRead(p) \/ Patched(p) \/ Unpatched(p)
         PROVE  UNCHANGED <<failures, asked, timers, recent>>
    BY <2>15 DEF PatchRead, Patched, Unpatched, remoteVars
  <2> QED
    BY <2>2, <2>3, <2>4, <2>5, <2>6, <2>7, <2>8, <2>9, <2>10, <2>11, <2>12, <2>13, <2>14, <2>15
    DEF Next, Publishing, Patching, Remotely, Writes
<1> QED
  BY <1>1, <1>2, <1>4 DEF RefreshTypes, Refreshes

LEMMA SlotInvStep ==
  ASSUME Inv, Next PROVE SlotInv'
<1>1. /\ Counted(active, holding, remote, slotQueue)'
      /\ \A s \in Subs : s \in holding' => refresh'[s].at # "none"
  BY SlotStep
<1> QED
  BY <1>1 DEF Counted, Queued, SlotInv, SlotsCounted, GrantedIn, SlotsIn

-----------------------------------------------------------------------------
(* Places *)

(* What a subscription has once it is indexed. *)
Late(n) == sub[n] \in {"entered", "active", "gone"}

LEMMA SubStep ==
  ASSUME Inv, Next, NEW n \in Subs
  PROVE  /\ Late(n) => Late(n)'
         /\ (n \in indexed)' <=> sub'[n] \in {"entered", "active"}
         /\ sub'[n] \in {"mark", "register"} => sub[n] \in {"mark", "register"} \/ InitialRead(n)
<1> DEFINE Goal == /\ Late(n) => Late(n)'
                   /\ (n \in indexed)' <=> sub'[n] \in {"entered", "active"}
                   /\ sub'[n] \in {"mark", "register"} => sub[n] \in {"mark", "register"} \/ InitialRead(n)
<1>0. /\ sub \in [Subs -> {"new", "args", "query", "mark", "register", "entered", "active", "gone"}]
      /\ indexed = {s \in Subs : sub[s] \in {"entered", "active"}}
  BY DEF Inv, RealtimeTypeOK, SubTypes, PlaceInv
<1> USE <1>0 DEF Late
<1>1. ASSUME NEW s \in Subs, InitialRegister(s) PROVE Goal
  BY <1>1 DEF InitialRegister
<1>2. ASSUME NEW s \in Subs, Activate(s) \/ Unsubscribe(s) PROVE Goal
  BY <1>2 DEF Activate, Unsubscribe
<1>3. ASSUME NEW s \in Subs, Subscribe(s) \/ Enter(s) \/ InitialMark(s) \/ SubscribeFails(s) PROVE Goal
  BY <1>3 DEF Subscribe, Enter, InitialMark, SubscribeFails
<1>4. ASSUME NEW s \in Subs, InitialRead(s) PROVE Goal
  BY <1>4 DEF InitialRead
<1>5. CASE UNCHANGED <<sub, indexed>>
  BY <1>5
<1> QED
  BY <1>1, <1>2, <1>3, <1>4, <1>5, ZenonT(40)
  DEF Next, Publishing, Subscribing, Refreshing, Patching, Remotely, Begin, Commit, Publish, RefreshInitially,
      RefreshRead, RefreshMark, RefreshDone, RefreshFails, RequestRemoteRefresh, Resume, TimerFires, Granted,
      IntervalPasses, Flush, PatchRead, Patched, Unpatched, subVars

(* Of those that wait for a slot, the first one is given it. *)
LEMMA ReleaseSlotIs ==
  ASSUME Inv, NEW others \in Places, ReleaseSlot(others), NEW n \in Subs, remote'[n] # others[n]
  PROVE  remote[n] = "slot"
<1>1. slotQueue # <<>> /\ remote' = [others EXCEPT ![Head(slotQueue)] = "granted"]
  BY DEF ReleaseSlot
<1>2. Head(slotQueue) \in SlotsIn(remote)
  BY <1>1, CountedNow, QueuedTail DEF Counted
<1> QED
  BY <1>1, <1>2 DEF SlotsIn, Places

(* Only who was indexed is asked for, refreshed or patched. *)
LEMMA QuietStep ==
  ASSUME Inv, Next, NEW n \in Subs, ~ Late(n)'
  PROVE  ~ Asked(n)' /\ refresh'[n].at = "none"
<1> DEFINE Quiet == ~ Asked(n)' /\ refresh'[n].at = "none"
<1>0. /\ n \notin requested \cup asked \cup timers /\ remote[n] = "none" /\ ~ refresh[n].pending
      /\ refresh[n].at = "none" /\ ~ Late(n) /\ n \notin indexed
      /\ refresh \in Refreshes /\ remote \in Places
      /\ \A p \in patches : p.sub \in indexed
  BY SubStep, CountedNow DEF Inv, PlaceInv, Late, Asked
<1> USE DEF Asked
<1>1. ASSUME NEW s \in Subs, InitialRegister(s) PROVE Quiet
  <2>1. s # n
    BY <1>1 DEF InitialRegister, Inv, RealtimeTypeOK, SubTypes, Late
  <2> QED
    BY <1>0, <1>1, <2>1 DEF InitialRegister, remoteVars
<1>2. ASSUME NEW s \in Subs, RefreshInitially(s) PROVE Quiet
  <2>1. s # n
    BY <1>0, <1>2 DEF RefreshInitially
  <2> QED
    BY <1>0, <1>2, <2>1, ScheduledIs DEF RefreshInitially, remoteVars
<1>3. ASSUME NEW s \in Subs, RefreshRead(s) \/ RefreshFails(s) \/ RefreshMark(s) PROVE Quiet
  BY <1>0, <1>3 DEF RefreshRead, RefreshFails, RefreshMark, remoteVars, subVars, Refreshes
<1>4. ASSUME NEW s \in Subs, RefreshDone(s) PROVE Quiet
  <2>1. s # n /\ UNCHANGED <<subVars, asked, timers>> /\ refresh'[n] = refresh[n]
    BY <1>0, <1>4 DEF RefreshDone, Refreshes
  <2>2. remote'[n] = remote[n]
    BY <1>0, <1>4, ReleaseSlotIs DEF RefreshDone
  <2> QED
    BY <1>0, <2>1, <2>2 DEF subVars
<1>5. ASSUME NEW s \in Subs, RequestRemoteRefresh(s) \/ TimerFires(s) \/ Resume(s) PROVE Quiet
  <2>1. s # n /\ UNCHANGED <<subVars, refresh>> /\ n \notin asked' /\ n \notin timers'
    BY <1>0, <1>5 DEF RequestRemoteRefresh, TimerFires, Resume
  <2>2. remote'[n] = remote[n]
    BY <1>0, <1>5, <2>1 DEF RequestRemoteRefresh, TimerFires, Resume, RefreshRemote, Places
  <2> QED
    BY <1>0, <2>1, <2>2 DEF subVars
<1>6. ASSUME NEW s \in Subs, Granted(s) PROVE Quiet
  <2> DEFINE others == [remote EXCEPT ![s] = "none"]
  <2>1. s # n /\ UNCHANGED <<subVars, asked, timers>> /\ refresh' = Scheduled({s} \cap Entered)
        /\ (remote' = others \/ ReleaseSlot(others)) /\ others \in Places /\ others[n] = remote[n]
    BY <1>0, <1>6 DEF Granted, Places
  <2>2. remote'[n] = remote[n]
    BY <1>0, <2>1, ReleaseSlotIs
  <2> QED
    BY <1>0, <2>1, <2>2, ScheduledIs DEF subVars
<1>7. CASE Flush
  <2>1. UNCHANGED <<subVars, timers, remote>> /\ asked' \subseteq asked \cup indexed
    BY <1>7 DEF Flush, subVars
  <2>2. PICK e \in SUBSET indexed : refresh' = Scheduled(e)
    <3> DEFINE tried == {s \in indexed : batch # <<>> /\ Patchable(s, batch)}
               e == IF batch = <<>> THEN {} ELSE indexed \ tried
    <3>1. refresh' = Scheduled(e) /\ e \in SUBSET indexed
      BY <1>7 DEF Flush
    <3> QED
      BY <3>1
  <2> QED
    BY <1>0, <2>1, <2>2, ScheduledIs DEF subVars
<1>8. ASSUME NEW p \in patches, Unpatched(p) PROVE Quiet
  BY <1>0, <1>8, ScheduledIs DEF Unpatched, remoteVars, subVars
<1>9. ASSUME NEW s \in Subs, Unsubscribe(s) PROVE Quiet
  BY <1>0, <1>9 DEF Unsubscribe
<1>10. CASE UNCHANGED <<requested, asked, timers, remote, refresh>>
  BY <1>0, <1>10
<1> QED
  BY <1>1, <1>2, <1>3, <1>4, <1>5, <1>6, <1>7, <1>8, <1>9, <1>10
  DEF Next, Publishing, Subscribing, Refreshing, Patching, Remotely, Begin, Commit, Publish, Subscribe, Enter,
      InitialRead, InitialMark, Activate, SubscribeFails, IntervalPasses, PatchRead, Patched, remoteVars,
      subVars

(* A query has answered before its boundary is marked. *)
LEMMA ReadStep ==
  ASSUME Inv, Next, NEW n \in Subs, sub'[n] \in {"mark", "register"} \/ refresh'[n].at = "mark"
  PROVE  got'[n] # None
<1>0. /\ sub[n] \in {"mark", "register"} \/ refresh[n].at = "mark" => got[n] # None
      /\ got \in [Subs -> Maybe] /\ log # None /\ refresh \in Refreshes
  BY CountedNow DEF Inv, PlaceInv, RealtimeTypeOK, EntryTypes, WriteTypes, Results, Writes
<1>1. CASE sub[n] \notin {"mark", "register"} /\ sub'[n] \in {"mark", "register"}
  BY <1>0, <1>1, SubStep DEF InitialRead
<1>2. CASE (sub[n] \in {"mark", "register"} \/ refresh[n].at = "mark") /\ got'[n] = got[n]
  BY <1>0, <1>2
<1>3. ASSUME NEW s \in Subs, InitialRead(s) PROVE got'[n] # None
  BY <1>0, <1>1, <1>2, <1>3 DEF InitialRead
<1>4. ASSUME NEW s \in Subs, RefreshRead(s) PROVE got'[n] # None
  <2>1. refresh'[n] # refresh[n] => n = s
    BY <1>0, <1>4 DEF RefreshRead, Refreshes
  <2>2. CASE n = s /\ s \in Entered
    BY <1>0, <1>4, <2>2 DEF RefreshRead
  <2>3. CASE n # s
    BY <1>0, <1>1, <1>2, <1>4, <2>1, <2>3 DEF RefreshRead
  <2>4. CASE n = s /\ s \notin Entered
    BY <1>0, <1>1, <1>2, <1>4, <2>4 DEF RefreshRead, Refreshes
  <2> QED
    BY <2>2, <2>3, <2>4
<1>5. ASSUME NEW s \in Subs, RefreshMark(s) PROVE got'[n] # None
  <2>1. n # s
    <3>1. CASE sub'[s] \in {"mark", "register"}
      BY <1>0, <1>5, <3>1 DEF RefreshMark, subVars, Inv, PlaceInv
    <3>2. CASE n = s /\ refresh'[s].at = "mark"
      BY <1>0, <1>5, <3>2 DEF RefreshMark, Refreshes
    <3> QED
      BY <3>1, <3>2
  <2> QED
    BY <1>0, <1>1, <1>2, <1>5, <2>1 DEF RefreshMark, Refreshes
<1>6. ASSUME NEW s \in Subs, RefreshDone(s) \/ RefreshFails(s) PROVE got'[n] # None
  BY <1>0, <1>1, <1>2, <1>6 DEF RefreshDone, RefreshFails, Refreshes
<1>7. ASSUME NEW e, refresh' = Scheduled(e), UNCHANGED got PROVE got'[n] # None
  BY <1>0, <1>1, <1>2, <1>7, ScheduledIs
<1>8. CASE UNCHANGED <<got, refresh>>
  BY <1>0, <1>1, <1>2, <1>8
<1> QED
  BY <1>3, <1>4, <1>5, <1>6, <1>7, <1>8, ZenonT(40)
  DEF Next, Publishing, Subscribing, Refreshing, Patching, Remotely, Begin, Commit, Publish, Subscribe, Enter,
      InitialMark, InitialRegister, Activate, SubscribeFails, Unsubscribe, RefreshInitially,
      RequestRemoteRefresh, Resume, TimerFires, Granted, IntervalPasses, Flush, PatchRead, Patched,
      Unpatched

(* An indexed entry has a result, which is the one its subscriber has. *)
LEMMA GivenStep ==
  ASSUME Inv, Next, NEW n \in Subs
  PROVE  /\ (n \in indexed)' => entry'[n].data # None
         /\ sub'[n] = "active" => client'[n] = entry'[n].data
<1> DEFINE Goal == /\ (n \in indexed)' => entry'[n].data # None
                   /\ sub'[n] = "active" => client'[n] = entry'[n].data
<1>0. /\ n \in indexed => entry[n].data # None
      /\ sub[n] = "active" => client[n] = entry[n].data
      /\ entry \in [Subs -> [data : Maybe, boundary : Nat, failed : BOOLEAN]] /\ client \in [Subs -> Maybe]
      /\ indexed = {s \in Subs : sub[s] \in {"entered", "active"}}
      /\ sub \in [Subs -> {"new", "args", "query", "mark", "register", "entered", "active", "gone"}]
  BY DEF Inv, PlaceInv, RealtimeTypeOK, EntryTypes, SubTypes, Subscribed
<1>1. ASSUME NEW s \in Subs, InitialMark(s) PROVE Goal
  BY <1>0, <1>1 DEF InitialMark
<1>2. ASSUME NEW s \in Subs, InitialRegister(s) PROVE Goal
  <2>1. got[s] # None
    BY <1>2 DEF InitialRegister, Inv, PlaceInv
  <2> QED
    BY <1>0, <1>2, <2>1 DEF InitialRegister
<1>3. ASSUME NEW s \in Subs, Activate(s) PROVE Goal
  BY <1>0, <1>3 DEF Activate
<1>4. ASSUME NEW s \in Subs, Unsubscribe(s) PROVE Goal
  BY <1>0, <1>4 DEF Unsubscribe
<1>5. ASSUME NEW s \in Subs, RefreshFails(s) PROVE Goal
  BY <1>0, <1>5 DEF RefreshFails, subVars
<1>6. ASSUME NEW s \in Subs, RefreshMark(s) PROVE Goal
  <2>1. got[s] # None /\ UNCHANGED <<sub, indexed>>
    BY <1>6 DEF RefreshMark, Inv, PlaceInv, subVars
  <2>2. CASE n # s
    BY <1>0, <1>6, <2>1, <2>2 DEF RefreshMark
  <2>3. CASE n = s /\ s \in indexed
    <3>1. s \in Entered /\ (sub[s] = "active" => s \in Subscribed)
      BY <1>0, <2>3 DEF Entered, Subscribed
    <3>2. entry'[n].data = got[s] /\ (sub[s] = "active" => client'[n] = got[s])
      BY <1>0, <1>6, <2>3, <3>1 DEF RefreshMark
    <3> QED
      BY <1>0, <2>1, <2>3, <3>2
  <2>4. CASE s \notin indexed
    BY <1>0, <2>1, <2>2, <2>4
  <2> QED
    BY <2>2, <2>3, <2>4
<1>7. ASSUME NEW p \in patches, Patched(p) PROVE Goal
  <2> DEFINE apply(result) == IF p.read = None THEN result \o p.writes ELSE p.read
             bound == IF p.read = None THEN entry[p.sub].boundary ELSE publications'.sequence
  <2>1. p.sub \in indexed /\ p.sub \in Subs /\ p.writes \in Results /\ UNCHANGED <<sub, indexed>>
    BY <1>7 DEF Inv, PlaceInv, RealtimeTypeOK, SubTypes, EntryTypes, Patches, Patched, subVars
  <2>2. /\ entry' = [entry EXCEPT ![p.sub].data = apply(entry[p.sub].data), ![p.sub].boundary = bound]
        /\ client' = IF p.sub \in Subscribed THEN [client EXCEPT ![p.sub] = apply(client[p.sub])] ELSE client
    BY <1>7 DEF Patched
  <2>3. apply(entry[p.sub].data) # None
    <3>1. CASE p.read # None
      BY <3>1
    <3>2. CASE p.read = None
      <4>1. entry[p.sub].data \in Results
        BY <2>1 DEF Inv, PlaceInv, RealtimeTypeOK, EntryTypes, Maybe
      <4>2. entry[p.sub].data \o p.writes \in Results
        BY <2>1, <4>1, ConcatProperties DEF Results
      <4> QED
        BY <3>2, <4>2 DEF Results, Writes
    <3> QED
      BY <3>1, <3>2
  <2> HIDE DEF apply, bound
  <2>4. CASE n # p.sub
    BY <1>0, <2>1, <2>2, <2>4
  <2>5. CASE n = p.sub
    <3>1. entry'[n].data = apply(entry[n].data)
      BY <1>0, <2>1, <2>2, <2>5
    <3>2. sub[n] = "active" => client'[n] = apply(entry[n].data)
      BY <1>0, <2>1, <2>2, <2>5 DEF Subscribed
    <3> QED
      BY <2>1, <2>3, <2>5, <3>1, <3>2
  <2> QED
    BY <2>4, <2>5
<1>8. ASSUME NEW s \in Subs, Subscribe(s) \/ Enter(s) \/ InitialRead(s) \/ SubscribeFails(s) PROVE Goal
  BY <1>0, <1>8 DEF Subscribe, Enter, InitialRead, SubscribeFails
<1>9. CASE UNCHANGED <<sub, indexed, entry, client>>
  BY <1>0, <1>9
<1> QED
  BY <1>1, <1>2, <1>3, <1>4, <1>5, <1>6, <1>7, <1>8, <1>9
  DEF Next, Publishing, Subscribing, Refreshing, Patching, Remotely, Begin, Commit, Publish, RefreshInitially,
      RefreshRead, RefreshDone, RequestRemoteRefresh, Resume, TimerFires, Granted, IntervalPasses, Flush,
      PatchRead, Unpatched, subVars

(* Only an indexed entry is patched. *)
LEMMA PatchedStep ==
  ASSUME Inv, Next, NEW q \in patches'
  PROVE  q.sub \in indexed'
<1>0. /\ \A p \in patches : p.sub \in indexed
      /\ patches \subseteq Patches /\ indexed \subseteq Subs
  BY DEF Inv, PlaceInv, RealtimeTypeOK, EntryTypes, SubTypes
<1>1. ASSUME NEW s \in Subs, Unsubscribe(s) PROVE q.sub \in indexed'
  BY <1>0, <1>1 DEF Unsubscribe
<1>2. ASSUME NEW s \in Subs, InitialRegister(s) PROVE q.sub \in indexed'
  BY <1>0, <1>2 DEF InitialRegister
<1>3. ASSUME NEW s \in Subs, RefreshMark(s) PROVE q.sub \in indexed'
  BY <1>0, <1>3, OvertakenIs DEF RefreshMark, subVars
<1>4. CASE Flush
  <2> DEFINE writes == [i \in DOMAIN batch |-> batch[i].write]
  <2>1. PICK tried \in SUBSET indexed : patches' = patches \cup
          {[sub |-> s, writes |-> writes, intact |-> TRUE, read |-> None] : s \in tried}
    BY <1>4 DEF Flush
  <2> HIDE DEF writes
  <2> QED
    BY <1>0, <1>4, <2>1 DEF Flush, subVars
<1>5. ASSUME NEW p \in patches, PatchRead(p) PROVE q.sub \in indexed'
  <2>1. CASE q \in patches
    BY <1>0, <1>5, <2>1 DEF PatchRead, subVars
  <2>2. CASE q = [p EXCEPT !.read = log]
    BY <1>0, <1>5, <2>2 DEF PatchRead, subVars, Patches
  <2> QED
    BY <1>5, <2>1, <2>2 DEF PatchRead
<1>6. ASSUME NEW p \in patches, Unpatched(p) PROVE q.sub \in indexed'
  BY <1>0, <1>6 DEF Unpatched, subVars
<1>7. ASSUME NEW p \in patches, Patched(p) PROVE q.sub \in indexed'
  <2>1. q \in Overtaken(p.sub)
    BY <1>7 DEF Patched
  <2> QED
    BY <1>0, <1>7, <2>1, OvertakenIs DEF Patched, subVars
<1>8. CASE UNCHANGED <<patches, indexed>>
  BY <1>0, <1>8
<1> QED
  BY <1>1, <1>2, <1>3, <1>4, <1>5, <1>6, <1>7, <1>8
  DEF Next, Publishing, Subscribing, Refreshing, Patching, Remotely, Begin, Commit, Publish, Subscribe, Enter,
      InitialRead, InitialMark, Activate, SubscribeFails, RefreshInitially, RefreshRead, RefreshDone,
      RefreshFails, RequestRemoteRefresh, Resume, TimerFires, Granted, IntervalPasses, subVars

LEMMA PlaceInvStep ==
  ASSUME Inv, Next PROVE PlaceInv'
<1>1. indexed' = {n \in Subs : sub'[n] \in {"entered", "active"}}
  BY SubStep, SubTypesStep DEF SubTypes
<1> QED
  BY <1>1, QuietStep, ReadStep, GivenStep, PatchedStep DEF PlaceInv, Late, Subscribed

-----------------------------------------------------------------------------
(* Writes *)

LEMMA AppendSet ==
  ASSUME NEW S, NEW seq \in Seq(S), NEW e \in S
  PROVE  ToSet(Append(seq, e)) = ToSet(seq) \cup {e}
<1> DEFINE longer == Append(seq, e)
<1>1. /\ Len(seq) \in Nat /\ DOMAIN seq = 1 .. Len(seq) /\ DOMAIN longer = 1 .. Len(seq) + 1
      /\ \A i \in 1 .. Len(seq) : longer[i] = seq[i]
      /\ longer[Len(seq) + 1] = e
  BY AppendProperties
<1> HIDE DEF longer
<1>2. ToSet(longer) = ToSet(seq) \cup {e}
  <2>1. ToSet(seq) = {seq[i] : i \in 1 .. Len(seq)} /\ ToSet(longer) = {longer[i] : i \in 1 .. Len(seq) + 1}
    BY <1>1 DEF ToSet
  <2> QED
    BY <1>1, <2>1
<1> QED
  BY <1>2 DEF longer

(* Who changes the writes, the batch and the results of queries: every other action leaves
   them alone. *)
Reading == \E s \in Subs : InitialRead(s) \/ RefreshRead(s) \/ RefreshMark(s)
WritesKept ==
    /\ UNCHANGED <<log, write, startedAt>>
    /\ UNCHANGED batchVars \/ (Flush /\ batch' = <<>> /\ remoteBatch' = FALSE)
    /\ UNCHANGED got \/ Reading
    /\ publications' \in {publications, Boundary, Epoch}

LEMMA Frames ==
  ASSUME Next
  PROVE  \/ \E w \in Local : Begin(w)
         \/ \E w \in Writes : Commit(w)
         \/ \E w \in Writes : Publish(w)
         \/ WritesKept
<1> USE DEF WritesKept, writeVars
<1>1. ASSUME NEW s \in Subs, Subscribe(s) PROVE WritesKept
  BY <1>1 DEF Subscribe, Epoch
<1>2. ASSUME NEW s \in Subs, Enter(s) \/ InitialRegister(s) \/ Activate(s) PROVE WritesKept
  BY <1>2 DEF Enter, InitialRegister, Activate
<1>3. ASSUME NEW s \in Subs, InitialRead(s) PROVE WritesKept
  <2>1. Reading
    BY <1>3 DEF Reading
  <2> QED
    BY <1>3, <2>1 DEF InitialRead
<1>4. ASSUME NEW s \in Subs, InitialMark(s) PROVE WritesKept
  BY <1>4 DEF InitialMark
<1>5. ASSUME NEW s \in Subs, SubscribeFails(s) \/ Unsubscribe(s) PROVE WritesKept
  BY <1>5 DEF SubscribeFails, Unsubscribe
<1>6. ASSUME NEW s \in Subs, RefreshInitially(s) \/ RefreshDone(s) \/ RefreshFails(s) PROVE WritesKept
  BY <1>6 DEF RefreshInitially, RefreshDone, RefreshFails
<1>7. ASSUME NEW s \in Subs, RefreshRead(s) PROVE WritesKept
  <2>1. Reading
    BY <1>7 DEF Reading
  <2> QED
    BY <1>7, <2>1 DEF RefreshRead
<1>8. ASSUME NEW s \in Subs, RefreshMark(s) PROVE WritesKept
  <2>1. Reading
    BY <1>8 DEF Reading
  <2> QED
    BY <1>8, <2>1 DEF RefreshMark
<1>9. ASSUME NEW s \in Subs, RequestRemoteRefresh(s) \/ Resume(s) \/ TimerFires(s) PROVE WritesKept
  BY <1>9 DEF RequestRemoteRefresh, Resume, TimerFires
<1>10. ASSUME NEW s \in Subs, Granted(s) \/ IntervalPasses(s) PROVE WritesKept
  BY <1>10 DEF Granted, IntervalPasses
<1>11. CASE Flush
  BY <1>11 DEF Flush
<1>12. ASSUME NEW p \in patches, PatchRead(p) \/ Unpatched(p) PROVE WritesKept
  BY <1>12 DEF PatchRead, Unpatched
<1>13. ASSUME NEW p \in patches, Patched(p) PROVE WritesKept
  BY <1>13 DEF Patched
<1> HIDE DEF WritesKept
<1> QED
  BY <1>1, <1>2, <1>3, <1>4, <1>5, <1>6, <1>7, <1>8, <1>9, <1>10, <1>11, <1>12, <1>13
  DEF Next, Publishing, Subscribing, Refreshing, Patching, Remotely

(* The publications are numbered upwards. *)
LEMMA SequenceStep ==
  ASSUME Inv, Next
  PROVE  /\ publications.sequence \in Nat /\ publications'.sequence \in Nat
         /\ publications.sequence <= publications'.sequence
<1>0. publications \in Publications /\ Len(publications.records) <= Retention /\ publications.sequence \in Nat
  BY DEF Inv, RealtimeTypeOK, WriteTypes, Publications
<1>1. /\ Boundary.sequence = publications.sequence + 1 /\ Epoch.sequence = publications.sequence + 1
      /\ Recorded.sequence = publications.sequence + 1
  BY <1>0, BoundaryIs, EpochIs, RecordedIs
<1>2. publications' \in {publications, Boundary, Epoch, Recorded}
  BY Frames DEF Begin, Commit, Publish, WritesKept
<1> QED
  BY <1>0, <1>1, <1>2

LEMMA WriteInvStep ==
  ASSUME Inv, Next PROVE WriteInv'
<1> DEFINE Logged == \A w \in Writes : w \in ToSet(log) <=> write[w] \in {"committed", "published"}
           Begun == \A w \in Local : startedAt[w] # None =>
                      write[w] \in {"begun", "committed"} /\ startedAt[w] <= publications.sequence
           Batched == \A i \in DOMAIN batch :
                      /\ write[batch[i].write] = "published"
                      /\ batch[i].startedAt # None => batch[i].startedAt <= publications.sequence
                      /\ \A j \in DOMAIN batch : batch[i].write = batch[j].write => i = j
<1>0. /\ Logged /\ Begun /\ Batched
      /\ log \in Seq(Writes) /\ write \in [Writes -> {"idle", "begun", "committed", "published"}]
      /\ startedAt \in [Local -> Nat \cup {None}] /\ Local \subseteq Writes
      /\ batch \in Seq(Events) /\ publications.sequence \in Nat /\ publications'.sequence \in Nat
      /\ publications.sequence <= publications'.sequence
      /\ \A i \in DOMAIN batch : batch[i].write \in Local /\ batch[i].startedAt \in Nat \cup {None}
  BY SequenceStep, BatchIs DEF Inv, WriteInv, RealtimeTypeOK, WriteTypes, EntryTypes, Writes, Results
<1>1. ASSUME NEW w \in Local, Begin(w) PROVE WriteInv'
  <2>1. /\ w \in Writes /\ write[w] = "idle" /\ write' = [write EXCEPT ![w] = "begun"]
        /\ UNCHANGED <<log, batch, publications>>
    BY <1>0, <1>1 DEF Begin, batchVars
  <2>2. Logged'
    BY <1>0, <2>1
  <2>3. Begun'
    BY <1>0, <1>1, <2>1 DEF Begin
  <2>4. Batched'
    BY <1>0, <2>1
  <2> QED
    BY <2>2, <2>3, <2>4 DEF WriteInv
<1>2. ASSUME NEW w \in Writes, Commit(w) PROVE WriteInv'
  <2>1. /\ write[w] \in {"idle", "begun"} /\ write' = [write EXCEPT ![w] = "committed"]
        /\ log' = Append(log, w)
        /\ UNCHANGED <<startedAt, batch, publications>>
    BY <1>2 DEF Commit, batchVars
  <2>2. ToSet(log') = ToSet(log) \cup {w}
    BY <1>0, <2>1, AppendSet
  <2>3. Logged'
    BY <1>0, <2>1, <2>2
  <2>4. Begun'
    BY <1>0, <2>1
  <2>5. Batched'
    BY <1>0, <2>1
  <2> QED
    BY <2>3, <2>4, <2>5 DEF WriteInv
<1>3. ASSUME NEW w \in Writes, Publish(w) PROVE WriteInv'
  <2> DEFINE began == IF w \in Local /\ Ordered(w) THEN startedAt[w] ELSE None
  <2>1. /\ write[w] = "committed" /\ write' = [write EXCEPT ![w] = "published"] /\ log' = log
        /\ startedAt' = IF w \in Local THEN [startedAt EXCEPT ![w] = None] ELSE startedAt
    BY <1>3 DEF Publish
  <2>2. Logged'
    BY <1>0, <2>1
  <2>3. Begun'
    BY <1>0, <2>1
  <2>4. Batched'
    <3>1. CASE batch' = batch
      BY <1>0, <2>1, <3>1
    <3>2. CASE Notify(w, began)
      <4>1. began \in Nat \cup {None} /\ (began # None => began <= publications.sequence)
        BY <1>0 DEF Ordered
      <4> HIDE DEF began
      <4>2. CASE w \in Local /\ Entered # {}
        <5>1. /\ Len(batch') = Len(batch) + 1 /\ Len(batch) \in Nat /\ DOMAIN batch = 1 .. Len(batch)
              /\ \A i \in DOMAIN batch : batch'[i] = batch[i]
              /\ batch'[Len(batch) + 1].write = w /\ batch'[Len(batch) + 1].startedAt = began
              /\ batch' \in Seq(Events)
          BY <1>0, <3>2, <4>1, <4>2, NotifyIs, BatchIs
        <5>2. DOMAIN batch' = 1 .. Len(batch) + 1
          BY <5>1
        <5>3. \A i \in 1 .. Len(batch) : batch[i].write # w
          BY <1>0, <2>1, <5>1
        <5>4. ASSUME NEW i \in DOMAIN batch'
              PROVE  /\ write'[batch'[i].write] = "published"
                     /\ batch'[i].startedAt # None => batch'[i].startedAt <= publications'.sequence
          <6>1. CASE i = Len(batch) + 1
            BY <1>0, <2>1, <4>1, <5>1, <6>1
          <6>2. CASE i # Len(batch) + 1
            <7>1. i \in DOMAIN batch /\ batch'[i] = batch[i]
              BY <5>1, <5>2, <6>2
            <7> QED
              BY <1>0, <2>1, <7>1
          <6> QED
            BY <6>1, <6>2
        <5>5. ASSUME NEW i \in DOMAIN batch', NEW j \in DOMAIN batch', batch'[i].write = batch'[j].write
              PROVE  i = j
          <6>1. \A k \in DOMAIN batch' : (k \in DOMAIN batch /\ batch'[k] = batch[k]) \/ k = Len(batch) + 1
            BY <5>1, <5>2
          <6> QED
            BY <1>0, <5>1, <5>3, <5>5, <6>1
        <5> QED
          BY <5>4, <5>5
      <4>3. CASE ~ (w \in Local /\ Entered # {})
        BY <1>0, <2>1, <3>1, <3>2, <4>1, <4>3, NotifyIs
      <4> QED
        BY <4>2, <4>3
    <3> QED
      BY <1>3, <3>1, <3>2 DEF Publish, batchVars
  <2> QED
    BY <2>2, <2>3, <2>4 DEF WriteInv
<1>4. CASE UNCHANGED <<log, write, startedAt>> /\ (batch' = batch \/ batch' = <<>>)
  <2>1. Logged' /\ Begun' /\ Batched'
    BY <1>0, <1>4
  <2> QED
    BY <2>1 DEF WriteInv
<1>5. CASE WritesKept
  BY <1>4, <1>5 DEF WritesKept, batchVars
<1> QED
  BY <1>1, <1>2, <1>3, <1>5, Frames

-----------------------------------------------------------------------------
(* Nothing has happened to begin with. *)
LEMMA InitInv ==
  ASSUME Init PROVE Inv
<1>1. log = <<>> /\ batch = <<>> /\ slotQueue = <<>> /\ patches = {} /\ holding = {}
  BY DEF Init
<1>2. WriteTypes
  <2>1. publications \in Publications /\ publications.records = <<>>
    BY DEF Init, Publications
  <2> QED
    BY <1>1, <2>1 DEF Init, WriteTypes, Results, IsInjective
<1>3. SubTypes
  BY DEF Init, SubTypes
<1>4. EntryTypes
  <2>1. batch \in Seq(Events) /\ None \in Maybe
    BY <1>1, EmptySeq DEF Maybe
  <2> QED
    BY <1>1, <2>1 DEF Init, EntryTypes, NoEntry
<1>5. RefreshTypes
  BY <1>1 DEF Init, RefreshTypes
<1>6. SlotInv
  <2>1. /\ {s \in Subs : remote[s] = "granted"} = {} /\ {s \in Subs : remote[s] = "slot"} = {}
        /\ ToSet(slotQueue) = {}
    BY <1>1 DEF Init, ToSet
  <2> QED
    <3>1. Cardinality({}) = 0
      BY FS_EmptySet
    <3>2. active = 0
      BY DEF Init
    <3> QED
      <4>1. active = Cardinality(holding) + Cardinality({s \in Subs : remote[s] = "granted"})
        <5>1. Cardinality({s \in Subs : remote[s] = "granted"}) = 0 /\ Cardinality(holding) = 0
          BY <1>1, <2>1, <3>1, Zenon
        <5> QED
          BY <3>2, <5>1
      <4>2. \A i, j \in DOMAIN slotQueue : slotQueue[i] = slotQueue[j] => i = j
        BY <1>1
      <4> QED
        BY <1>1, <2>1, <4>1, <4>2 DEF SlotInv, SlotsCounted
<1>7. PlaceInv
  BY <1>1 DEF Init, PlaceInv, Asked, Subscribed, NoEntry
<1>8. WriteInv
  BY <1>1 DEF Init, WriteInv, ToSet, Writes
<1> QED
  BY <1>2, <1>3, <1>4, <1>5, <1>6, <1>7, <1>8 DEF Inv, RealtimeTypeOK

LEMMA InvStep ==
  ASSUME Inv, Next PROVE Inv'
BY WriteTypesStep, SubTypesStep, EntryTypesStep, RefreshTypesStep, SlotInvStep, PlaceInvStep, WriteInvStep
DEF Inv, RealtimeTypeOK

LEMMA InvStutter ==
  ASSUME Inv, UNCHANGED vars PROVE Inv'
BY DEF Inv, RealtimeTypeOK, WriteTypes, SubTypes, EntryTypes, RefreshTypes, SlotInv, SlotsCounted, PlaceInv,
    Asked, Subscribed, WriteInv, vars, writeVars, subVars, batchVars, remoteVars

LEMMA Invariance == Spec => []Inv
<1>1. Inv /\ [Next]_vars => Inv'
  BY InvStep, InvStutter
<1> QED
  BY InitInv, <1>1, PTL DEF Spec

(* Every variable has its type, and the publications are kept within their bound. *)
THEOREM RealtimeTypes == Spec => []RealtimeTypeOK
<1>1. Inv => RealtimeTypeOK
  BY DEF Inv
<1> QED
  BY Invariance, <1>1, PTL

(* No slot of the refreshes for other processes is ever lost, taken twice or left free while
   a refresh waits for one, whatever ends, leaves or is asked for meanwhile. *)
THEOREM SlotsAreCounted == Spec => []SlotsCounted
<1>1. Inv => SlotsCounted
  BY DEF Inv, SlotInv
<1> QED
  BY Invariance, <1>1, PTL

-----------------------------------------------------------------------------
(* Each write once *)

(* Within, of a log, of the local writes' beginnings and of a batch. *)
WithinOf(result, boundary, logged, began, events) ==
    /\ Injective(result) /\ ToSet(result) \subseteq ToSet(logged)
    /\ \A w \in Local : began[w] # None /\ began[w] >= boundary => w \notin ToSet(result)
    /\ \A i \in DOMAIN events :
         events[i].startedAt # None /\ events[i].startedAt >= boundary => events[i].write \notin ToSet(result)

(* Writes in the log are not forgotten, and stay published. *)
LEMMA LogStep ==
  ASSUME Inv, Next
  PROVE  /\ ToSet(log) \subseteq ToSet(log') /\ Injective(log)
         /\ \A w \in Writes : write[w] = "published" => write'[w] = "published"
<1>0. /\ log \in Seq(Writes) /\ IsInjective(log)
      /\ write \in [Writes -> {"idle", "begun", "committed", "published"}]
  BY DEF Inv, RealtimeTypeOK, WriteTypes, Results
<1>1. Injective(log)
  BY <1>0 DEF IsInjective, Injective
<1>2. ASSUME NEW w \in Local, Begin(w)
      PROVE  log' = log /\ \A v \in Writes : write[v] = "published" => write'[v] = "published"
  BY <1>0, <1>2 DEF Begin, Writes
<1>3. ASSUME NEW w \in Writes, Commit(w)
      PROVE  /\ ToSet(log) \subseteq ToSet(log')
             /\ \A v \in Writes : write[v] = "published" => write'[v] = "published"
  BY <1>0, <1>3, AppendSet DEF Commit
<1>4. ASSUME NEW w \in Writes, Publish(w)
      PROVE  log' = log /\ \A v \in Writes : write[v] = "published" => write'[v] = "published"
  BY <1>0, <1>4 DEF Publish
<1>5. CASE UNCHANGED <<log, write>>
  BY <1>1, <1>5
<1>6. CASE WritesKept
  BY <1>5, <1>6 DEF WritesKept
<1> QED
  BY <1>1, <1>2, <1>3, <1>4, <1>6, Frames

(* A result is left within its boundary by what happens to writes: one that begins is not in
   it, and one published is in the batch with its beginning. *)
LEMMA WithinStep ==
  ASSUME Inv, Next, NEW result, NEW boundary, WithinOf(result, boundary, log, startedAt, batch)
  PROVE  WithinOf(result, boundary, log', startedAt', batch')
<1>0. /\ ToSet(log) \subseteq ToSet(log') /\ batch \in Seq(Events) /\ startedAt \in [Local -> Nat \cup {None}]
      /\ \A w \in Local : w \in Writes /\ (w \in ToSet(log) => write[w] \in {"committed", "published"})
  BY LogStep DEF Inv, RealtimeTypeOK, WriteTypes, EntryTypes, WriteInv, Writes
<1> USE DEF WithinOf
<1>1. ASSUME NEW w \in Local, Begin(w) PROVE WithinOf(result, boundary, log', startedAt', batch')
  <2>1. w \notin ToSet(result)
    BY <1>0, <1>1 DEF Begin
  <2> QED
    BY <1>0, <1>1, <2>1 DEF Begin, batchVars
<1>2. ASSUME NEW w \in Writes, Publish(w) PROVE WithinOf(result, boundary, log', startedAt', batch')
  <2> DEFINE began == IF w \in Local /\ Ordered(w) THEN startedAt[w] ELSE None
  <2>1. \A v \in Local : startedAt'[v] # None => startedAt'[v] = startedAt[v]
    BY <1>0, <1>2 DEF Publish
  <2>2. CASE batch' = batch
    BY <1>0, <2>1, <2>2
  <2>3. CASE Notify(w, began)
    <3>1. began \in Nat \cup {None} /\ (began # None => w \in Local /\ began = startedAt[w])
      BY <1>0 DEF Ordered
    <3> HIDE DEF began
    <3>2. CASE w \in Local /\ Entered # {}
      <4>1. /\ Len(batch') = Len(batch) + 1 /\ Len(batch) \in Nat /\ DOMAIN batch = 1 .. Len(batch)
            /\ \A i \in DOMAIN batch : batch'[i] = batch[i]
            /\ batch'[Len(batch) + 1].write = w /\ batch'[Len(batch) + 1].startedAt = began
            /\ batch' \in Seq(Events)
        BY <1>0, <2>3, <3>1, <3>2, NotifyIs, BatchIs
      <4>2. \A k \in DOMAIN batch' : (k \in DOMAIN batch /\ batch'[k] = batch[k]) \/ k = Len(batch) + 1
        BY <4>1
      <4> QED
        BY <1>0, <2>1, <3>1, <4>1, <4>2
    <3>3. CASE ~ (w \in Local /\ Entered # {})
      BY <1>0, <2>2, <2>3, <3>1, <3>3, NotifyIs
    <3> QED
      BY <3>2, <3>3
  <2> QED
    BY <1>2, <2>2, <2>3 DEF Publish, batchVars
<1>3. CASE startedAt' = startedAt /\ (batch' = batch \/ batch' = <<>>)
  BY <1>0, <1>3
<1>4. ASSUME NEW w \in Writes, Commit(w) PROVE WithinOf(result, boundary, log', startedAt', batch')
  BY <1>3, <1>4 DEF Commit, batchVars
<1>5. CASE WritesKept
  BY <1>3, <1>5 DEF WritesKept, batchVars
<1> HIDE DEF WithinOf
<1> QED
  BY <1>1, <1>2, <1>4, <1>5, Frames

(* Whatever has begun so far is behind a boundary that is marked now. *)
LEMMA WithinMarked ==
  ASSUME Inv, NEW result, Injective(result), ToSet(result) \subseteq ToSet(log)
  PROVE  WithinOf(result, publications.sequence + 1, log, startedAt, batch)
<1>1. /\ publications.sequence \in Nat /\ startedAt \in [Local -> Nat \cup {None}]
      /\ \A w \in Local : startedAt[w] # None => startedAt[w] <= publications.sequence
      /\ \A i \in DOMAIN batch : batch[i].startedAt \in Nat \cup {None}
                             /\ (batch[i].startedAt # None => batch[i].startedAt <= publications.sequence)
  BY BatchIs DEF Inv, RealtimeTypeOK, WriteTypes, EntryTypes, WriteInv, Publications
<1> QED
  BY <1>1 DEF WithinOf

(* What a patch applies follows a result that has none of it. *)
LEMMA WithinPatched ==
  ASSUME Inv, NEW result \in Results, NEW boundary, WithinOf(result, boundary, log, startedAt, batch),
         NEW writes \in Results, Injective(writes), ToSet(writes) \cap ToSet(result) = {},
         \A i \in DOMAIN writes : write[writes[i]] = "published",
         ToSet(writes) \cap {batch[i].write : i \in DOMAIN batch} = {}
  PROVE  WithinOf(result \o writes, boundary, log, startedAt, batch)
<1> DEFINE patched == result \o writes
<1>1. /\ Len(result) \in Nat /\ Len(writes) \in Nat
      /\ DOMAIN result = 1 .. Len(result) /\ DOMAIN writes = 1 .. Len(writes)
      /\ DOMAIN patched = 1 .. Len(result) + Len(writes)
      /\ \A i \in 1 .. Len(result) : patched[i] = result[i]
      /\ \A i \in 1 .. Len(writes) : patched[Len(result) + i] = writes[i]
      /\ \A i \in 1 .. Len(writes) : writes[i] \in Writes
  BY ConcatProperties, ElementOfSeq DEF Results
<1> HIDE DEF patched
<1>2. \A i \in DOMAIN patched :
          \/ i \in 1 .. Len(result) /\ patched[i] = result[i]
          \/ i - Len(result) \in 1 .. Len(writes) /\ patched[i] = writes[i - Len(result)]
  <2> SUFFICES ASSUME NEW i \in DOMAIN patched, ~ (i \in 1 .. Len(result) /\ patched[i] = result[i])
               PROVE  i - Len(result) \in 1 .. Len(writes) /\ patched[i] = writes[i - Len(result)]
    BY <1>1
  <2> DEFINE k == i - Len(result)
  <2>1. k \in 1 .. Len(writes) /\ i = Len(result) + k
    BY <1>1
  <2> HIDE DEF k
  <2>2. patched[i] = writes[k]
    BY <1>1, <2>1
  <2> QED
    BY <2>1, <2>2 DEF k
<1>3. /\ ToSet(result) = {result[i] : i \in 1 .. Len(result)}
      /\ ToSet(writes) = {writes[i] : i \in 1 .. Len(writes)}
      /\ ToSet(patched) = {patched[i] : i \in DOMAIN patched}
  BY <1>1 DEF ToSet
<1>4. ToSet(patched) \subseteq ToSet(result) \cup ToSet(writes)
  BY <1>2, <1>3
<1>5. Injective(patched)
  <2>1. \A i, j \in 1 .. Len(result) : result[i] = result[j] => i = j
    BY <1>1 DEF WithinOf, Injective
  <2>2. \A i, j \in 1 .. Len(writes) : writes[i] = writes[j] => i = j
    BY <1>1 DEF Injective
  <2>3. \A i \in 1 .. Len(result), j \in 1 .. Len(writes) : result[i] # writes[j]
    BY <1>3
  <2> SUFFICES ASSUME NEW i \in DOMAIN patched, NEW j \in DOMAIN patched, patched[i] = patched[j] PROVE i = j
    BY DEF Injective
  <2>4. i \in Int /\ j \in Int
    BY <1>1
  <2> QED
    BY <1>1, <1>2, <2>1, <2>2, <2>3, <2>4
<1>6. ASSUME NEW w \in ToSet(writes)
      PROVE  /\ w \in ToSet(log) /\ (w \in Local => startedAt[w] = None)
             /\ \A i \in DOMAIN batch : batch[i].write # w
  <2>1. w \in Writes /\ write[w] = "published"
    BY <1>1, <1>3
  <2> QED
    BY <2>1 DEF Inv, WriteInv
<1>7. WithinOf(patched, boundary, log, startedAt, batch)
  BY <1>4, <1>5, <1>6 DEF WithinOf
<1> QED
  BY <1>7 DEF patched

Once == Inv /\ OnceInv

(* What a query returned has each write once. *)
LEMMA OnceRead ==
  ASSUME Once, Next, NEW n \in Subs, got'[n] # None
  PROVE  Injective(got'[n]) /\ ToSet(got'[n]) \subseteq ToSet(log')
<1>0. /\ got[n] # None => Injective(got[n]) /\ ToSet(got[n]) \subseteq ToSet(log)
      /\ got \in [Subs -> Maybe] /\ Injective(log) /\ ToSet(log) \subseteq ToSet(log')
  BY LogStep DEF Once, OnceInv, Inv, RealtimeTypeOK, EntryTypes
<1>1. ASSUME NEW s \in Subs, InitialRead(s) \/ RefreshRead(s)
      PROVE  (got'[n] = log \/ got'[n] = got[n]) /\ log' = log
  BY <1>0, <1>1 DEF InitialRead, RefreshRead, writeVars
<1>2. ASSUME NEW s \in Subs, RefreshMark(s) PROVE got'[n] = got[n]
  BY <1>0, <1>2 DEF RefreshMark
<1>3. CASE UNCHANGED got
  BY <1>0, <1>3
<1>4. CASE Reading
  BY <1>0, <1>1, <1>2, <1>4 DEF Reading
<1> QED
  BY <1>3, <1>4, Frames DEF Begin, Commit, Publish, WritesKept

(* What a new entry will hold is within the boundary marked for it. *)
LEMMA OnceRegister ==
  ASSUME Once, Next, NEW n \in Subs, sub'[n] = "register"
  PROVE  WithinOf(got'[n], entry'[n].boundary, log', startedAt', batch')
<1>0. /\ sub[n] = "register" => WithinOf(got[n], entry[n].boundary, log, startedAt, batch)
      /\ sub[n] \notin {"entered", "active", "gone"} => refresh[n].at = "none"
      /\ sub \in [Subs -> {"new", "args", "query", "mark", "register", "entered", "active", "gone"}]
      /\ entry \in [Subs -> [data : Maybe, boundary : Nat, failed : BOOLEAN]] /\ got \in [Subs -> Maybe]
      /\ \A p \in patches : p.sub \in Subs /\ sub[p.sub] \in {"entered", "active"}
  BY DEF Once, OnceInv, Inv, RealtimeTypeOK, EntryTypes, SubTypes, PlaceInv, Within, WithinOf
<1>1. CASE InitialMark(n)
  <2>1. /\ entry'[n].boundary = publications'.sequence /\ publications' = Boundary /\ got' = got
        /\ UNCHANGED <<log, startedAt, batch>> /\ sub[n] = "mark"
    BY <1>0, <1>1 DEF InitialMark, batchVars
  <2>2. publications'.sequence = publications.sequence + 1
    BY <2>1, BoundaryIs DEF Once, Inv, RealtimeTypeOK, WriteTypes
  <2>3. Injective(got[n]) /\ ToSet(got[n]) \subseteq ToSet(log)
    BY <2>1 DEF Once, OnceInv, Inv, PlaceInv
  <2>4. WithinOf(got[n], publications.sequence + 1, log, startedAt, batch)
    BY <2>3, WithinMarked DEF Once
  <2> QED
    BY <2>1, <2>2, <2>4
<1>2. CASE sub[n] = "register" /\ got'[n] = got[n] /\ entry'[n].boundary = entry[n].boundary
  BY <1>0, <1>2, WithinStep DEF Once
<1>3. ASSUME NEW s \in Subs, s # n, InitialMark(s)
      PROVE  sub[n] = "register" /\ got'[n] = got[n] /\ entry'[n].boundary = entry[n].boundary
  BY <1>0, <1>3 DEF InitialMark
<1>4. ASSUME NEW s \in Subs, RefreshRead(s) \/ RefreshMark(s) \/ RefreshFails(s)
      PROVE  sub[n] = "register" /\ got'[n] = got[n] /\ entry'[n].boundary = entry[n].boundary
  <2>1. sub' = sub /\ s # n
    BY <1>0, <1>4 DEF RefreshRead, RefreshMark, RefreshFails, subVars
  <2> QED
    BY <1>0, <1>4, <2>1 DEF RefreshRead, RefreshMark, RefreshFails
<1>5. ASSUME NEW p \in patches, Patched(p)
      PROVE  sub[n] = "register" /\ got'[n] = got[n] /\ entry'[n].boundary = entry[n].boundary
  <2>1. sub' = sub /\ p.sub # n /\ got' = got
    BY <1>0, <1>5 DEF Patched, subVars
  <2>2. \E r, b : entry' = [entry EXCEPT ![p.sub].data = r, ![p.sub].boundary = b]
    BY <1>5 DEF Patched
  <2> QED
    BY <1>0, <2>1, <2>2
<1>6. ASSUME NEW s \in Subs,
             InitialRead(s) \/ InitialRegister(s) \/ Activate(s) \/ Unsubscribe(s) \/ SubscribeFails(s)
                              \/ Subscribe(s) \/ Enter(s)
      PROVE  sub[n] = "register" /\ got'[n] = got[n] /\ entry'[n].boundary = entry[n].boundary
  BY <1>0, <1>6 DEF InitialRead, InitialRegister, Activate, Unsubscribe, SubscribeFails, Subscribe, Enter
<1>7. CASE UNCHANGED <<sub, got, entry>>
  BY <1>0, <1>2, <1>7
<1> QED
  BY <1>1, <1>2, <1>3, <1>4, <1>5, <1>6, <1>7
  DEF Next, Publishing, Subscribing, Refreshing, Patching, Remotely, Begin, Commit, Publish, RefreshInitially,
      RefreshDone, RequestRemoteRefresh, Resume, TimerFires, Granted, IntervalPasses, Flush, PatchRead,
      Unpatched, subVars

(* What an entry holds is within its boundary, read or patched. *)
LEMMA OnceEntry ==
  ASSUME Once, Next, NEW n \in Subs, entry'[n].data # None
  PROVE  WithinOf(entry'[n].data, entry'[n].boundary, log', startedAt', batch')
<1> DEFINE Goal == WithinOf(entry'[n].data, entry'[n].boundary, log', startedAt', batch')
<1>0. /\ entry[n].data # None => WithinOf(entry[n].data, entry[n].boundary, log, startedAt, batch)
      /\ entry \in [Subs -> [data : Maybe, boundary : Nat, failed : BOOLEAN]] /\ got \in [Subs -> Maybe]
      /\ publications \in Publications /\ Inv
  BY DEF Once, OnceInv, Inv, RealtimeTypeOK, EntryTypes, WriteTypes, Within, WithinOf
<1>1. CASE entry'[n].data = entry[n].data /\ entry'[n].boundary = entry[n].boundary
  BY <1>0, <1>1, WithinStep
<1>2. ASSUME NEW s \in Subs, InitialMark(s) PROVE Goal
  <2>1. s # n => entry'[n] = entry[n]
    BY <1>0, <1>2 DEF InitialMark
  <2>2. CASE s = n
    <3>1. /\ entry'[n].boundary = publications.sequence + 1 /\ entry'[n].data = entry[n].data
          /\ UNCHANGED <<log, startedAt, batch>>
      BY <1>0, <1>2, <2>2, BoundaryIs DEF InitialMark, batchVars
    <3>2. Injective(entry[n].data) /\ ToSet(entry[n].data) \subseteq ToSet(log)
      BY <1>0, <3>1 DEF WithinOf
    <3> QED
      BY <1>0, <3>1, <3>2, WithinMarked
  <2> QED
    BY <1>1, <2>1, <2>2
<1>3. ASSUME NEW s \in Subs, InitialRegister(s) PROVE Goal
  <2>1. s # n => entry'[n] = entry[n]
    BY <1>0, <1>3 DEF InitialRegister
  <2>2. CASE s = n
    <3>1. entry'[n].boundary = entry[n].boundary /\ entry'[n].data = got[n] /\ sub[n] = "register"
      BY <1>0, <1>3, <2>2 DEF InitialRegister
    <3>2. WithinOf(got[n], entry[n].boundary, log, startedAt, batch)
      BY <3>1 DEF Once, OnceInv, Within, WithinOf
    <3> QED
      BY <1>0, <3>1, <3>2, WithinStep
  <2> QED
    BY <1>1, <2>1, <2>2
<1>4. ASSUME NEW s \in Subs, Unsubscribe(s) PROVE Goal
  <2>1. s # n
    BY <1>0, <1>4 DEF Unsubscribe, NoEntry
  <2> QED
    BY <1>0, <1>1, <1>4, <2>1 DEF Unsubscribe
<1>5. ASSUME NEW s \in Subs, RefreshFails(s) PROVE Goal
  <2>1. entry'[n].data = entry[n].data /\ entry'[n].boundary = entry[n].boundary
    BY <1>0, <1>5 DEF RefreshFails
  <2> QED
    BY <1>1, <2>1
<1>6. ASSUME NEW s \in Subs, RefreshMark(s) PROVE Goal
  <2>1. s # n \/ s \notin Entered => entry'[n] = entry[n]
    BY <1>0, <1>6 DEF RefreshMark
  <2>2. CASE s = n /\ s \in Entered
    <3>1. /\ entry'[n].boundary = publications.sequence + 1 /\ entry'[n].data = got[n]
          /\ UNCHANGED <<log, startedAt, batch>>
      BY <1>0, <1>6, <2>2, BoundaryIs DEF RefreshMark, batchVars
    <3>2. Injective(got[n]) /\ ToSet(got[n]) \subseteq ToSet(log)
      BY <3>1 DEF Once, OnceInv
    <3> QED
      BY <1>0, <3>1, <3>2, WithinMarked
  <2> QED
    BY <1>1, <2>1, <2>2
<1>7. ASSUME NEW p \in patches, Patched(p) PROVE Goal
  <2> DEFINE apply(result) == IF p.read = None THEN result \o p.writes ELSE p.read
             bound == IF p.read = None THEN entry[p.sub].boundary ELSE publications'.sequence
  <2>1. p.sub \in indexed /\ p.sub \in Subs /\ p.writes \in Results
    BY DEF Once, Inv, PlaceInv, RealtimeTypeOK, SubTypes, EntryTypes, Patches
  <2>2. /\ entry' = [entry EXCEPT ![p.sub].data = apply(entry[p.sub].data), ![p.sub].boundary = bound]
        /\ UNCHANGED <<log, startedAt, batch>> /\ p.intact
        /\ publications' = IF p.read = None THEN publications ELSE Boundary
    BY <1>7 DEF Patched, batchVars
  <2> HIDE DEF apply, bound
  <2>3. CASE n # p.sub
    <3>1. entry'[n] = entry[n]
      BY <1>0, <2>1, <2>2, <2>3
    <3> QED
      BY <1>1, <3>1
  <2>4. CASE n = p.sub
    <3>1. entry'[n].data = apply(entry[n].data) /\ entry'[n].boundary = bound
      BY <1>0, <2>1, <2>2, <2>4
    <3>2. CASE p.read = None
      <4>1. entry'[n].data = entry[n].data \o p.writes /\ entry'[n].boundary = entry[n].boundary
        BY <2>4, <3>1, <3>2 DEF apply, bound
      <4>2. entry[n].data \in Results
        BY <2>1, <2>4 DEF Once, Inv, PlaceInv, RealtimeTypeOK, EntryTypes, Maybe
      <4>3. /\ Injective(p.writes) /\ \A i \in DOMAIN p.writes : write[p.writes[i]] = "published"
            /\ ToSet(p.writes) \cap {batch[i].write : i \in DOMAIN batch} = {}
            /\ ToSet(p.writes) \cap ToSet(entry[n].data) = {}
        BY <2>2, <2>4 DEF Once, OnceInv
      <4>4. WithinOf(entry[n].data, entry[n].boundary, log, startedAt, batch)
        BY <1>0, <4>2 DEF Results, Writes
      <4>5. WithinOf(entry[n].data \o p.writes, entry[n].boundary, log, startedAt, batch)
        BY <1>0, <2>1, <4>2, <4>3, <4>4, WithinPatched
      <4> QED
        BY <2>2, <4>1, <4>5
    <3>3. CASE p.read # None
      <4>1. entry'[n].data = p.read /\ entry'[n].boundary = publications.sequence + 1
        BY <1>0, <2>2, <2>4, <3>1, <3>3, BoundaryIs DEF apply, bound
      <4>2. Injective(p.read) /\ ToSet(p.read) \subseteq ToSet(log)
        BY <3>3 DEF Once, OnceInv
      <4> QED
        BY <1>0, <2>2, <4>1, <4>2, WithinMarked
    <3> QED
      BY <3>2, <3>3
  <2> QED
    BY <2>3, <2>4
<1>8. CASE UNCHANGED entry
  BY <1>1, <1>8
<1> QED
  BY <1>2, <1>3, <1>4, <1>5, <1>6, <1>7, <1>8
  DEF Next, Publishing, Subscribing, Refreshing, Patching, Remotely, Begin, Commit, Publish, Subscribe, Enter,
      InitialRead, Activate, SubscribeFails, RefreshInitially, RefreshRead, RefreshDone,
      RequestRemoteRefresh, Resume, TimerFires, Granted, IntervalPasses, Flush, PatchRead, Unpatched

(* A patch that may be applied has writes the entry does not have yet, and that the batch no
   longer has. *)
PatchOk(q, written, logged, events, entries) ==
    /\ q.writes # <<>> /\ Injective(q.writes)
    /\ \A i \in DOMAIN q.writes : written[q.writes[i]] = "published"
    /\ q.read # None => Injective(q.read) /\ ToSet(q.read) \subseteq ToSet(logged)
    /\ ToSet(q.writes) \cap {events[i].write : i \in DOMAIN events} = {}
    /\ q.intact => ToSet(q.writes) \cap ToSet(entries[q.sub].data) = {}

(* The writes of a batch are patched into entries whose boundary is behind them. *)
LEMMA FlushOk ==
  ASSUME Once, NEW s \in indexed, NEW q, Patchable(s, batch), batch # <<>>,
         q = [sub |-> s, writes |-> [i \in DOMAIN batch |-> batch[i].write], intact |-> TRUE, read |-> None]
  PROVE  PatchOk(q, write, log, <<>>, entry)
<1> DEFINE writes == [i \in DOMAIN batch |-> batch[i].write]
<1>1. q.writes = writes /\ q.sub = s /\ q.read = None
  OBVIOUS
<1>2. /\ batch \in Seq(Events) /\ Len(batch) \in Nat \ {0} /\ DOMAIN batch = 1 .. Len(batch)
      /\ \A i \in DOMAIN batch :
                /\ write[batch[i].write] = "published" /\ batch[i].write \in Local
                /\ \A j \in DOMAIN batch : batch[i].write = batch[j].write => i = j
      /\ s \in Subs
  BY BatchIs, EmptySeq DEF Once, Inv, WriteInv, RealtimeTypeOK, EntryTypes, SubTypes
<1>3. /\ DOMAIN writes = DOMAIN batch /\ Len(writes) = Len(batch)
      /\ \A i \in DOMAIN batch : writes[i] = batch[i].write
  BY <1>2, BatchWrites
<1>4. WithinOf(entry[s].data, entry[s].boundary, log, startedAt, batch)
  BY DEF Once, OnceInv, Inv, PlaceInv, RealtimeTypeOK, SubTypes, Within, WithinOf
<1>5. \A i \in DOMAIN batch : batch[i].startedAt # None /\ batch[i].startedAt >= entry[s].boundary
  BY DEF Patchable, ToSet
<1> HIDE DEF writes
<1>6. \A i \in DOMAIN writes : writes[i] \notin ToSet(entry[s].data)
  BY <1>3, <1>4, <1>5 DEF WithinOf
<1>7. ToSet(writes) = {writes[i] : i \in DOMAIN writes}
  BY DEF ToSet
<1>8. writes # <<>> /\ Injective(writes) /\ \A i \in DOMAIN writes : write[writes[i]] = "published"
  BY <1>2, <1>3 DEF Injective
<1>9. ToSet(writes) \cap ToSet(entry[s].data) = {}
  BY <1>6, <1>7
<1>10. {(<<>>)[i].write : i \in DOMAIN <<>>} = {}
  OBVIOUS
<1> QED
  BY <1>1, <1>8, <1>9, <1>10 DEF PatchOk

(* A batch that grows takes writes no patch has. *)
LEMMA BatchSetStep ==
  ASSUME Inv, Next
  PROVE  \/ {batch'[i].write : i \in DOMAIN batch'} \subseteq {batch[i].write : i \in DOMAIN batch}
         \/ \E w \in Writes :
                   /\ write[w] = "committed"
                   /\ {batch'[i].write : i \in DOMAIN batch'} \subseteq {batch[i].write : i \in DOMAIN batch} \cup {w}
<1> DEFINE old == {batch[i].write : i \in DOMAIN batch}
           new == {batch'[i].write : i \in DOMAIN batch'}
<1>0. /\ batch \in Seq(Events) /\ startedAt \in [Local -> Nat \cup {None}]
  BY DEF Inv, RealtimeTypeOK, WriteTypes, EntryTypes
<1>1. ASSUME NEW w \in Writes, Publish(w) PROVE new \subseteq old \cup {w} /\ write[w] = "committed"
  <2> DEFINE began == IF w \in Local /\ Ordered(w) THEN startedAt[w] ELSE None
  <2>1. CASE batch' = batch
    BY <1>1, <2>1 DEF Publish
  <2>2. CASE Notify(w, began)
    <3>1. began \in Nat \cup {None}
      BY <1>0
    <3> HIDE DEF began
    <3>2. CASE w \in Local /\ Entered # {}
      <4>1. /\ Len(batch') = Len(batch) + 1 /\ Len(batch) \in Nat /\ DOMAIN batch = 1 .. Len(batch)
            /\ \A i \in DOMAIN batch : batch'[i] = batch[i]
            /\ batch'[Len(batch) + 1].write = w /\ batch' \in Seq(Events)
        BY <1>0, <2>2, <3>1, <3>2, NotifyIs, BatchIs
      <4>2. \A k \in DOMAIN batch' : (k \in DOMAIN batch /\ batch'[k] = batch[k]) \/ k = Len(batch) + 1
        BY <4>1
      <4> QED
        BY <1>1, <4>1, <4>2 DEF Publish
    <3>3. CASE ~ (w \in Local /\ Entered # {})
      BY <1>0, <2>1, <2>2, <3>1, <3>3, NotifyIs
    <3> QED
      BY <3>2, <3>3
  <2> QED
    BY <1>1, <2>1, <2>2 DEF Publish, batchVars
<1>2. CASE batch' = batch \/ batch' = <<>>
  BY <1>2
<1>3. batch' = batch \/ batch' = <<>> \/ \E w \in Writes : Publish(w)
  BY Frames DEF Begin, Commit, WritesKept, batchVars
<1> QED
  BY <1>1, <1>2, <1>3

(* A patch stays one that may be applied, or is overtaken. *)
LEMMA PatchStep ==
  ASSUME Once, Next, NEW p \in patches, NEW q \in Patches,
         q.sub = p.sub, q.writes = p.writes,
         q.read = p.read \/ q.read = log,
         q.intact => p.intact /\ entry'[p.sub].data = entry[p.sub].data
  PROVE  PatchOk(q, write', log', batch', entry')
<1>1. PatchOk(p, write, log, batch, entry) /\ p \in Patches
  BY DEF Once, OnceInv, PatchOk, Inv, RealtimeTypeOK, EntryTypes
<1>2. /\ ToSet(log) \subseteq ToSet(log') /\ Injective(log)
      /\ \A w \in Writes : write[w] = "published" => write'[w] = "published"
  BY LogStep DEF Once
<1>3. /\ p.writes \in Seq(Writes) /\ DOMAIN p.writes = 1 .. Len(p.writes)
      /\ \A i \in DOMAIN p.writes : p.writes[i] \in Writes
  BY <1>1, ElementOfSeq DEF Patches, Results
<1>4. ToSet(p.writes) \cap {batch'[i].write : i \in DOMAIN batch'} = {}
  <2>1. \A w \in ToSet(p.writes) : write[w] = "published"
    BY <1>1 DEF PatchOk, ToSet
  <2> QED
    BY <1>1, <2>1, BatchSetStep DEF Once, PatchOk
<1>5. \A i \in DOMAIN p.writes : write'[p.writes[i]] = "published"
  BY <1>1, <1>2, <1>3 DEF PatchOk
<1>6. q.read # None => Injective(q.read) /\ ToSet(q.read) \subseteq ToSet(log')
  BY <1>1, <1>2 DEF PatchOk
<1> QED
  BY <1>1, <1>4, <1>5, <1>6 DEF PatchOk

LEMMA OncePatches ==
  ASSUME Once, Next, NEW q \in patches'
  PROVE  PatchOk(q, write', log', batch', entry')
<1> DEFINE Goal == PatchOk(q, write', log', batch', entry')
<1>0. /\ patches \subseteq Patches /\ indexed \subseteq Subs /\ \A p \in patches : p.sub \in indexed
      /\ entry \in [Subs -> [data : Maybe, boundary : Nat, failed : BOOLEAN]]
      /\ indexed = {s \in Subs : sub[s] \in {"entered", "active"}}
  BY DEF Once, Inv, PlaceInv, RealtimeTypeOK, EntryTypes, SubTypes
<1>1. ASSUME q \in patches, entry'[q.sub].data = entry[q.sub].data PROVE Goal
  BY <1>0, <1>1, PatchStep
<1>2. ASSUME NEW s \in Subs, InitialMark(s) \/ RefreshFails(s) PROVE Goal
  <2>1. q \in patches /\ q.sub \in Subs
    BY <1>0, <1>2 DEF InitialMark, RefreshFails
  <2>2. entry'[q.sub].data = entry[q.sub].data
    BY <1>0, <1>2, <2>1 DEF InitialMark, RefreshFails
  <2> QED
    BY <1>1, <2>1, <2>2
<1>3. ASSUME NEW s \in Subs, InitialRegister(s) \/ Unsubscribe(s) PROVE Goal
  <2>1. q \in patches /\ q.sub # s
    BY <1>0, <1>3 DEF InitialRegister, Unsubscribe
  <2>2. entry'[q.sub].data = entry[q.sub].data
    BY <1>0, <1>3, <2>1 DEF InitialRegister, Unsubscribe
  <2> QED
    BY <1>1, <2>1, <2>2
<1>4. ASSUME NEW s \in Subs, RefreshMark(s) PROVE Goal
  <2>1. patches' = Overtaken(s) /\ \A n \in Subs : n # s => entry'[n] = entry[n]
    BY <1>0, <1>4 DEF RefreshMark
  <2>2. PICK p \in patches :
            /\ q.sub = p.sub /\ q.writes = p.writes /\ q.read = p.read
            /\ q.intact => p.intact /\ p.sub # s
    BY <1>0, <2>1, OvertakenIs
  <2>3. q \in Patches
    BY <1>0, <2>1, OvertakenIs
  <2>4. p.sub # s => entry'[p.sub].data = entry[p.sub].data
    BY <1>0, <2>1
  <2>5. q.intact => p.intact /\ entry'[p.sub].data = entry[p.sub].data
    BY <2>2, <2>4
  <2> QED
    BY <2>2, <2>3, <2>5, PatchStep
<1>5. CASE Flush
  <2>1. entry' = entry /\ log' = log /\ write' = write /\ batch' = <<>>
    BY <1>5 DEF Flush, writeVars
  <2>2. CASE q \in patches
    BY <1>1, <2>1, <2>2
  <2>3. CASE q \notin patches
    <3>1. PICK s \in indexed :
              /\ Patchable(s, batch) /\ batch # <<>>
              /\ q = [sub |-> s, writes |-> [i \in DOMAIN batch |-> batch[i].write], intact |-> TRUE, read |-> None]
      BY <1>5, <2>3 DEF Flush
    <3> QED
      BY <2>1, <3>1, FlushOk
  <2> QED
    BY <2>2, <2>3
<1>6. ASSUME NEW p \in patches, PatchRead(p) PROVE Goal
  <2>1. entry' = entry
    BY <1>6 DEF PatchRead
  <2>2. CASE q = [p EXCEPT !.read = log]
    <3>1. p \in Patches /\ log \in Maybe
      BY <1>0 DEF Once, Inv, RealtimeTypeOK, WriteTypes, Maybe
    <3>2. q \in Patches /\ q.sub = p.sub /\ q.writes = p.writes /\ q.read = log /\ q.intact = p.intact
      BY <2>2, <3>1 DEF Patches
    <3> QED
      BY <2>1, <3>2, PatchStep
  <2> QED
    BY <1>1, <1>6, <2>1, <2>2 DEF PatchRead
<1>7. ASSUME NEW p \in patches, Patched(p) PROVE Goal
  <2>1. q \in Overtaken(p.sub) /\ \E r, b : entry' = [entry EXCEPT ![p.sub].data = r, ![p.sub].boundary = b]
    BY <1>7 DEF Patched
  <2>2. PICK o \in patches :
            /\ q.sub = o.sub /\ q.writes = o.writes /\ q.read = o.read
            /\ q.intact => o.intact /\ o.sub # p.sub
    BY <1>0, <2>1, OvertakenIs
  <2>3. q \in Patches
    BY <1>0, <2>1, OvertakenIs
  <2>4. o.sub # p.sub => entry'[o.sub].data = entry[o.sub].data
    BY <1>0, <2>1
  <2>5. q.intact => o.intact /\ entry'[o.sub].data = entry[o.sub].data
    BY <2>2, <2>4
  <2> QED
    BY <2>2, <2>3, <2>5, PatchStep
<1>8. ASSUME NEW p \in patches, Unpatched(p) PROVE Goal
  BY <1>1, <1>8 DEF Unpatched
<1>9. CASE UNCHANGED <<patches, entry>>
  BY <1>1, <1>9
<1> QED
  BY <1>2, <1>3, <1>4, <1>5, <1>6, <1>7, <1>8, <1>9
  DEF Next, Publishing, Subscribing, Refreshing, Patching, Remotely, Begin, Commit, Publish, Subscribe, Enter,
      InitialRead, Activate, SubscribeFails, RefreshInitially, RefreshRead, RefreshDone,
      RequestRemoteRefresh, Resume, TimerFires, Granted, IntervalPasses

(* A batch is patched into an entry once. *)
LEMMA OneByOne ==
  ASSUME Once, Next, NEW p \in patches', NEW q \in patches', q.sub = p.sub, q.writes = p.writes
  PROVE  q = p
<1>0. /\ patches \subseteq Patches
      /\ \A x, y \in patches : x.sub = y.sub /\ x.writes = y.writes => x = y
      /\ \A x \in patches : x.writes # <<>> /\ x.writes \in Results
      /\ \A x \in patches : ToSet(x.writes) \cap {batch[i].write : i \in DOMAIN batch} = {}
  BY DEF Once, OnceInv, Inv, RealtimeTypeOK, EntryTypes, Patches
<1>1. CASE patches' \subseteq patches
  BY <1>0, <1>1
<1>2. ASSUME NEW s, patches' \subseteq Overtaken(s) PROVE q = p
  <2> DEFINE mark(x) == [x EXCEPT !.intact = x.intact /\ x.sub # s]
  <2>1. PICK x \in patches, y \in patches : p = mark(x) /\ q = mark(y)
    BY <1>2 DEF Overtaken
  <2>2. \A z \in patches : mark(z).sub = z.sub /\ mark(z).writes = z.writes
    BY <1>0 DEF Patches
  <2> HIDE DEF mark
  <2> QED
    BY <1>0, <2>1, <2>2
<1>3. CASE Flush
  <2> DEFINE writes == [i \in DOMAIN batch |-> batch[i].write]
             fresh(s) == [sub |-> s, writes |-> writes, intact |-> TRUE, read |-> None]
  <2>1. \A x \in patches' : x \in patches \/ (batch # <<>> /\ \E s \in indexed : x = fresh(s))
    <3> DEFINE tried == {s \in indexed : batch # <<>> /\ Patchable(s, batch)}
    <3>1. patches' = patches \cup {fresh(s) : s \in tried}
      BY <1>3 DEF Flush
    <3>2. \A s \in tried : batch # <<>> /\ s \in indexed
      OBVIOUS
    <3> HIDE DEF tried, fresh
    <3> QED
      BY <3>1, <3>2
  <2>2. \A s : fresh(s).sub = s /\ fresh(s).writes = writes
    OBVIOUS
  <2>3. \A x \in patches : batch # <<>> => x.writes # writes
    <3> SUFFICES ASSUME NEW x \in patches, batch # <<>>, x.writes = writes PROVE FALSE
      OBVIOUS
    <3>1. /\ batch \in Seq(Events) /\ DOMAIN writes = DOMAIN batch /\ 1 \in DOMAIN batch
      BY BatchIs, BatchWrites, EmptySeq DEF Once, Inv, RealtimeTypeOK, EntryTypes
    <3>2. writes[1] \in ToSet(writes) /\ writes[1] = batch[1].write
      BY <3>1 DEF ToSet
    <3>3. batch[1].write \in {batch[i].write : i \in DOMAIN batch}
      BY <3>1
    <3> HIDE DEF writes
    <3> QED
      BY <1>0, <3>2, <3>3
  <2> HIDE DEF fresh, writes
  <2> QED
    BY <1>0, <2>1, <2>2, <2>3
<1>4. ASSUME NEW r \in patches, PatchRead(r) PROVE q = p
  <2> DEFINE answered == [r EXCEPT !.read = log]
  <2>1. answered.sub = r.sub /\ answered.writes = r.writes
    BY <1>0 DEF Patches
  <2>2. \A x \in patches' : x \in patches \ {r} \/ x = answered
    BY <1>4 DEF PatchRead
  <2> HIDE DEF answered
  <2> QED
    BY <1>0, <2>1, <2>2
<1>5. ASSUME NEW s \in Subs, RefreshMark(s) PROVE q = p
  BY <1>2, <1>5 DEF RefreshMark
<1>6. ASSUME NEW r \in patches, Patched(r) PROVE q = p
  BY <1>2, <1>6 DEF Patched
<1>7. ASSUME NEW s \in Subs, Unsubscribe(s) PROVE q = p
  BY <1>1, <1>7 DEF Unsubscribe
<1>8. ASSUME NEW r \in patches, Unpatched(r) PROVE q = p
  BY <1>1, <1>8 DEF Unpatched
<1> QED
  BY <1>1, <1>3, <1>4, <1>5, <1>6, <1>7, <1>8, ZenonT(40)
  DEF Next, Publishing, Subscribing, Refreshing, Patching, Remotely, Begin, Commit, Publish, Subscribe, Enter,
      InitialRead, InitialMark, InitialRegister, Activate, SubscribeFails, RefreshInitially, RefreshRead,
      RefreshDone, RefreshFails, RequestRemoteRefresh, Resume, TimerFires, Granted, IntervalPasses

LEMMA OnceInvStep ==
  ASSUME Once, Next PROVE Once'
<1>1. Inv'
  BY InvStep DEF Once
<1>2. OnceInv'
  BY OnceRead, OnceRegister, OnceEntry, OncePatches, OneByOne DEF OnceInv, Within, WithinOf, PatchOk
<1> QED
  BY <1>1, <1>2 DEF Once

LEMMA OnceInit ==
  ASSUME Init PROVE Once
<1>1. \A s \in Subs : got[s] = None /\ entry[s].data = None /\ sub[s] = "new"
  BY DEF Init, NoEntry
<1>2. patches = {}
  BY DEF Init
<1> QED
  BY <1>1, <1>2, InitInv DEF Once, OnceInv

LEMMA OnceStutter ==
  ASSUME Once, UNCHANGED vars PROVE Once'
<1>1. /\ got' = got /\ log' = log /\ sub' = sub /\ entry' = entry /\ patches' = patches
      /\ batch' = batch /\ startedAt' = startedAt /\ write' = write
  BY DEF vars, writeVars, subVars, batchVars
<1>2. \A p \in patches : PatchOk(p, write', log', batch', entry')
  <2>1. \A p \in patches : PatchOk(p, write, log, batch, entry)
    BY DEF Once, OnceInv, PatchOk
  <2> QED
    BY <1>1, <2>1
<1>3. ASSUME NEW s \in Subs
      PROVE  /\ got'[s] # None => Injective(got'[s]) /\ ToSet(got'[s]) \subseteq ToSet(log')
             /\ sub'[s] = "register" => WithinOf(got'[s], entry'[s].boundary, log', startedAt', batch')
             /\ entry'[s].data # None => WithinOf(entry'[s].data, entry'[s].boundary, log', startedAt', batch')
  BY <1>1 DEF Once, OnceInv, Within, WithinOf
<1>4. OnceInv'
  BY <1>1, <1>2, <1>3 DEF Once, OnceInv, Within, WithinOf, PatchOk
<1> QED
  BY <1>4, InvStutter DEF Once

LEMMA OnceInvariance == Spec => []Once
<1>1. Once /\ [Next]_vars => Once'
  BY OnceInvStep, OnceStutter
<1> QED
  BY OnceInit, <1>1, PTL DEF Spec

(* No write is ever applied twice to what a subscriber was given, whatever publications, reads,
   patches and refreshes cross. *)
THEOREM WritesAppliedOnce == Spec => []AppliedOnce
<1>1. Once => AppliedOnce
  <2> SUFFICES ASSUME Once, NEW s \in Subscribed, client[s] # None PROVE IsInjective(client[s])
    BY DEF AppliedOnce
  <2>1. client[s] = entry[s].data /\ s \in Subs
    BY DEF Once, Inv, PlaceInv, Subscribed
  <2>2. Injective(entry[s].data)
    BY <2>1 DEF Once, OnceInv, Within
  <2> QED
    BY <2>1, <2>2 DEF IsInjective, Injective
<1> QED
  BY OnceInvariance, <1>1, PTL

-----------------------------------------------------------------------------
(* Nothing is missed *)

Full == Once /\ CurrentInv

(* Who resolves arguments or has an entry is listened for, as nobody leaves meanwhile. *)
LEMMA AttachStep ==
  ASSUME ~ Overlapping, Full, Next, NEW n \in Subs,
         sub'[n] \in {"args", "query", "mark", "register", "entered", "active"}
  PROVE  attached'
<1> DEFINE Heard(place) == place \in {"args", "query", "mark", "register", "entered", "active"}
<1>0. /\ sub \in [Subs -> {"new", "args", "query", "mark", "register", "entered", "active", "gone"}]
      /\ Heard(sub[n]) => attached
  BY DEF Full, CurrentInv, AttachInv, Entered, Once, Inv, RealtimeTypeOK, SubTypes
<1>1. ASSUME NEW s \in Subs, Subscribe(s) PROVE attached'
  BY <1>1 DEF Subscribe
<1>2. ASSUME NEW s \in Subs, Enter(s) \/ InitialRead(s) \/ InitialMark(s) \/ InitialRegister(s) \/ Activate(s)
      PROVE  attached'
  BY <1>0, <1>2 DEF Enter, InitialRead, InitialMark, InitialRegister, Activate
<1>3. ASSUME NEW s \in Subs, SubscribeFails(s) \/ Unsubscribe(s) PROVE attached'
  <2>1. /\ sub' = [sub EXCEPT ![s] = "gone"] /\ attached' = Detached(sub')
        /\ \A t \in Subs \ {s} : sub[t] # "args"
    BY <1>3 DEF SubscribeFails, Unsubscribe
  <2>2. n # s /\ sub'[n] = sub[n] /\ sub'[n] # "args"
    BY <1>0, <2>1
  <2> QED
    BY <1>0, <2>1, <2>2 DEF Detached
<1>4. CASE UNCHANGED <<sub, attached>>
  BY <1>0, <1>4
<1> QED
  BY <1>1, <1>2, <1>3, <1>4
  DEF Next, Publishing, Subscribing, Refreshing, Patching, Remotely, Begin, Commit, Publish, RefreshInitially,
      RefreshRead, RefreshMark, RefreshDone, RefreshFails, RequestRemoteRefresh, Resume, TimerFires, Granted,
      IntervalPasses, Flush, PatchRead, Patched, Unpatched, subVars

(* FreshInv, of what a new entry's query returned. *)
Fresh(result, logged, written) ==
    /\ Len(result) <= Len(logged)
    /\ \A i \in DOMAIN logged :
         IF i <= Len(result) THEN logged[i] = result[i] ELSE written[logged[i]] = "committed"

Behindhand(s) ==
    \A i \in DOMAIN batch : batch[i].startedAt # None => batch[i].startedAt < entry[s].boundary

(* A new entry that is not stale has read what its table had when the last write was published. *)
LEMMA FreshStep ==
  ASSUME ~ Overlapping, Full, Next, NEW n \in Subs, n \notin stale', sub'[n] \in {"mark", "register"}
  PROVE  Fresh(got'[n], log', write') /\ (sub'[n] = "register" => Behindhand(n)')
<1> DEFINE Goal == Fresh(got'[n], log', write') /\ (sub'[n] = "register" => Behindhand(n)')
<1>0. /\ sub \in [Subs -> {"new", "args", "query", "mark", "register", "entered", "active", "gone"}]
      /\ sub[n] \in {"mark", "register"} /\ n \notin stale => Fresh(got[n], log, write)
      /\ sub[n] = "register" /\ n \notin stale => Behindhand(n)
      /\ sub[n] \in {"query", "mark", "register"} => attached
      /\ refresh[n].at # "none" => sub[n] \in {"entered", "active", "gone"}
      /\ \A p \in patches : p.sub \in Subs /\ sub[p.sub] \in {"entered", "active"}
      /\ log \in Seq(Writes) /\ DOMAIN log = 1 .. Len(log) /\ Len(log) \in Nat
      /\ write \in [Writes -> {"idle", "begun", "committed", "published"}]
      /\ entry \in [Subs -> [data : Maybe, boundary : Nat, failed : BOOLEAN]] /\ got \in [Subs -> Maybe]
      /\ \A i \in DOMAIN log : log[i] \in Writes /\ write[log[i]] \in {"committed", "published"}
  <2>1. log \in Seq(Writes) /\ WriteInv
    BY DEF Full, Once, Inv, RealtimeTypeOK, WriteTypes, Results
  <2>2. /\ DOMAIN log = 1 .. Len(log) /\ Len(log) \in Nat
        /\ \A i \in DOMAIN log : log[i] \in Writes /\ log[i] \in ToSet(log)
    BY <2>1, ElementOfSeq DEF ToSet
  <2> QED
    BY <2>1, <2>2
    DEF Full, CurrentInv, AttachInv, Entered, FreshInv, Fresh, Behindhand, Once, Inv, RealtimeTypeOK,
        SubTypes, EntryTypes, WriteTypes, PlaceInv, WriteInv
<1> USE DEF Fresh, Behindhand
<1>1. ASSUME NEW w \in Local, Begin(w) PROVE Goal
  <2>1. \A i \in DOMAIN log : write'[log[i]] = write[log[i]]
    BY <1>0, <1>1 DEF Begin, Writes
  <2> QED
    BY <1>0, <1>1, <2>1 DEF Begin, subVars, batchVars
<1>2. ASSUME NEW w \in Writes, Commit(w) PROVE Goal
  <2>1. /\ Len(log') = Len(log) + 1 /\ DOMAIN log' = 1 .. Len(log) + 1 /\ log'[Len(log) + 1] = w
        /\ \A i \in DOMAIN log : log'[i] = log[i] /\ write'[w] = "committed"
        /\ \A i \in DOMAIN log : write[log[i]] = "committed" => write'[log[i]] = "committed"
    BY <1>0, <1>2, AppendProperties DEF Commit
  <2> QED
    BY <1>0, <1>2, <2>1 DEF Commit, subVars, batchVars
<1>3. ASSUME NEW w \in Writes, Publish(w) PROVE Goal
  <2>1. sub' = sub
    BY <1>3 DEF Publish
  <2>2. attached /\ n \in stale'
    BY <1>0, <1>3, <2>1 DEF Publish, Notify
  <2> QED
    BY <2>2
<1>4. ASSUME NEW s \in Subs, InitialRead(s) PROVE Goal
  BY <1>0, <1>4 DEF InitialRead, writeVars, batchVars
<1>5. ASSUME NEW s \in Subs, InitialMark(s) PROVE Goal
  <2>1. CASE s # n
    BY <1>0, <1>5, <2>1 DEF InitialMark, batchVars
  <2>2. CASE s = n
    <3>1. /\ entry'[n].boundary = publications.sequence + 1 /\ UNCHANGED <<log, write, batch, got, stale>>
          /\ sub[n] = "mark"
      BY <1>0, <1>5, <2>2, BoundaryIs DEF InitialMark, batchVars, Full, Once, Inv, RealtimeTypeOK, WriteTypes
    <3>2. /\ publications.sequence \in Nat
          /\ \A i \in DOMAIN batch : batch[i].startedAt \in Nat \cup {None}
          /\ \A i \in DOMAIN batch : batch[i].startedAt # None => batch[i].startedAt <= publications.sequence
      BY BatchIs, SequenceStep DEF Full, Once, Inv, WriteInv, RealtimeTypeOK, EntryTypes
    <3> QED
      BY <1>0, <3>1, <3>2
  <2> QED
    BY <2>1, <2>2
<1>6. ASSUME NEW s \in Subs, InitialRegister(s) \/ SubscribeFails(s) PROVE Goal
  <2>1. s # n /\ sub[n] = sub'[n] /\ n \notin stale
    BY <1>0, <1>6 DEF InitialRegister, SubscribeFails
  <2>2. UNCHANGED <<log, write, got, batch>> /\ entry'[n].boundary = entry[n].boundary
    BY <1>0, <1>6, <2>1 DEF InitialRegister, SubscribeFails, writeVars, batchVars
  <2> QED
    BY <1>0, <2>1, <2>2
<1>7. ASSUME NEW s \in Subs, Unsubscribe(s) PROVE Goal
  <2>1. s # n /\ sub[n] = sub'[n]
    BY <1>0, <1>7 DEF Unsubscribe
  <2> QED
    BY <1>0, <1>7, <2>1 DEF Unsubscribe, writeVars, batchVars
<1>8. ASSUME NEW s \in Subs, Subscribe(s) \/ Enter(s) \/ Activate(s) PROVE Goal
  <2>1. /\ UNCHANGED <<log, write, got, batch, stale>> /\ entry'[n].boundary = entry[n].boundary
        /\ s # n /\ sub'[n] = sub[n]
    BY <1>0, <1>8 DEF Subscribe, Enter, Activate, writeVars, batchVars
  <2> QED
    BY <1>0, <2>1
<1>9. ASSUME NEW s \in Subs, RefreshRead(s) \/ RefreshMark(s) \/ RefreshFails(s) PROVE Goal
  <2>1. UNCHANGED <<log, write, batch, sub, stale>> /\ s # n
    BY <1>0, <1>9 DEF RefreshRead, RefreshMark, RefreshFails, writeVars, subVars, batchVars
  <2>2. got'[n] = got[n] /\ entry'[n].boundary = entry[n].boundary
    BY <1>0, <1>9, <2>1 DEF RefreshRead, RefreshMark, RefreshFails
  <2> QED
    BY <1>0, <2>1, <2>2
<1>10. CASE Flush
  BY <1>0, <1>10 DEF Flush, writeVars, subVars
<1>11. ASSUME NEW p \in patches, Patched(p) PROVE Goal
  <2>1. UNCHANGED <<log, write, batch, sub, stale, got>> /\ p.sub # n
    BY <1>0, <1>11 DEF Patched, subVars, batchVars
  <2>2. \E r, b : entry' = [entry EXCEPT ![p.sub].data = r, ![p.sub].boundary = b]
    BY <1>11 DEF Patched
  <2>3. entry'[n].boundary = entry[n].boundary
    BY <1>0, <2>1, <2>2
  <2> QED
    BY <1>0, <2>1, <2>3
<1>12. CASE UNCHANGED <<log, write, batch, sub, stale, got, entry>>
  BY <1>0, <1>12
<1> QED
  BY <1>1, <1>2, <1>3, <1>4, <1>5, <1>6, <1>7, <1>8, <1>9, <1>10, <1>11, <1>12
  DEF Next, Publishing, Subscribing, Refreshing, Patching, Remotely, RefreshInitially, RefreshDone,
      RequestRemoteRefresh, Resume, TimerFires, Granted, IntervalPasses, PatchRead, Unpatched, writeVars,
      subVars, batchVars

(* What was asked for is done, or asked for otherwise, until the entry is refreshed. *)
LEMMA AskedStep ==
  ASSUME Inv, Next, NEW n \in Subs, n \in indexed, n \in indexed', Asked(n)
  PROVE  Asked(n)' \/ refresh'[n].at = "query"
<1> DEFINE Goal == Asked(n)' \/ refresh'[n].at = "query"
<1>0. /\ refresh \in Refreshes /\ remote \in Places /\ n \in Entered
      /\ Asked(n)
  BY CountedNow DEF Inv, PlaceInv, Entered
<1> USE DEF Asked
<1>1. ASSUME NEW e, refresh' = Scheduled(e), n \in e PROVE Goal
  BY <1>0, <1>1, ScheduledIs
<1>2. ASSUME refresh[n].pending, refresh' = refresh \/ \E e : refresh' = Scheduled(e) PROVE Goal
  BY <1>0, <1>2, ScheduledIs
<1>3. ASSUME NEW others \in Places, ReleaseSlot(others), others[n] # "none" PROVE remote'[n] # "none"
  BY <1>3 DEF ReleaseSlot, Places
<1>4. ASSUME NEW s \in Subs, InitialRegister(s) PROVE Goal
  BY <1>0, <1>4 DEF InitialRegister, remoteVars
<1>5. ASSUME NEW s \in Subs, RefreshInitially(s) PROVE Goal
  BY <1>0, <1>1, <1>2, <1>5 DEF RefreshInitially, remoteVars
<1>6. ASSUME NEW s \in Subs, RefreshRead(s) \/ RefreshFails(s) \/ RefreshMark(s) PROVE Goal
  BY <1>0, <1>6 DEF RefreshRead, RefreshFails, RefreshMark, remoteVars, subVars, Refreshes
<1>7. ASSUME NEW s \in Subs, RefreshDone(s) PROVE Goal
  <2>1. refresh[n].pending => refresh'[n].pending \/ refresh'[n].at = "query"
    BY <1>0, <1>7 DEF RefreshDone, Refreshes
  <2>2. remote[n] # "none" => remote'[n] # "none"
    BY <1>0, <1>3, <1>7 DEF RefreshDone
  <2> QED
    BY <1>0, <1>7, <2>1, <2>2 DEF RefreshDone, subVars
<1>8. ASSUME NEW s \in Subs, RequestRemoteRefresh(s) \/ Resume(s) \/ TimerFires(s) PROVE Goal
  <2>1. UNCHANGED <<requested, refresh>>
    BY <1>8 DEF RequestRemoteRefresh, Resume, TimerFires, subVars
  <2>2. CASE n # s
    <3>1. (n \in asked => n \in asked') /\ (n \in timers => n \in timers') /\ remote'[n] = remote[n]
      BY <1>0, <1>8, <2>2 DEF RequestRemoteRefresh, Resume, TimerFires, RefreshRemote, Places
    <3> QED
      BY <1>0, <2>1, <3>1
  <2>3. CASE n = s
    <3>1. RefreshRemote(n, remote) => remote'[n] # "none"
      BY <1>0 DEF RefreshRemote, Places
    <3>2. n \in asked' \cup timers' \/ remote'[n] # "none"
      BY <1>8, <2>3, <3>1 DEF RequestRemoteRefresh, Resume, TimerFires
    <3> QED
      BY <3>2
  <2> QED
    BY <2>2, <2>3
<1>9. ASSUME NEW s \in Subs, Granted(s) PROVE Goal
  <2> DEFINE others == [remote EXCEPT ![s] = "none"]
  <2>1. UNCHANGED <<requested, asked, timers>> /\ refresh' = Scheduled({s} \cap Entered)
        /\ (remote' = others \/ ReleaseSlot(others))
    BY <1>9 DEF Granted, subVars
  <2>2. CASE n = s
    BY <1>0, <1>1, <2>1, <2>2
  <2>3. CASE n # s
    <3>1. others \in Places /\ others[n] = remote[n]
      BY <1>0, <2>3 DEF Places
    <3>2. remote[n] # "none" => remote'[n] # "none"
      BY <1>3, <2>1, <3>1
    <3> QED
      BY <1>0, <1>2, <2>1, <3>2
  <2> QED
    BY <2>2, <2>3
<1>10. CASE Flush
  <2>1. UNCHANGED <<requested, timers, remote>> /\ asked \subseteq asked' /\ \E e : refresh' = Scheduled(e)
    BY <1>10 DEF Flush, subVars
  <2> QED
    BY <1>0, <1>2, <2>1
<1>11. ASSUME NEW p \in patches, Unpatched(p) PROVE Goal
  BY <1>0, <1>2, <1>11 DEF Unpatched, subVars, remoteVars
<1>12. ASSUME NEW s \in Subs, Unsubscribe(s) PROVE Goal
  BY <1>0, <1>12 DEF Unsubscribe
<1>13. CASE UNCHANGED <<requested, asked, timers, remote, refresh>>
  BY <1>0, <1>13
<1> QED
  BY <1>4, <1>5, <1>6, <1>7, <1>8, <1>9, <1>10, <1>11, <1>12, <1>13
  DEF Next, Publishing, Subscribing, Refreshing, Patching, Remotely, Begin, Commit, Publish, Subscribe, Enter,
      InitialRead, InitialMark, Activate, SubscribeFails, IntervalPasses, PatchRead, Patched, remoteVars,
      subVars

(* An entry is refreshed until its query fails or its result is delivered. *)
LEMMA BusyStep ==
  ASSUME Inv, Next, NEW n \in Subs, n \in indexed, refresh[n].at \in {"query", "mark"},
         refresh'[n].at \notin {"query", "mark"}
  PROVE  RefreshFails(n) \/ RefreshMark(n)
<1>0. refresh \in Refreshes /\ n \in Entered
  BY CountedNow DEF Inv, PlaceInv, Entered
<1>1. ASSUME NEW e, refresh' = Scheduled(e) PROVE FALSE
  BY <1>0, <1>1, ScheduledIs
<1>2. ASSUME NEW s \in Subs, RefreshRead(s) PROVE FALSE
  BY <1>0, <1>2 DEF RefreshRead, Refreshes
<1>3. ASSUME NEW s \in Subs, RefreshMark(s) \/ RefreshFails(s) PROVE s = n
  BY <1>0, <1>3 DEF RefreshMark, RefreshFails, Refreshes
<1>4. ASSUME NEW s \in Subs, RefreshDone(s) PROVE FALSE
  BY <1>0, <1>4 DEF RefreshDone, Refreshes
<1>5. CASE UNCHANGED refresh
  BY <1>5
<1> QED
  BY <1>1, <1>2, <1>3, <1>4, <1>5, ZenonT(40)
  DEF Next, Publishing, Subscribing, Refreshing, Patching, Remotely, Begin, Commit, Publish, Subscribe, Enter,
      InitialRead, InitialMark, InitialRegister, Activate, SubscribeFails, Unsubscribe, RefreshInitially,
      RequestRemoteRefresh, Resume, TimerFires, Granted, IntervalPasses, Flush, PatchRead, Patched, Unpatched

(* A write published while somebody has an entry goes to the batch. *)
LEMMA PublishStep ==
  ASSUME Full, NEW n \in indexed, NEW w \in Writes, Publish(w)
  PROVE  /\ attached /\ publications' = Recorded
         /\ Notify(w, IF w \in Local /\ Ordered(w) THEN startedAt[w] ELSE None)
         /\ IF w \in Local THEN remoteBatch' = remoteBatch /\ Len(batch') = Len(batch) + 1 /\ batch' # <<>>
            ELSE remoteBatch' /\ batch' = batch
<1>1. attached /\ n \in Entered /\ startedAt \in [Local -> Nat \cup {None}] /\ batch \in Seq(Events)
      /\ remoteBatch \in BOOLEAN
  BY DEF Full, CurrentInv, AttachInv, Once, Inv, PlaceInv, Entered, RealtimeTypeOK, WriteTypes, EntryTypes
<1> DEFINE began == IF w \in Local /\ Ordered(w) THEN startedAt[w] ELSE None
<1>2. publications' = Recorded /\ Notify(w, began) /\ began \in Nat \cup {None}
  BY <1>1 DEF Publish
<1> HIDE DEF began
<1>3. CASE w \in Local
  <2>1. Len(batch') = Len(batch) + 1 /\ Len(batch) \in Nat
    BY <1>1, <1>2, <1>3, NotifyIs, BatchIs
  <2>2. remoteBatch' = remoteBatch
    BY <1>1, <1>2, <1>3 DEF Notify
  <2>3. batch' # <<>>
    BY <2>1
  <2> QED
    BY <1>1, <1>2, <1>3, <2>1, <2>2, <2>3 DEF began
<1>4. CASE w \notin Local
  <2>1. w \in Remote
    BY <1>4 DEF Writes
  <2> QED
    BY <1>1, <1>2, <1>4, <2>1 DEF Notify, began
<1> QED
  BY <1>3, <1>4

LEMMA CommittedStep ==
  ASSUME Inv, Next, NEW w \in Committed, w \notin Committed'
  PROVE  Publish(w)
<1>0. /\ write \in [Writes -> {"idle", "begun", "committed", "published"}] /\ w \in Writes
      /\ write[w] = "committed"
  BY DEF Inv, RealtimeTypeOK, WriteTypes, Committed
<1> USE DEF Committed
<1>1. ASSUME NEW v \in Local, Begin(v) PROVE FALSE
  BY <1>0, <1>1 DEF Begin
<1>2. ASSUME NEW v \in Writes, Commit(v) PROVE FALSE
  BY <1>0, <1>2 DEF Commit
<1>3. ASSUME NEW v \in Writes, Publish(v) PROVE v = w
  BY <1>0, <1>3 DEF Publish
<1>4. CASE UNCHANGED write
  BY <1>0, <1>4
<1>5. CASE WritesKept
  BY <1>4, <1>5 DEF WritesKept
<1> QED
  BY <1>1, <1>2, <1>3, <1>5, Frames

(* What waits for the batch timer stays until the timer fires. *)
LEMMA BatchStep ==
  ASSUME Inv, Next, ~ Flush
  PROVE  (batch # <<>> => batch' # <<>>) /\ (remoteBatch => remoteBatch')
<1>0. batch \in Seq(Events) /\ startedAt \in [Local -> Nat \cup {None}]
  BY DEF Inv, RealtimeTypeOK, WriteTypes, EntryTypes
<1>1. ASSUME NEW w \in Writes, Publish(w)
      PROVE  (batch # <<>> => batch' # <<>>) /\ (remoteBatch => remoteBatch')
  <2> DEFINE began == IF w \in Local /\ Ordered(w) THEN startedAt[w] ELSE None
  <2>1. began \in Nat \cup {None}
    BY <1>0
  <2> HIDE DEF began
  <2>2. ASSUME Notify(w, began) PROVE batch # <<>> => batch' # <<>>
    BY <1>0, <2>1, <2>2, NotifyIs, BatchIs
  <2> QED
    BY <1>1, <2>2 DEF Publish, Notify, batchVars, began
<1>2. CASE UNCHANGED <<batch, remoteBatch>>
  BY <1>2
<1>3. UNCHANGED <<batch, remoteBatch>> \/ \E w \in Writes : Publish(w)
  BY Frames DEF Begin, Commit, WritesKept, batchVars
<1> QED
  BY <1>1, <1>2, <1>3

(* The timer leaves an entry to be patched, or to be refreshed. *)
LEMMA FlushStep ==
  ASSUME Inv, Flush, NEW n \in indexed
  PROVE  /\ batch' = <<>> /\ ~ remoteBatch' /\ (remoteBatch => n \in asked')
         /\ (~ remoteBatch => batch # <<>>)
         /\ batch # <<>> /\ ~ Patchable(n, batch) => refresh'[n].pending \/ refresh'[n].at = "query"
         /\ refresh[n].at # "none" => refresh'[n].at = refresh[n].at
<1> DEFINE tried == {s \in indexed : batch # <<>> /\ Patchable(s, batch)}
           left == IF batch = <<>> THEN {} ELSE indexed \ tried
<1>1. /\ batch' = <<>> /\ remoteBatch' = FALSE /\ (batch # <<>> \/ remoteBatch)
      /\ asked' = IF remoteBatch THEN asked \cup indexed ELSE asked
      /\ refresh' = Scheduled(left)
  BY DEF Flush
<1>2. n \in Subs /\ refresh \in Refreshes
  BY CountedNow DEF Inv, RealtimeTypeOK, SubTypes
<1>3. batch # <<>> /\ ~ Patchable(n, batch) => n \in left
  OBVIOUS
<1> HIDE DEF left
<1> QED
  BY <1>1, <1>2, <1>3, ScheduledIs

LEMMA MarkStep ==
  ASSUME Full, Next, NEW n \in Subs, n \in indexed', refresh'[n].at = "mark"
  PROVE  got'[n] = log' \/ Committed' # {} \/ batch' # <<>> \/ remoteBatch' \/ Asked(n)'
<1> DEFINE Goal == got'[n] = log' \/ Committed' # {} \/ batch' # <<>> \/ remoteBatch' \/ Asked(n)'
<1>0. /\ Inv /\ refresh \in Refreshes /\ got \in [Subs -> Maybe]
      /\ write \in [Writes -> {"idle", "begun", "committed", "published"}]
      /\ n \in indexed /\ refresh[n].at = "mark" =>
            got[n] = log \/ Committed # {} \/ batch # <<>> \/ remoteBatch \/ Asked(n)
      /\ sub[n] \notin {"entered", "active", "gone"} => refresh[n].at = "none"
      /\ indexed = {s \in Subs : sub[s] \in {"entered", "active"}}
  BY CountedNow DEF Full, CurrentInv, MarkInv, Once, Inv, RealtimeTypeOK, WriteTypes, EntryTypes, PlaceInv
<1>1. ASSUME NEW s \in Subs, RefreshRead(s), refresh[n].at # "mark" PROVE Goal
  <2>1. s = n
    BY <1>0, <1>1 DEF RefreshRead, Refreshes
  <2> QED
    BY <1>0, <1>1, <2>1 DEF RefreshRead, writeVars, Refreshes
<1>2. refresh[n].at = "mark" \/ \E s \in Subs : RefreshRead(s)
  <2>1. ASSUME NEW e, refresh' = Scheduled(e) PROVE refresh[n].at = "mark"
    BY <1>0, <2>1, ScheduledIs
  <2>2. ASSUME NEW s \in Subs, RefreshMark(s) \/ RefreshFails(s) \/ RefreshDone(s)
        PROVE  refresh[n].at = "mark"
    BY <1>0, <2>2 DEF RefreshMark, RefreshFails, RefreshDone, Refreshes
  <2>3. CASE UNCHANGED refresh
    BY <2>3
  <2>4. ASSUME NEW w \in Writes, Begin(w) \/ Commit(w) PROVE UNCHANGED refresh
    BY <2>4 DEF Begin, Commit
  <2>5. ASSUME NEW w \in Writes, Publish(w) PROVE UNCHANGED refresh \/ \E e : refresh' = Scheduled(e)
    BY <2>5 DEF Publish
  <2>6. ASSUME NEW s \in Subs, Subscribe(s) \/ Subscribing(s)
        PROVE  UNCHANGED refresh \/ \E e : refresh' = Scheduled(e)
    BY <2>6 DEF Subscribing, Subscribe, Enter, InitialRead, InitialMark, InitialRegister, Activate
  <2>7. ASSUME NEW s \in Subs, SubscribeFails(s) \/ Unsubscribe(s) \/ IntervalPasses(s)
        PROVE  UNCHANGED refresh \/ \E e : refresh' = Scheduled(e)
    BY <2>7 DEF SubscribeFails, Unsubscribe, IntervalPasses
  <2>8. ASSUME NEW s \in Subs, RefreshInitially(s) \/ Remotely(s)
        PROVE  UNCHANGED refresh \/ \E e : refresh' = Scheduled(e)
    BY <2>8 DEF RefreshInitially, Remotely, RequestRemoteRefresh, Resume, TimerFires, Granted
  <2>9. CASE Flush
    BY <2>1, <2>3, <2>9 DEF Flush
  <2>10. ASSUME NEW p \in patches, PatchRead(p) \/ Patched(p) \/ Unpatched(p)
         PROVE  UNCHANGED refresh \/ \E e : refresh' = Scheduled(e)
    BY <2>10 DEF PatchRead, Patched, Unpatched
  <2> QED
    BY <2>1, <2>2, <2>3, <2>4, <2>5, <2>6, <2>7, <2>8, <2>9, <2>10
    DEF Next, Publishing, Refreshing, Patching, Writes
<1>3. CASE refresh[n].at = "mark"
  <2>1. n \in indexed
    <3>1. sub'[n] \in {"entered", "active"}
      BY <1>0, SubStep
    <3>2. sub[n] # "gone"
      <4>1. sub[n] = "gone" => sub'[n] = "gone"
        <5>1. ASSUME NEW s \in Subs, \/ Subscribe(s) \/ Subscribing(s) \/ SubscribeFails(s)
                                     \/ Unsubscribe(s)
              PROVE  sub[n] = "gone" => sub'[n] = "gone"
          BY <1>0, <5>1
          DEF Subscribing, Subscribe, Enter, InitialRead, InitialMark, InitialRegister, Activate,
              SubscribeFails, Unsubscribe, Inv, RealtimeTypeOK, SubTypes
        <5>2. CASE UNCHANGED sub
          BY <5>2
        <5>3. ASSUME NEW w \in Writes, Begin(w) \/ Commit(w) \/ Publish(w) PROVE UNCHANGED sub
          BY <5>3 DEF Begin, Commit, Publish, subVars
        <5>4. ASSUME NEW s \in Subs, Refreshing(s) \/ RefreshFails(s) \/ Remotely(s) \/ IntervalPasses(s)
              PROVE  UNCHANGED sub
          <6>1. ASSUME RefreshFails(s) \/ IntervalPasses(s) PROVE UNCHANGED sub
            BY <6>1 DEF RefreshFails, IntervalPasses, subVars
          <6>2. ASSUME Refreshing(s) PROVE UNCHANGED sub
            BY <6>2 DEF Refreshing, RefreshInitially, RefreshRead, RefreshMark, RefreshDone, subVars
          <6>3. ASSUME Remotely(s) PROVE UNCHANGED sub
            BY <6>3 DEF Remotely, RequestRemoteRefresh, Resume, TimerFires, Granted, subVars
          <6> QED
            BY <5>4, <6>1, <6>2, <6>3
        <5>5. ASSUME NEW p \in patches, PatchRead(p) \/ Patched(p) \/ Unpatched(p) PROVE UNCHANGED sub
          BY <5>5 DEF PatchRead, Patched, Unpatched, subVars
        <5>6. CASE Flush
          BY <5>6 DEF Flush, subVars
        <5> QED
          BY <5>1, <5>2, <5>3, <5>4, <5>5, <5>6 DEF Next, Publishing, Patching, Writes
      <4> QED
        BY <3>1, <4>1
    <3> QED
      BY <1>0, <1>3, <3>2
  <2>2. CASE Asked(n)
    BY <1>0, <2>1, <2>2, AskedStep
  <2>3. ASSUME NEW w \in Writes, Publish(w) PROVE Goal
    BY <2>1, <2>3, PublishStep
  <2>4. CASE Committed # {} /\ ~ \E w \in Writes : Publish(w)
    BY <1>0, <2>4, CommittedStep DEF Committed
  <2>5. CASE Flush
    <3>1. ~ Patchable(n, batch)
      BY <1>3 DEF Patchable
    <3> QED
      BY <1>0, <2>1, <2>5, <3>1, FlushStep DEF Asked
  <2>6. CASE (batch # <<>> \/ remoteBatch) /\ ~ Flush
    BY <1>0, <2>6, BatchStep
  <2>7. ASSUME NEW w \in Writes, Commit(w) PROVE Goal
    BY <1>0, <2>7 DEF Commit, Committed
  <2>8. CASE got[n] = log
    <3>1. ASSUME NEW s \in Subs, RefreshMark(s) PROVE Goal
      BY <1>0, <1>3, <2>8, <3>1 DEF RefreshMark, Refreshes
    <3>2. ASSUME NEW s \in Subs, RefreshRead(s) \/ InitialRead(s) PROVE Goal
      BY <1>0, <1>3, <2>8, <3>2 DEF RefreshRead, InitialRead, writeVars
    <3>3. CASE UNCHANGED <<got, log>>
      BY <2>8, <3>3
    <3>4. ASSUME NEW w \in Writes, Begin(w) \/ Publish(w) PROVE UNCHANGED <<got, log>>
      BY <3>4 DEF Begin, Publish
    <3>5. CASE WritesKept
      <4>1. CASE Reading
        BY <3>1, <3>2, <4>1 DEF Reading
      <4>2. CASE ~ Reading
        BY <3>3, <3>5, <4>2 DEF WritesKept
      <4> QED
        BY <4>1, <4>2
    <3> QED
      BY <2>7, <3>3, <3>4, <3>5, Frames DEF Writes
  <2> QED
    BY <1>0, <1>3, <2>1, <2>2, <2>3, <2>4, <2>5, <2>6, <2>8
<1> QED
  BY <1>1, <1>2, <1>3

-----------------------------------------------------------------------------
(* The log is what the result will be *)

(* What is calm after a step that is not the end of its refresh was so before, as far as its
   own refreshes are concerned. *)
LEMMA CalmBefore ==
  ASSUME Full, Next, NEW n \in indexed, Calm(n)', ~ RefreshMark(n)
  PROVE  ~ Asked(n) /\ refresh[n].at \notin {"query", "mark"}
<1>1. /\ n \in Subs /\ n \in indexed' /\ ~ Asked(n)' /\ refresh'[n].at \notin {"query", "mark"}
      /\ ~ entry'[n].failed
  BY DEF Calm, Full, Once, Inv, RealtimeTypeOK, SubTypes
<1>2. ~ RefreshFails(n)
  BY <1>1 DEF RefreshFails, Full, Once, Inv, RealtimeTypeOK, EntryTypes
<1> QED
  BY <1>1, <1>2, AskedStep, BusyStep DEF Full, Once

(* A step that leaves the writes, the batch and what an entry has leaves its line. *)
LEMMA LineFrame ==
  ASSUME Full, Next, NEW n \in indexed, Calm(n)', ~ RefreshMark(n),
         UNCHANGED <<log, write, startedAt, batch, remoteBatch>>, entry'[n] = entry[n],
         publications'.records = publications.records, publications'.prunedThrough = publications.prunedThrough,
         \A p : p \in patches' /\ p.sub = n <=> p \in patches /\ p.sub = n
  PROVE  Lined(n)'
<1>1. n \in Subs /\ ~ Asked(n) /\ refresh[n].at \notin {"query", "mark"}
  BY CalmBefore DEF Full, Once, Inv, RealtimeTypeOK, SubTypes
<1>2. Calm(n)
  BY <1>1 DEF Calm, Committed, Ordered, Fits
<1>3. Lined(n)
  BY <1>1, <1>2 DEF Full, CurrentInv, LineInv
<1>4. \A todo : Line(n, todo) => Line(n, todo)'
  BY DEF Line
<1> QED
  BY <1>3, <1>4 DEF Lined, Committed

(* A position of a part is one of the whole. *)
LEMMA PartPosition ==
  ASSUME NEW a \in Nat, NEW b \in Nat, NEW d \in Nat, NEW i \in 1 .. b, a + b <= d
  PROVE  a + i \in 1 .. d
OBVIOUS

(* Lengths of what lines are made of. *)
LEMMA LineIs ==
  ASSUME Full, NEW n \in indexed
  PROVE  /\ n \in Subs /\ Len(log) \in Nat /\ DOMAIN log = 1 .. Len(log)
         /\ \A i \in DOMAIN log : log[i] \in Writes /\ write[log[i]] \in {"committed", "published"}
         /\ \A i, j \in DOMAIN log : log[i] = log[j] => i = j
         /\ \A w \in Committed : \E i \in DOMAIN log : log[i] = w
         /\ entry[n].data \in Results /\ Len(entry[n].data) \in Nat
         /\ DOMAIN entry[n].data = 1 .. Len(entry[n].data)
         /\ Len(batch) \in Nat /\ DOMAIN batch = 1 .. Len(batch)
         /\ \A p \in patches :
              p.writes \in Results /\ Len(p.writes) \in Nat /\ DOMAIN p.writes = 1 .. Len(p.writes)
<1>1. /\ n \in Subs /\ log \in Seq(Writes) /\ IsInjective(log) /\ entry[n].data \in Results
      /\ batch \in Seq(Events)
      /\ \A p \in patches : p.writes \in Results
      /\ WriteInv
  BY DEF Full, Once, Inv, RealtimeTypeOK, WriteTypes, SubTypes, EntryTypes, PlaceInv, Results, Maybe, Patches
<1>2. /\ Len(log) \in Nat /\ DOMAIN log = 1 .. Len(log) /\ ToSet(log) = {log[i] : i \in DOMAIN log}
      /\ \A i \in DOMAIN log : log[i] \in Writes
  BY <1>1, ElementOfSeq DEF ToSet
<1>3. \A i \in DOMAIN log : write[log[i]] \in {"committed", "published"}
  BY <1>1, <1>2 DEF WriteInv
<1>4. \A w \in Committed : \E i \in DOMAIN log : log[i] = w
  BY <1>1, <1>2 DEF WriteInv, Committed
<1>5. \A i, j \in DOMAIN log : log[i] = log[j] => i = j
  BY <1>1 DEF IsInjective
<1>6. \A x \in Results : Len(x) \in Nat /\ DOMAIN x = 1 .. Len(x)
  BY DEF Results
<1> QED
  BY <1>1, <1>2, <1>3, <1>4, <1>5, <1>6, BatchIs

LEMMA LineBegin ==
  ASSUME Full, Next, NEW n \in indexed, Calm(n)', NEW w \in Local, Begin(w)
  PROVE  Lined(n)'
<1>0. /\ write \in [Writes -> {"idle", "begun", "committed", "published"}] /\ w \in Writes
      /\ startedAt \in [Local -> Nat \cup {None}]
  BY DEF Full, Once, Inv, RealtimeTypeOK, WriteTypes, Writes
<1>1. /\ write[w] = "idle" /\ write' = [write EXCEPT ![w] = "begun"]
      /\ \A v \in Local \ {w} : startedAt'[v] = startedAt[v]
      /\ UNCHANGED <<log, publications, entry, batch, remoteBatch, patches, indexed, refresh>>
      /\ ~ RefreshMark(n)
  <2>1. refresh[n].at = "mark" => refresh'[n].at = "mark"
    BY DEF Begin
  <2>2. ~ RefreshMark(n)
    BY <1>0, <2>1 DEF RefreshMark, Begin
  <2> QED
    BY <1>0, <2>2 DEF Begin, batchVars, subVars
<1>2. Committed' = Committed /\ w \notin Committed
  BY <1>0, <1>1 DEF Committed
<1>3. Calm(n)
  BY <1>1, <1>2, CalmBefore DEF Calm, Ordered, Fits
<1>4. Lined(n) /\ n \in Subs
  BY <1>3, LineIs DEF Full, CurrentInv, LineInv
<1>5. \A i \in DOMAIN log : write'[log[i]] = write[log[i]]
  BY <1>0, <1>1, LineIs
<1>6. \A todo : Line(n, todo) => Line(n, todo)'
  BY <1>1, <1>5 DEF Line
<1> QED
  BY <1>1, <1>2, <1>4, <1>6 DEF Lined

LEMMA LineCommit ==
  ASSUME Full, Next, NEW n \in indexed, Calm(n)', NEW w \in Writes, Commit(w)
  PROVE  Lined(n)'
<1>0. /\ write \in [Writes -> {"idle", "begun", "committed", "published"}] /\ log \in Seq(Writes)
  BY DEF Full, Once, Inv, RealtimeTypeOK, WriteTypes, Results
<1>1. /\ write[w] # "committed" /\ write' = [write EXCEPT ![w] = "committed"] /\ log' = Append(log, w)
      /\ UNCHANGED <<startedAt, publications, entry, batch, remoteBatch, patches, indexed, refresh>>
      /\ ~ RefreshMark(n)
  BY <1>0 DEF Commit, RefreshMark, batchVars, subVars
<1>2. Committed' = Committed \cup {w}
  BY <1>0, <1>1 DEF Committed
<1>3. Calm(n)
  BY <1>1, <1>2, CalmBefore DEF Calm, Ordered, Fits
<1>4. Lined(n)
  BY <1>3, LineIs DEF Full, CurrentInv, LineInv
<1>5. /\ Len(log) \in Nat /\ DOMAIN log = 1 .. Len(log) /\ Len(log') = Len(log) + 1
      /\ DOMAIN log' = 1 .. Len(log) + 1
      /\ log'[Len(log) + 1] = w /\ \A i \in 1 .. Len(log) : log'[i] = log[i]
  BY <1>0, <1>1, AppendProperties
<1>6. /\ write'[w] = "committed"
      /\ \A i \in DOMAIN log : write[log[i]] = "committed" => write'[log[i]] = "committed"
  BY <1>0, <1>1, LineIs
<1>7. ASSUME NEW todo \in Results, Line(n, todo) PROVE Line(n, todo)'
  <2> DEFINE result == entry[n].data
             done == Len(result) + Len(todo)
  <2>1. /\ Len(result) \in Nat /\ DOMAIN result = 1 .. Len(result) /\ Len(todo) \in Nat
        /\ DOMAIN todo = 1 .. Len(todo)
        /\ Len(batch) \in Nat /\ DOMAIN batch = 1 .. Len(batch)
    BY LineIs DEF Results
  <2>2. /\ done + Len(batch) <= Len(log)
        /\ \A i \in DOMAIN result : log[i] = result[i]
        /\ \A i \in DOMAIN todo : log[Len(result) + i] = todo[i]
        /\ \A i \in DOMAIN batch : log[done + i] = batch[i].write
        /\ \A i \in DOMAIN log : i > done + Len(batch) => write[log[i]] = "committed"
    BY <1>7 DEF Line
  <2>3. /\ done + Len(batch) <= Len(log')
        /\ \A i \in DOMAIN result : log'[i] = result[i]
        /\ \A i \in DOMAIN todo : log'[Len(result) + i] = todo[i]
        /\ \A i \in DOMAIN batch : log'[done + i] = batch[i].write
    <3>1. done + Len(batch) <= Len(log')
      BY <1>5, <2>1, <2>2
    <3>2. \A i \in DOMAIN result : log'[i] = result[i]
      <4>1. \A i \in DOMAIN result : i \in 1 .. Len(log)
        BY <1>5, <2>1, <2>2
      <4> QED
        BY <1>5, <2>2, <4>1
    <3>3. ASSUME NEW i \in DOMAIN todo PROVE log'[Len(result) + i] = todo[i]
      <4>1. /\ i \in 1 .. Len(todo) /\ Len(result) + Len(todo) <= Len(log)
            /\ Len(result) \in Nat /\ Len(todo) \in Nat /\ Len(log) \in Nat
        BY <1>5, <2>1, <2>2, <3>3
      <4>2. Len(result) + i \in 1 .. Len(log)
        BY <4>1, PartPosition
      <4>3. log[Len(result) + i] = todo[i]
        BY <2>2, <3>3
      <4> QED
        BY <1>5, <4>2, <4>3
    <3>4. ASSUME NEW i \in DOMAIN batch PROVE log'[done + i] = batch[i].write
      <4>1. /\ i \in 1 .. Len(batch) /\ done + Len(batch) <= Len(log)
            /\ done \in Nat /\ Len(batch) \in Nat /\ Len(log) \in Nat
        BY <1>5, <2>1, <2>2, <3>4
      <4>2. done + i \in 1 .. Len(log)
        BY <4>1, PartPosition
      <4>3. log[done + i] = batch[i].write
        BY <2>2, <3>4
      <4> QED
        BY <1>5, <4>2, <4>3
    <3> QED
      BY <3>1, <3>2, <3>3, <3>4
  <2>4. \A i \in DOMAIN log' : i > done + Len(batch) => write'[log'[i]] = "committed"
    BY <1>5, <1>6, <2>1, <2>2
  <2> QED
    BY <1>1, <2>3, <2>4 DEF Line
<1>8. <<>> \in Results /\ \A p \in patches : p.writes \in Results
  BY LineIs DEF Results
<1> QED
  BY <1>1, <1>2, <1>4, <1>7, <1>8 DEF Lined

(* The last publication is on record, and older than whatever is published after. *)
LEMMA RecordedLast ==
  ASSUME publications \in Publications, Len(publications.records) <= Retention
  PROVE  \E i \in DOMAIN Recorded.records : Recorded.records[i] = publications.sequence + 1
<1> DEFINE records == Append(publications.records, publications.sequence + 1)
<1>1. publications.sequence \in Nat /\ publications.records \in Seq(Nat)
  BY DEF Publications
<1>2. /\ records \in Seq(Nat) /\ Len(records) = Len(publications.records) + 1
      /\ Len(publications.records) \in Nat
      /\ records[Len(publications.records) + 1] = publications.sequence + 1
  BY <1>1, AppendProperties
<1> HIDE DEF records
<1>3. CASE Len(records) <= Retention
  <2>1. Recorded = [Boundary EXCEPT !.records = records]
    BY <1>3 DEF Recorded, records, Boundary
  <2>2. Recorded.records = records
    BY <2>1, BoundaryIs DEF Publications
  <2> QED
    BY <1>2, <2>2
<1>4. CASE ~ (Len(records) <= Retention)
  <2>1. Recorded.records = Tail(records)
    BY <1>4 DEF Recorded, records
  <2>2. /\ Len(records) \in Nat /\ Len(records) > 1 /\ records # <<>>
    BY <1>2, <1>4
  <2>3. /\ Tail(records) \in Seq(Nat) /\ Len(Tail(records)) = Len(records) - 1
        /\ \A i \in 1 .. Len(Tail(records)) : Tail(records)[i] = records[i + 1]
    BY <1>2, <2>2, HeadTailProperties
  <2>4. Len(records) - 1 \in DOMAIN Tail(records) /\ Tail(records)[Len(records) - 1] = records[Len(records)]
    BY <2>2, <2>3
  <2> QED
    BY <1>2, <2>1, <2>4
<1> QED
  BY <1>3, <1>4

(* Where an index of a line belongs, by the lengths of its result, its patch and the batch. *)
LEMMA Indices ==
  ASSUME NEW k \in Nat \ {0}, NEW a \in Nat, NEW b \in Nat, NEW c \in Nat
  PROVE  /\ k > a /\ k <= a + b => k - a \in 1 .. b /\ k = a + (k - a)
         /\ k > a + b + c \/ k \in 1 .. a \/ (k > a /\ k <= a + b) \/ (k > a + b /\ k <= a + b + c)
         /\ a + b \in Nat
OBVIOUS

LEMMA LastIndex ==
  ASSUME NEW length \in Nat, NEW a \in Nat, NEW k \in 1 .. length, k > a,
         \A i \in 1 .. length : i > a => i = k
  PROVE  k = a + 1 /\ length = k
<1>1. a + 1 \in 1 .. length /\ a + 1 > a /\ length \in 1 .. length /\ length > a
  OBVIOUS
<1> QED
  BY <1>1

(* A write published in order, with nothing else on its way, is the last one of the log. *)
LEMMA LinePublish ==
  ASSUME Full, Next, NEW n \in indexed, Calm(n)', NEW w \in Writes, Publish(w)
  PROVE  Lined(n)'
<1> DEFINE began == IF w \in Local /\ Ordered(w) THEN startedAt[w] ELSE None
<1>0. /\ write \in [Writes -> {"idle", "begun", "committed", "published"}]
      /\ startedAt \in [Local -> Nat \cup {None}]
      /\ publications \in Publications /\ Len(publications.records) <= Retention /\ batch \in Seq(Events)
      /\ publications.sequence \in Nat /\ entry[n].boundary \in Nat
  BY DEF Full, Once, Inv, RealtimeTypeOK, WriteTypes, EntryTypes, SubTypes, Publications
<1>1. /\ write[w] = "committed" /\ write' = [write EXCEPT ![w] = "published"]
      /\ w \in Local => startedAt' = [startedAt EXCEPT ![w] = None]
      /\ UNCHANGED <<log, entry, patches, indexed, refresh, requested, asked, timers, remote>>
      /\ ~ RefreshMark(n)
  BY <1>0 DEF Publish, RefreshMark, remoteVars
<1>2. /\ w \in Local /\ remoteBatch' = remoteBatch /\ publications' = Recorded /\ Notify(w, began)
      /\ batch' # <<>> /\ attached /\ n \in Entered
  <2>1. w \in Local
    BY PublishStep DEF Calm
  <2> QED
    BY <2>1, PublishStep DEF Full, Once, Inv, PlaceInv, Entered
<1>3. began \in Nat \cup {None}
  BY <1>0
<1>4. /\ Len(batch') = Len(batch) + 1 /\ Len(batch) \in Nat /\ DOMAIN batch = 1 .. Len(batch)
      /\ \A i \in DOMAIN batch : batch'[i] = batch[i]
      /\ batch'[Len(batch) + 1].write = w /\ batch'[Len(batch) + 1].startedAt = began
      /\ batch' \in Seq(Events)
  <2>1. Entered # {}
    BY <1>2
  <2> HIDE DEF began
  <2> QED
    BY <1>0, <1>2, <1>3, <2>1, NotifyIs, BatchIs
<1>5. DOMAIN batch' = 1 .. Len(batch) + 1
  BY <1>4
<1>6. \A i \in DOMAIN batch' : batch'[i].startedAt # None /\ batch'[i].startedAt >= entry[n].boundary
  BY <1>1 DEF Calm, Fits
<1>7. Ordered(w) /\ startedAt[w] # None /\ startedAt[w] >= entry[n].boundary
  BY <1>4, <1>5, <1>6
<1>8. Committed = {w}
  <2>1. ASSUME NEW v \in Committed, v # w PROVE FALSE
    <3>1. v \in Committed'
      BY <1>0, <1>1, <2>1 DEF Committed
    <3>2. v \in Local /\ Ordered(v)'
      BY <3>1 DEF Calm
    <3>3. startedAt'[v] = startedAt[v] /\ startedAt'[v] # None
      BY <1>0, <1>1, <1>2, <2>1, <3>2 DEF Ordered
    <3>4. startedAt[v] \in Nat /\ startedAt[v] <= publications.sequence
      BY <1>0, <3>2, <3>3 DEF Full, Once, Inv, WriteInv
    <3>5. PICK i \in DOMAIN Recorded.records : Recorded.records[i] = publications.sequence + 1
      BY <1>0, RecordedLast
    <3>6. publications.sequence + 1 <= startedAt[v]
      BY <1>2, <3>2, <3>3, <3>5 DEF Ordered
    <3> QED
      BY <1>0, <3>4, <3>6
  <2> QED
    BY <1>1, <2>1 DEF Committed
<1>9. Calm(n)
  <2>1. ~ Asked(n) /\ refresh[n].at \notin {"query", "mark"}
    BY <1>1, CalmBefore
  <2>2. \A i \in DOMAIN batch : Fits(n, batch[i].startedAt)
    BY <1>4, <1>5, <1>6 DEF Fits
  <2>3. \A v \in Committed : v \in Local /\ Ordered(v) /\ Fits(n, startedAt[v])
    BY <1>2, <1>7, <1>8 DEF Fits
  <2>4. /\ ~ remoteBatch /\ ~ entry[n].failed
        /\ \A p, q \in patches : p.sub = n /\ q.sub = n => p.intact /\ p = q
    BY <1>1, <1>2 DEF Calm
  <2> QED
    BY <2>1, <2>2, <2>3, <2>4 DEF Calm
<1>10. Lined(n)
  BY <1>9, LineIs DEF Full, CurrentInv, LineInv
<1>11. ASSUME NEW todo \in Results, Line(n, todo), \A i \in DOMAIN todo : todo[i] # w
       PROVE  Line(n, todo)'
  <2> DEFINE result == entry[n].data
             done == Len(result) + Len(todo)
  <2>1. /\ Len(result) \in Nat /\ DOMAIN result = 1 .. Len(result) /\ Len(todo) \in Nat
        /\ DOMAIN todo = 1 .. Len(todo)
        /\ Len(log) \in Nat /\ DOMAIN log = 1 .. Len(log)
        /\ \A i, j \in DOMAIN log : log[i] = log[j] => i = j
    BY LineIs DEF Results
  <2>2. /\ done + Len(batch) <= Len(log)
        /\ \A i \in DOMAIN result : log[i] = result[i]
        /\ \A i \in DOMAIN todo : log[Len(result) + i] = todo[i]
        /\ \A i \in DOMAIN batch : log[done + i] = batch[i].write
        /\ \A i \in DOMAIN log : i > done + Len(batch) => write[log[i]] = "committed"
    BY <1>11 DEF Line
  <2>0. done \in Nat /\ done = Len(result) + Len(todo) /\ result = entry[n].data
    BY <2>1
  <2> HIDE DEF result, done
  <2>3. PICK k \in DOMAIN log : log[k] = w
    BY <1>8, LineIs
  <2>4. /\ \A i \in DOMAIN result : result[i] # w
        /\ \A i \in DOMAIN batch : batch[i].write # w
    <3>1. Within(result, entry[n].boundary) /\ WriteInv
      <4>1. entry[n].data # None /\ n \in Subs
        BY LineIs DEF Results, Writes
      <4> QED
        BY <2>0, <4>1 DEF Full, Once, OnceInv, Inv
    <3>2. w \notin ToSet(result)
      BY <1>2, <1>7, <3>1 DEF Within
    <3> QED
      BY <1>1, <3>1, <3>2 DEF ToSet, WriteInv
  <2>5. k > done + Len(batch)
    <3> SUFFICES ASSUME ~ (k > done + Len(batch)) PROVE FALSE
      OBVIOUS
    <3>0. k \in Nat \ {0} /\ Len(batch) \in Nat /\ Len(result) \in Nat /\ Len(todo) \in Nat
      BY <1>4, <2>1
    <3>1. k \in 1 .. Len(result) \/ (k > Len(result) /\ k <= done) \/ (k > done /\ k <= done + Len(batch))
      BY <2>0, <3>0, Indices
    <3>2. CASE k \in 1 .. Len(result)
      BY <2>1, <2>2, <2>3, <2>4, <3>2
    <3>3. CASE k > Len(result) /\ k <= done
      <4>1. k - Len(result) \in DOMAIN todo /\ k = Len(result) + (k - Len(result))
        BY <2>1, <2>0, <3>0, <3>3, Indices
      <4> QED
        BY <1>11, <2>2, <2>3, <4>1
    <3>4. CASE k > done /\ k <= done + Len(batch)
      <4>1. k - done \in DOMAIN batch /\ k = done + (k - done)
        BY <1>4, <2>0, <3>0, <3>4, Indices
      <4> QED
        BY <2>2, <2>3, <2>4, <4>1
    <3> QED
      BY <3>1, <3>2, <3>3, <3>4
  <2>6. \A i \in DOMAIN log : i > done + Len(batch) => i = k
    BY <1>8, <2>1, <2>2, <2>3, LineIs DEF Committed
  <2>7. k = done + Len(batch) + 1 /\ Len(log) = k
    <3>1. done + Len(batch) \in Nat /\ Len(log) \in Nat /\ k \in 1 .. Len(log)
      BY <1>4, <2>1, <2>0
    <3> QED
      BY <2>1, <2>5, <2>6, <3>1, LastIndex
  <2>8. /\ done + Len(batch') <= Len(log)
        /\ \A i \in DOMAIN batch' : log[done + i] = batch'[i].write
        /\ \A i \in DOMAIN log : ~ (i > done + Len(batch'))
    <3>1. \A i \in DOMAIN batch' : i \in DOMAIN batch \/ i = Len(batch) + 1
      BY <1>4, <1>5
    <3>2. \A i \in DOMAIN batch : log[done + i] = batch'[i].write
      BY <1>4, <2>2
    <3>3. k = done + (Len(batch) + 1)
      <4>1. done \in Nat /\ Len(batch) \in Nat /\ k = done + Len(batch) + 1
        BY <1>4, <2>7, <2>0
      <4> QED
        BY <4>1
    <3>4. log[done + (Len(batch) + 1)] = batch'[Len(batch) + 1].write
      BY <1>4, <2>3, <3>3
    <3>5. \A i \in DOMAIN batch' : log[done + i] = batch'[i].write
      BY <3>1, <3>2, <3>4
    <3>6. done + Len(batch') = Len(log)
      BY <1>4, <2>7, <3>3
    <3>7. Len(log) \in Nat /\ \A i \in DOMAIN log : ~ (i > Len(log))
      BY <2>1
    <3> QED
      BY <3>5, <3>6, <3>7
  <2> QED
    BY <1>1, <2>2, <2>8 DEF Line, result, done
<1>12. \A p \in patches : p.writes \in Results /\ \A i \in DOMAIN p.writes : p.writes[i] # w
  <2>1. \A p \in patches : \A i \in DOMAIN p.writes : write[p.writes[i]] = "published"
    BY DEF Full, Once, OnceInv
  <2> QED
    BY <1>1, <2>1, LineIs
<1>13. <<>> \in Results
  BY DEF Results
<1> QED
  BY <1>1, <1>2, <1>10, <1>11, <1>12, <1>13 DEF Lined

(* Of the publications that a new boundary follows, none fits it. *)
LEMMA MarkedCalm ==
  ASSUME Full, NEW n \in Subs, UNCHANGED <<write, startedAt, batch, remoteBatch>>,
         entry'[n].boundary = publications.sequence + 1, Calm(n)'
  PROVE  batch = <<>> /\ Committed = {} /\ ~ remoteBatch
<1>1. /\ publications.sequence \in Nat /\ batch \in Seq(Events) /\ WriteInv
      /\ startedAt \in [Local -> Nat \cup {None}]
  BY DEF Full, Once, Inv, RealtimeTypeOK, WriteTypes, EntryTypes, Publications
<1>2. ASSUME NEW i \in DOMAIN batch PROVE FALSE
  <2>1. batch[i].startedAt # None /\ batch[i].startedAt >= publications.sequence + 1
    BY <1>2 DEF Calm, Fits
  <2>2. batch[i].startedAt \in Nat /\ batch[i].startedAt <= publications.sequence
    BY <1>1, <2>1, BatchIs DEF WriteInv
  <2> QED
    BY <1>1, <2>1, <2>2
<1>3. batch = <<>>
  <2>1. Len(batch) \in Nat /\ DOMAIN batch = 1 .. Len(batch)
    BY <1>1, BatchIs
  <2>2. Len(batch) = 0
    <3> SUFFICES ASSUME Len(batch) # 0 PROVE FALSE
      OBVIOUS
    <3>1. 1 \in DOMAIN batch
      BY <2>1
    <3> QED
      BY <1>2, <3>1
  <2> QED
    BY <1>1, <2>2, EmptySeq
<1>4. ASSUME NEW v \in Committed PROVE FALSE
  <2>1. v \in Committed'
    BY DEF Committed
  <2>2. v \in Local /\ startedAt[v] # None /\ startedAt[v] >= publications.sequence + 1
    BY <2>1 DEF Calm, Ordered, Fits
  <2>3. startedAt[v] \in Nat /\ startedAt[v] <= publications.sequence
    BY <1>1, <2>2 DEF WriteInv
  <2> QED
    BY <1>1, <2>2, <2>3
<1> QED
  BY <1>3, <1>4 DEF Calm

(* The line of an entry that has the whole log. *)
LEMMA WholeLine ==
  ASSUME log \in Results, NEW n, log' = log, batch' = <<>>, entry'[n].data = log
  PROVE  Line(n, <<>>)'
<1>1. Len(log) \in Nat /\ DOMAIN log = 1 .. Len(log)
  BY DEF Results
<1>2. /\ Len(log) + 0 = Len(log) /\ Len(log) + 0 + 0 <= Len(log)
      /\ \A i \in DOMAIN log : ~ (i > Len(log) + 0 + 0)
  BY <1>1
<1> QED
  BY <1>2 DEF Line

(* A refresh that has the last word has read the whole log. *)
LEMMA LineMark ==
  ASSUME Full, Next, NEW n \in indexed, Calm(n)', RefreshMark(n)
  PROVE  Lined(n)'
<1>0. /\ n \in Subs /\ n \in Entered /\ publications \in Publications /\ patches \subseteq Patches
      /\ log \in Results
      /\ entry \in [Subs -> [data : Maybe, boundary : Nat, failed : BOOLEAN]] /\ refresh \in Refreshes
  BY CountedNow DEF Full, Once, Inv, PlaceInv, RealtimeTypeOK, WriteTypes, SubTypes, EntryTypes, Entered
<1>1. /\ refresh[n].at = "mark" /\ UNCHANGED <<log, write, startedAt, batch, remoteBatch>>
      /\ publications' = Boundary /\ patches' = Overtaken(n)
      /\ refresh' = [refresh EXCEPT ![n].at = "deliver"]
      /\ UNCHANGED <<requested, asked, timers, remote>>
      /\ entry' = [entry EXCEPT ![n] = [data |-> got[n], boundary |-> publications'.sequence, failed |-> FALSE]]
  BY <1>0 DEF RefreshMark, subVars, batchVars, remoteVars
<1>2. entry'[n].data = got[n] /\ entry'[n].boundary = publications.sequence + 1
  BY <1>0, <1>1, BoundaryIs
<1>3. batch = <<>> /\ Committed = {} /\ ~ remoteBatch
  BY <1>0, <1>1, <1>2, MarkedCalm
<1>4. ~ Asked(n)
  BY <1>0, <1>1 DEF Calm, Asked, Refreshes
<1>5. got[n] = log
  BY <1>1, <1>3, <1>4 DEF Full, CurrentInv, MarkInv
<1>6. \A q \in patches' : q.sub # n
  BY <1>0, <1>1, OvertakenIs DEF Calm
<1> QED
  BY <1>0, <1>1, <1>2, <1>3, <1>5, <1>6, WholeLine DEF Lined

(* A new entry that nothing invalidated has what its query read, and the rest is to come. *)
LEMMA LineRegister ==
  ASSUME Full, Next, NEW n \in Subs, Calm(n)', InitialRegister(n)
  PROVE  Lined(n)'
<1>0. /\ entry \in [Subs -> [data : Maybe, boundary : Nat, failed : BOOLEAN]] /\ batch \in Seq(Events)
      /\ log \in Results /\ got[n] \in Maybe /\ got[n] # None /\ n \notin indexed
      /\ \A p \in patches : p.sub # n
  BY DEF Full, Once, Inv, PlaceInv, RealtimeTypeOK, WriteTypes, EntryTypes, InitialRegister
<1>1. /\ sub[n] = "register" /\ entry' = [entry EXCEPT ![n].data = got[n]]
      /\ UNCHANGED <<log, write, batch, remoteBatch, patches>>
      /\ n \in stale => n \in requested'
  BY DEF InitialRegister, writeVars, batchVars
<1>2. n \notin stale
  BY <1>1 DEF Calm, Asked
<1>3. Fresh(got[n], log, write) /\ Behindhand(n)
  BY <1>1, <1>2 DEF Full, CurrentInv, FreshInv, Fresh, Behindhand
<1>4. entry'[n].data = got[n] /\ entry'[n].boundary = entry[n].boundary /\ entry[n].boundary \in Nat
  BY <1>0, <1>1
<1>5. Len(batch) = 0
  <2> SUFFICES ASSUME Len(batch) # 0 PROVE FALSE
    OBVIOUS
  <2>1. 1 \in DOMAIN batch /\ batch[1].startedAt \in Nat \cup {None}
    BY <1>0, BatchIs
  <2>2. batch[1].startedAt # None /\ batch[1].startedAt >= entry[n].boundary
    BY <1>1, <1>4, <2>1 DEF Calm, Fits
  <2>3. batch[1].startedAt < entry[n].boundary
    BY <1>3, <2>1, <2>2 DEF Behindhand
  <2> QED
    BY <1>4, <2>1, <2>2, <2>3
<1>6. /\ Len(got[n]) \in Nat /\ DOMAIN got[n] = 1 .. Len(got[n]) /\ Len(log) \in Nat
      /\ DOMAIN log = 1 .. Len(log)
      /\ DOMAIN batch = {}
  BY <1>0, <1>5, BatchIs DEF Maybe, Results
<1>7. /\ Len(got[n]) + 0 + 0 <= Len(log)
      /\ \A i \in DOMAIN got[n] : log[i] = got[n][i]
      /\ \A i \in DOMAIN log : i > Len(got[n]) + 0 + 0 => write[log[i]] = "committed"
  BY <1>3, <1>6 DEF Fresh
<1>8. Line(n, <<>>)'
  BY <1>1, <1>4, <1>5, <1>6, <1>7 DEF Line
<1> QED
  BY <1>0, <1>1, <1>8 DEF Lined

(* The batch becomes a patch of an entry that no other patch is under way for. *)
LEMMA LineFlush ==
  ASSUME Full, Next, NEW n \in indexed, Calm(n)', Flush
  PROVE  Lined(n)'
<1> DEFINE writes == [i \in DOMAIN batch |-> batch[i].write]
           fresh(s) == [sub |-> s, writes |-> writes, intact |-> TRUE, read |-> None]
           tried == {s \in indexed : batch # <<>> /\ Patchable(s, batch)}
<1>0. /\ n \in Subs /\ batch \in Seq(Events) /\ refresh \in Refreshes
      /\ \A p \in patches : ToSet(p.writes) \cap {batch[i].write : i \in DOMAIN batch} = {}
      /\ Inv
  BY CountedNow, LineIs DEF Full, Once, OnceInv, Inv, RealtimeTypeOK, EntryTypes
<1>1. /\ UNCHANGED <<log, write, startedAt, publications, entry, indexed, requested, timers, remote>>
      /\ patches' = patches \cup {fresh(s) : s \in tried}
  BY DEF Flush, writeVars, subVars
<1>2. /\ batch' = <<>> /\ ~ remoteBatch' /\ (remoteBatch => n \in asked') /\ (~ remoteBatch => batch # <<>>)
      /\ batch # <<>> /\ ~ Patchable(n, batch) => refresh'[n].pending \/ refresh'[n].at = "query"
      /\ refresh[n].at # "none" => refresh'[n].at = refresh[n].at
  BY <1>0, FlushStep
<1>3. ~ remoteBatch /\ batch # <<>> /\ Patchable(n, batch)
  BY <1>2 DEF Calm, Asked
<1>4. fresh(n) \in patches' /\ fresh(n).sub = n /\ fresh(n).writes = writes /\ fresh(n).read = None
  BY <1>1, <1>3
<1>5. \A p \in patches' : p.sub = n => p = fresh(n)
  BY <1>4 DEF Calm
<1>6. /\ Len(batch) \in Nat /\ DOMAIN batch = 1 .. Len(batch) /\ 1 \in DOMAIN batch
      /\ writes \in Results /\ Len(writes) = Len(batch) /\ DOMAIN writes = DOMAIN batch
      /\ \A i \in DOMAIN batch : writes[i] = batch[i].write
  BY <1>0, <1>3, BatchIs, BatchWrites, EmptySeq
<1> HIDE DEF fresh, tried, writes
<1>7. \A p \in patches : p.sub # n
  <2> SUFFICES ASSUME NEW p \in patches, p.sub = n PROVE FALSE
    OBVIOUS
  <2>1. p.writes = writes
    BY <1>1, <1>4, <1>5
  <2>2. writes[1] \in ToSet(p.writes) /\ writes[1] \in {batch[i].write : i \in DOMAIN batch}
    BY <1>6, <2>1 DEF ToSet
  <2> QED
    BY <1>0, <2>2
<1>8. ~ RefreshMark(n)
  BY <1>0, <1>2 DEF RefreshMark, Refreshes
<1>9. Calm(n)
  <2>1. ~ Asked(n) /\ refresh[n].at \notin {"query", "mark"}
    BY <1>8, CalmBefore
  <2>2. \A i \in DOMAIN batch : Fits(n, batch[i].startedAt)
    <3>1. \A i \in DOMAIN batch : batch[i] \in ToSet(batch)
      BY DEF ToSet
    <3> QED
      BY <1>3, <3>1 DEF Patchable, Fits
  <2>3. \A w \in Committed : w \in Local /\ Ordered(w) /\ Fits(n, startedAt[w])
    BY <1>1 DEF Calm, Committed, Ordered, Fits
  <2> QED
    BY <1>1, <1>3, <1>7, <2>1, <2>2, <2>3 DEF Calm
<1>10. Line(n, <<>>)
  BY <1>0, <1>7, <1>9 DEF Full, CurrentInv, LineInv, Lined
<1>11. ASSUME NEW todo, todo = writes PROVE Line(n, todo)'
  <2> DEFINE result == entry[n].data
  <2>1. /\ Len(result) \in Nat /\ DOMAIN result = 1 .. Len(result) /\ Len(log) \in Nat
        /\ DOMAIN log = 1 .. Len(log)
    BY LineIs
  <2>2. /\ Len(result) + 0 + Len(batch) <= Len(log)
        /\ \A i \in DOMAIN result : log[i] = result[i]
        /\ \A i \in DOMAIN batch : log[Len(result) + 0 + i] = batch[i].write
        /\ \A i \in DOMAIN log : i > Len(result) + 0 + Len(batch) => write[log[i]] = "committed"
    BY <1>10 DEF Line
  <2>3. /\ Len(result) + 0 = Len(result) /\ Len(result) + Len(todo) + Len(<<>>) = Len(result) + Len(batch)
        /\ Len(result) + Len(batch) \in Nat
    <3>1. Len(<<>>) = 0 /\ Len(todo) = Len(batch) /\ Len(batch) \in Nat /\ Len(result) \in Nat
      BY <1>6, <1>11, <2>1
    <3> HIDE DEF result
    <3> QED
      BY <3>1
  <2> HIDE DEF result
  <2>4. /\ Len(result) + Len(todo) + Len(<<>>) <= Len(log)
        /\ \A i \in DOMAIN todo : log[Len(result) + i] = todo[i]
        /\ \A i \in DOMAIN log : i > Len(result) + Len(todo) + Len(<<>>) => write[log[i]] = "committed"
    BY <1>6, <1>11, <2>2, <2>3
  <2>5. DOMAIN <<>> = {}
    OBVIOUS
  <2> QED
    BY <1>1, <1>2, <2>2, <2>4, <2>5 DEF Line, result
<1> QED
  BY <1>4, <1>5, <1>11 DEF Lined

(* Rows that a patch reads are those of the log. *)
LEMMA LinePatchRead ==
  ASSUME Full, Next, NEW n \in indexed, Calm(n)', NEW p \in patches, PatchRead(p)
  PROVE  Lined(n)'
<1> DEFINE answered == [p EXCEPT !.read = log]
<1>0. p \in Patches /\ log # None /\ refresh \in Refreshes /\ n \in Subs
  BY CountedNow, LineIs DEF Full, Once, Inv, RealtimeTypeOK, WriteTypes, EntryTypes, Results, Writes
<1>1. answered.sub = p.sub /\ answered.read = log
  BY <1>0 DEF Patches
<1>2. patches' = (patches \ {p}) \cup {answered}
  BY DEF PatchRead
<1> HIDE DEF answered
<1>3. CASE p.sub = n
  <2>1. \A q \in patches' : q.sub = n => q = answered
    BY <1>1, <1>2, <1>3 DEF Calm
  <2>2. answered \in patches' /\ answered.sub = n /\ log' = log
    BY <1>1, <1>2, <1>3 DEF PatchRead, writeVars
  <2> QED
    BY <1>0, <1>1, <2>1, <2>2 DEF Lined
<1>4. CASE p.sub # n
  <2>1. \A q : q \in patches' /\ q.sub = n <=> q \in patches /\ q.sub = n
    BY <1>1, <1>2, <1>4
  <2>2. ~ RefreshMark(n)
    BY <1>0 DEF PatchRead, RefreshMark, Refreshes
  <2> QED
    BY <2>1, <2>2, LineFrame DEF PatchRead, writeVars, batchVars
<1> QED
  BY <1>3, <1>4

(* The result of a patch that nothing overtook, as long as the patch. *)
LEMMA LineJoined ==
  ASSUME Full, NEW n \in indexed, NEW todo \in Results, Line(n, todo),
         UNCHANGED <<log, write, batch>>, entry'[n].data = entry[n].data \o todo
  PROVE  Line(n, <<>>)'
<1> DEFINE result == entry[n].data
           joined == result \o todo
<1>1. /\ result \in Seq(Writes) /\ todo \in Seq(Writes)
      /\ Len(result) \in Nat /\ DOMAIN result = 1 .. Len(result) /\ Len(todo) \in Nat
      /\ DOMAIN todo = 1 .. Len(todo)
      /\ Len(batch) \in Nat /\ DOMAIN batch = 1 .. Len(batch)
  BY LineIs DEF Results
<1>2. /\ Len(joined) = Len(result) + Len(todo) /\ DOMAIN joined = 1 .. Len(result) + Len(todo)
      /\ \A i \in 1 .. Len(result) + Len(todo) :
            joined[i] = IF i <= Len(result) THEN result[i] ELSE todo[i - Len(result)]
  BY <1>1, ConcatProperties
<1>3. /\ Len(result) + Len(todo) + Len(batch) <= Len(log)
      /\ \A i \in DOMAIN result : log[i] = result[i]
      /\ \A i \in DOMAIN todo : log[Len(result) + i] = todo[i]
      /\ \A i \in DOMAIN batch : log[Len(result) + Len(todo) + i] = batch[i].write
      /\ \A i \in DOMAIN log : i > Len(result) + Len(todo) + Len(batch) => write[log[i]] = "committed"
  BY DEF Line
<1> HIDE DEF result, joined
<1>4. \A i \in DOMAIN joined : log[i] = joined[i]
  <2> SUFFICES ASSUME NEW i \in DOMAIN joined PROVE log[i] = joined[i]
    OBVIOUS
  <2>1. CASE i <= Len(result)
    <3>1. i \in DOMAIN result
      BY <1>1, <1>2, <2>1
    <3> QED
      BY <1>2, <1>3, <2>1, <3>1
  <2>2. CASE ~ (i <= Len(result))
    <3>1. i \in Nat \ {0} /\ i > Len(result) /\ i <= Len(result) + Len(todo)
      BY <1>1, <1>2, <2>2
    <3>2. i - Len(result) \in DOMAIN todo /\ i = Len(result) + (i - Len(result))
      BY <1>1, <3>1, Indices
    <3> QED
      BY <1>2, <1>3, <2>2, <3>2
  <2> QED
    BY <2>1, <2>2
<1>5. Len(joined) + Len(<<>>) = Len(result) + Len(todo) /\ DOMAIN <<>> = {}
  BY <1>1, <1>2
<1>6. entry'[n].data = joined
  BY DEF joined, result
<1>7. /\ Len(joined) + Len(<<>>) + Len(batch) <= Len(log)
      /\ \A i \in DOMAIN batch : log[Len(joined) + Len(<<>>) + i] = batch[i].write
      /\ \A i \in DOMAIN log : i > Len(joined) + Len(<<>>) + Len(batch) => write[log[i]] = "committed"
  BY <1>3, <1>5
<1> QED
  BY <1>4, <1>5, <1>6, <1>7 DEF Line

(* A patch that was not overtaken is the only one, and leaves nothing to do. *)
LEMMA LinePatched ==
  ASSUME Full, Next, NEW n \in indexed, Calm(n)', NEW p \in patches, Patched(p)
  PROVE  Lined(n)'
<1> DEFINE result == IF p.read = None THEN entry[p.sub].data \o p.writes ELSE p.read
           bound == IF p.read = None THEN entry[p.sub].boundary ELSE publications'.sequence
<1>0. /\ p \in Patches /\ patches \subseteq Patches /\ refresh \in Refreshes /\ n \in Subs
      /\ publications \in Publications /\ log \in Results
      /\ entry \in [Subs -> [data : Maybe, boundary : Nat, failed : BOOLEAN]]
      /\ \A x, y \in patches : x.sub = y.sub /\ x.writes = y.writes => x = y
  BY CountedNow, LineIs DEF Full, Once, OnceInv, Inv, RealtimeTypeOK, WriteTypes, EntryTypes
<1>1. /\ p.intact /\ UNCHANGED <<log, write, startedAt, batch, remoteBatch, refresh>>
      /\ patches' = {q \in Overtaken(p.sub) : q.writes # p.writes \/ q.sub # p.sub}
      /\ publications' = IF p.read = None THEN publications ELSE Boundary
      /\ entry' = [entry EXCEPT ![p.sub].data = result, ![p.sub].boundary = bound]
  BY DEF Patched, batchVars
<1> HIDE DEF result, bound
<1>2. ~ RefreshMark(n)
  BY <1>0, <1>1 DEF RefreshMark, Refreshes
<1>3. CASE p.sub # n
  <2>1. ASSUME NEW q, q \in patches', q.sub = n PROVE q \in patches
    <3>1. q \in Overtaken(p.sub)
      BY <1>1, <2>1
    <3> QED
      BY <1>0, <1>3, <2>1, <3>1, OvertakenIs
  <2>2. ASSUME NEW q \in patches, q.sub = n PROVE q \in patches'
    BY <1>0, <1>1, <1>3, <2>2, OvertakenIs
  <2>3. entry'[n] = entry[n]
    BY <1>0, <1>1, <1>3
  <2>4. /\ publications'.records = publications.records
        /\ publications'.prunedThrough = publications.prunedThrough
    BY <1>0, <1>1, BoundaryIs
  <2> QED
    BY <1>1, <1>2, <2>1, <2>2, <2>3, <2>4, LineFrame
<1>4. CASE p.sub = n
  <2>1. \A q \in patches' : q.sub # n
    <3> SUFFICES ASSUME NEW q \in patches', q.sub = n PROVE FALSE
      OBVIOUS
    <3>1. q \in Overtaken(n)
      BY <1>1, <1>4
    <3>2. ~ q.intact
      BY <1>0, <3>1, OvertakenIs
    <3> QED
      BY <3>2 DEF Calm
  <2>2. ASSUME NEW q \in patches, q.sub = n PROVE q = p
    <3>1. PICK o \in Overtaken(n) : o.sub = q.sub /\ o.writes = q.writes
      BY <1>0, <2>2, OvertakenIs
    <3>2. o \notin patches'
      BY <2>1, <2>2, <3>1
    <3>3. q.writes = p.writes
      BY <1>1, <1>4, <3>1, <3>2
    <3> QED
      BY <1>0, <1>4, <2>2, <3>3
  <2>3. /\ entry'[n].data = result /\ entry'[n].boundary = bound /\ entry'[n].failed = entry[n].failed
    BY <1>0, <1>1, <1>4
  <2>4. ~ Asked(n) /\ refresh[n].at \notin {"query", "mark"}
    BY <1>2, CalmBefore
  <2>5. Committed' = Committed
    BY <1>1 DEF Committed
  <2>6. CASE p.read = None
    <3>1. publications' = publications /\ entry'[n].boundary = entry[n].boundary
          /\ entry'[n].data = entry[n].data \o p.writes
      BY <1>1, <1>4, <2>3, <2>6 DEF result, bound
    <3>2. \A w \in Committed : w \in Local /\ Ordered(w) /\ Fits(n, startedAt[w])
      BY <1>1, <2>5, <3>1 DEF Calm, Ordered, Fits
    <3>3. ~ remoteBatch /\ (\A i \in DOMAIN batch : Fits(n, batch[i].startedAt)) /\ ~ entry[n].failed
      BY <1>1, <2>3, <3>1 DEF Calm, Fits
    <3>4. Calm(n)
      BY <1>1, <2>2, <2>4, <3>2, <3>3 DEF Calm
    <3>5. Line(n, p.writes) /\ p.writes \in Results
      BY <1>0, <1>4, <2>6, <3>4 DEF Full, CurrentInv, LineInv, Lined, Patches
    <3>6. Line(n, <<>>)'
      BY <1>1, <3>1, <3>5, LineJoined
    <3> QED
      BY <2>1, <3>6 DEF Lined
  <2>7. CASE p.read # None
    <3>1. entry'[n].boundary = publications.sequence + 1 /\ entry'[n].data = p.read
      BY <1>0, <1>1, <2>3, <2>7, BoundaryIs DEF result, bound
    <3>2. batch = <<>> /\ Committed = {} /\ ~ remoteBatch
      BY <1>0, <1>1, <3>1, MarkedCalm
    <3>3. ~ entry[n].failed
      BY <2>3 DEF Calm
    <3>4. Calm(n)
      BY <1>1, <2>2, <2>4, <3>2, <3>3 DEF Calm
    <3>5. p.read = log
      BY <1>0, <1>4, <2>7, <3>2, <3>4 DEF Full, CurrentInv, LineInv, Lined
    <3>6. Line(n, <<>>)'
      BY <1>0, <1>1, <3>1, <3>2, <3>5, WholeLine
    <3> QED
      BY <2>1, <3>6 DEF Lined
  <2> QED
    BY <2>6, <2>7
<1> QED
  BY <1>3, <1>4

(* A step about somebody else leaves the line. *)
LEMMA LineOther ==
  ASSUME ~ Overlapping, Full, Next, NEW n \in indexed, Calm(n)', NEW s \in Subs,
         \/ Subscribe(s) \/ Subscribing(s) \/ SubscribeFails(s) \/ Unsubscribe(s)
         \/ RefreshInitially(s) \/ RefreshRead(s) \/ RefreshDone(s) \/ RefreshFails(s)
         \/ RefreshMark(s) /\ s # n
         \/ Remotely(s) \/ IntervalPasses(s)
  PROVE  Lined(n)'
<1> DEFINE Framed == /\ UNCHANGED <<log, write, startedAt, batch, remoteBatch>> /\ entry'[n] = entry[n]
                     /\ publications'.records = publications.records
                     /\ publications'.prunedThrough = publications.prunedThrough
                     /\ \A p : p \in patches' /\ p.sub = n <=> p \in patches /\ p.sub = n
                     /\ ~ RefreshMark(n)
<1>0. /\ n \in Subs /\ attached /\ sub[n] \in {"entered", "active"} /\ n \in indexed'
      /\ refresh \in Refreshes /\ publications \in Publications /\ patches \subseteq Patches
      /\ entry \in [Subs -> [data : Maybe, boundary : Nat, failed : BOOLEAN]]
      /\ ~ entry'[n].failed
  BY CountedNow, LineIs
  DEF Full, CurrentInv, AttachInv, Entered, Once, Inv, PlaceInv, RealtimeTypeOK, WriteTypes, EntryTypes, Calm
<1>1. publications' = publications => ~ RefreshMark(n)
  <2>1. publications.sequence \in Nat
    BY <1>0 DEF Publications
  <2>2. publications.sequence # publications.sequence + 1
    BY <2>1
  <2> QED
    BY <1>0, <2>2, BoundaryIs DEF RefreshMark
<1>2. CASE Subscribe(s) \/ SubscribeFails(s)
  <2>1. UNCHANGED <<log, write, startedAt, batch, remoteBatch, entry, publications, patches>>
    BY <1>0, <1>2 DEF Subscribe, SubscribeFails, writeVars, batchVars
  <2> QED
    BY <1>1, <2>1, LineFrame
<1>3. CASE InitialMark(s)
  <2>1. /\ s # n /\ UNCHANGED <<log, write, startedAt, batch, remoteBatch, patches, refresh>>
        /\ publications' = Boundary /\ entry'[n] = entry[n]
    BY <1>0, <1>3 DEF InitialMark, batchVars
  <2>2. ~ RefreshMark(n)
    BY <1>0, <2>1 DEF RefreshMark, Refreshes
  <2> QED
    BY <1>0, <2>1, <2>2, BoundaryIs, LineFrame
<1>4. CASE InitialRegister(s) \/ RefreshFails(s)
  <2>1. s # n
    BY <1>0, <1>4 DEF InitialRegister, RefreshFails
  <2>2. UNCHANGED <<log, write, startedAt, batch, remoteBatch, publications, patches>> /\ entry'[n] = entry[n]
    BY <1>0, <1>4, <2>1 DEF InitialRegister, RefreshFails, writeVars, batchVars
  <2> QED
    BY <1>1, <2>2, LineFrame
<1>5. CASE Unsubscribe(s)
  <2>1. s # n /\ UNCHANGED <<log, write, startedAt, batch, remoteBatch, publications>>
        /\ patches' = {p \in patches : p.sub # s} /\ entry' = [entry EXCEPT ![s] = NoEntry]
    BY <1>0, <1>5 DEF Unsubscribe, writeVars, batchVars
  <2>2. entry'[n] = entry[n]
    BY <1>0, <2>1
  <2> QED
    BY <1>1, <2>1, <2>2, LineFrame
<1>6. CASE RefreshMark(s) /\ s # n
  <2>1. /\ UNCHANGED <<log, write, startedAt, batch, remoteBatch>> /\ publications' = Boundary
        /\ patches' = Overtaken(s) /\ refresh'[n] = refresh[n] /\ entry'[n] = entry[n]
    BY <1>0, <1>6 DEF RefreshMark, batchVars
  <2>2. ~ RefreshMark(n)
    BY <1>0, <2>1 DEF RefreshMark, Refreshes
  <2>3. \A q : q \in patches' /\ q.sub = n <=> q \in patches /\ q.sub = n
    BY <1>0, <1>6, <2>1, OvertakenIs
  <2> QED
    BY <1>0, <2>1, <2>2, <2>3, BoundaryIs, LineFrame
<1>7. CASE UNCHANGED <<log, write, startedAt, batch, remoteBatch, entry, publications, patches>>
  BY <1>1, <1>7, LineFrame
<1> QED
  BY <1>2, <1>3, <1>4, <1>5, <1>6, <1>7
  DEF Subscribing, Enter, InitialRead, Activate, RefreshInitially, RefreshRead, RefreshDone, Remotely,
      RequestRemoteRefresh, Resume, TimerFires, Granted, IntervalPasses, writeVars, batchVars

(* An attempt given up is followed by a query, of its own entry. *)
LEMMA LineUnpatched ==
  ASSUME Full, Next, NEW n \in indexed, Calm(n)', NEW p \in patches, Unpatched(p)
  PROVE  Lined(n)'
<1>0. n \in Subs /\ refresh \in Refreshes /\ publications \in Publications /\ publications.sequence \in Nat
  BY CountedNow, LineIs DEF Full, Once, Inv, RealtimeTypeOK, WriteTypes, Publications
<1>1. /\ patches' = patches \ {p} /\ refresh' = Scheduled({p.sub})
      /\ UNCHANGED <<log, write, startedAt, batch, remoteBatch, entry, publications>>
  BY DEF Unpatched, writeVars, batchVars
<1>2. p.sub # n
  BY <1>0, <1>1, ScheduledIs DEF Calm, Asked
<1>3. publications.sequence # publications.sequence + 1
  BY <1>0
<1>4. ~ RefreshMark(n)
  BY <1>0, <1>1, <1>3, BoundaryIs DEF RefreshMark
<1> QED
  BY <1>1, <1>2, <1>4, LineFrame

LEMMA LineStep ==
  ASSUME ~ Overlapping, Full, Next, NEW n \in Subs, Calm(n)'
  PROVE  Lined(n)'
<1>1. CASE n \in indexed
  <2>1. ASSUME NEW w \in Local, Begin(w) PROVE Lined(n)'
    BY <1>1, <2>1, LineBegin
  <2>2. ASSUME NEW w \in Writes, Commit(w) \/ Publish(w) PROVE Lined(n)'
    BY <1>1, <2>2, LineCommit, LinePublish
  <2>3. ASSUME NEW s \in Subs,
               \/ Subscribe(s) \/ Subscribing(s) \/ SubscribeFails(s) \/ Unsubscribe(s)
               \/ Refreshing(s) \/ RefreshFails(s) \/ Remotely(s) \/ IntervalPasses(s)
        PROVE  Lined(n)'
    <3>1. CASE RefreshMark(s) /\ s = n
      BY <1>1, <3>1, LineMark
    <3>2. CASE ~ (RefreshMark(s) /\ s = n)
      BY <1>1, <2>3, <3>2, LineOther DEF Refreshing
    <3> QED
      BY <3>1, <3>2
  <2>4. CASE Flush
    BY <1>1, <2>4, LineFlush
  <2>5. ASSUME NEW p \in patches, PatchRead(p) \/ Patched(p) \/ Unpatched(p) PROVE Lined(n)'
    BY <1>1, <2>5, LinePatchRead, LinePatched, LineUnpatched
  <2> QED
    BY <2>1, <2>2, <2>3, <2>4, <2>5 DEF Next, Publishing, Patching
<1>2. CASE n \notin indexed
  <2>1. n \in indexed'
    BY DEF Calm
  <2>2. ASSUME NEW s \in Subs, Subscribe(s) \/ Subscribing(s) \/ SubscribeFails(s) \/ Unsubscribe(s)
        PROVE  InitialRegister(n)
    BY <1>2, <2>1, <2>2
    DEF Subscribing, Subscribe, Enter, InitialRead, InitialMark, InitialRegister, Activate,
        SubscribeFails, Unsubscribe
  <2>3. indexed' # indexed
    BY <1>2, <2>1
  <2>4. InitialRegister(n)
    BY <2>2, <2>3
    DEF Next, Publishing, Refreshing, Patching, Remotely, Begin, Commit, Publish, RefreshInitially,
        RefreshRead, RefreshMark, RefreshDone, RefreshFails, RequestRemoteRefresh, Resume, TimerFires,
        Granted, IntervalPasses, Flush, PatchRead, Patched, Unpatched, subVars
  <2> QED
    BY <2>4, LineRegister
<1> QED
  BY <1>1, <1>2

LEMMA FullStep ==
  ASSUME ~ Overlapping, Full, Next PROVE Full'
<1>1. Once'
  BY OnceInvStep DEF Full
<1>2. AttachInv'
  BY AttachStep DEF AttachInv, Entered
<1>3. FreshInv'
  BY FreshStep DEF FreshInv, Fresh, Behindhand
<1>4. MarkInv'
  <2>1. indexed' \subseteq Subs
    BY <1>1 DEF Once, Inv, RealtimeTypeOK, SubTypes
  <2> QED
    BY <2>1, MarkStep DEF MarkInv
<1>5. LineInv'
  BY LineStep DEF LineInv
<1> QED
  BY <1>1, <1>2, <1>3, <1>4, <1>5 DEF Full, CurrentInv

LEMMA FullInit ==
  ASSUME Init PROVE Full
<1>1. CurrentInv
  BY DEF Init, CurrentInv, AttachInv, Entered, FreshInv, MarkInv, LineInv, Calm
<1> QED
  BY <1>1, OnceInit DEF Full

LEMMA FullStutter ==
  ASSUME Full, UNCHANGED vars PROVE Full'
<1>1. Once'
  BY OnceStutter DEF Full
<1>2. AttachInv' /\ FreshInv' /\ MarkInv'
  BY DEF Full, CurrentInv, AttachInv, Entered, FreshInv, MarkInv, Asked, Committed, vars, writeVars, subVars,
         batchVars, remoteVars
<1>3. LineInv'
  <2>1. ASSUME NEW s \in Subs PROVE (Calm(s) <=> Calm(s)') /\ \A todo : Line(s, todo) <=> Line(s, todo)'
    BY DEF Calm, Asked, Committed, Ordered, Fits, Line, vars, writeVars, subVars, batchVars, remoteVars
  <2>2. UNCHANGED <<patches, batch, write, log>>
    BY DEF vars, writeVars, batchVars
  <2> QED
    BY <2>1, <2>2 DEF Full, CurrentInv, LineInv, Lined, Committed
<1> QED
  BY <1>1, <1>2, <1>3 DEF Full, CurrentInv

LEMMA FullCurrent ==
  ASSUME Full PROVE Current
<1> SUFFICES ASSUME NEW s \in Subs, Behind(s), ~ InCharge(s) PROVE FALSE
  BY DEF Current
<1>1. /\ s \in indexed /\ ~ entry[s].failed /\ client[s] = entry[s].data /\ client[s] # log
      /\ refresh \in Refreshes /\ \A p \in patches : p.sub # s
      /\ Committed = {} /\ batch = <<>> /\ ~ remoteBatch
  BY CountedNow DEF Behind, InCharge, Committed, Full, Once, Inv, PlaceInv, Subscribed
<1>2. ~ Asked(s) /\ refresh[s].at # "query"
  BY DEF InCharge, Asked
<1>3. refresh[s].at # "mark"
  BY <1>1, <1>2 DEF InCharge, Full, CurrentInv, MarkInv
<1>4. Calm(s)
  BY <1>1, <1>2, <1>3 DEF Calm
<1>5. Line(s, <<>>)
  BY <1>1, <1>4 DEF Full, CurrentInv, LineInv, Lined
<1>6. /\ Len(log) \in Nat /\ DOMAIN log = 1 .. Len(log) /\ log \in Seq(Writes)
      /\ entry[s].data \in Seq(Writes)
      /\ Len(entry[s].data) \in Nat /\ DOMAIN entry[s].data = 1 .. Len(entry[s].data)
  BY <1>1, LineIs DEF Full, Once, Inv, RealtimeTypeOK, WriteTypes, Results
<1>7. Len(log) <= Len(entry[s].data)
  <2> SUFFICES ASSUME Len(log) > Len(entry[s].data) PROVE FALSE
    BY <1>6
  <2>1. Len(log) \in DOMAIN log /\ Len(log) > Len(entry[s].data) + 0 + 0
    BY <1>6
  <2>2. write[log[Len(log)]] = "committed"
    BY <1>1, <1>5, <2>1 DEF Line
  <2> QED
    BY <1>1, <1>6, <2>1, <2>2, LineIs DEF Committed
<1>8. Len(entry[s].data) + 0 + 0 <= Len(log)
  BY <1>1, <1>5 DEF Line
<1>9. Len(entry[s].data) = Len(log)
  BY <1>6, <1>7, <1>8
<1>10. \A i \in 1 .. Len(log) : log[i] = entry[s].data[i]
  BY <1>5, <1>6, <1>9 DEF Line
<1> QED
  BY <1>1, <1>6, <1>9, <1>10, SeqEqual

(* Whatever write, read, patch and refresh crossed, a result that lacks a write, or has the writes
   in another order than the database, is never left so, if no subscription ends while another
   one resolves its arguments. *)
THEOREM StaysCurrent ==
  ASSUME ~ Overlapping PROVE Spec => []Current
<1>1. Full /\ [Next]_vars => Full'
  BY FullStep, FullStutter
<1> QED
  BY FullInit, <1>1, FullCurrent, PTL DEF Spec
=============================================================================
