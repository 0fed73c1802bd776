------------------------ MODULE BroadcastPresenceProofs ------------------------
(* Proofs about BroadcastPresence, for any workers, sockets and faults. *)
EXTENDS BroadcastPresence, SequenceTheorems, TLAPS

-------------------------------------------------------------------------------
(* What is invariant *)

OwnSteps == {"own_read", "own_tell", "own_delete", "own_set", "own_add"}
Messages == [kind : {"added", "removed"}, who : Sockets]
Tasks ==
    Messages \cup [kind : {"join", "leave", "undo", "clean"}, who : Sockets]
             \cup [kind : {"own", "check"}, who : {None}]
Steps ==
    {"idle", "lease", "set", "leave_delete", "leave_tell", "clean_delete", "clean_tell"}
    \cup ReconcileSteps \cup OwnSteps
Runs ==
    [at : Steps,
     entries : SUBSET Sockets, todo : SUBSET (Sockets \cup Nodes), dead : SUBSET Sockets,
     who : Sockets \cup {None}, flag : BOOLEAN]
Rosters == {None} \cup SUBSET Roster(Sockets)

PresenceTypeOK ==
    /\ hash \subseteq Sockets /\ lease \subseteq Nodes /\ up \subseteq Nodes /\ owned \subseteq Nodes
    /\ open \subseteq Sockets /\ subscribed \subseteq open /\ joined \subseteq Sockets
    /\ stalled \subseteq Sockets
    /\ handler \in [Sockets -> {"idle", "join", "announce", "leave", "undo", "undo_delete", "undo_tell"}]
    /\ view \in [Sockets -> Rosters] /\ seen \in [Nodes -> SUBSET Sockets]
    /\ tasks \in [Nodes -> Seq(Tasks)] /\ inbox \in [Nodes -> Seq(Messages)]
    /\ run \in [Nodes -> Runs]

(* A task of kind "join", "leave" or "undo" is the only one a handler waits for. *)
Waited == {"join", "leave", "undo"}
Placed(q, n) ==
    /\ \A i \in DOMAIN q :
         /\ q[i].kind \in Waited => Home[q[i].who] = n /\ handler[q[i].who] = q[i].kind
         /\ q[i].kind = "clean" => Home[q[i].who] = n /\ q[i].who \notin open
    /\ \A i, j \in DOMAIN q :
         q[i].kind \in Waited /\ q[j].kind \in Waited /\ q[i].who = q[j].who => i = j

(* The task that runs is the first of its queue. *)
Running(n) ==
    LET kind == Head(tasks[n]).kind
    IN  /\ run[n].at # "idle" => tasks[n] # <<>>
        /\ run[n].at \in {"lease", "set"} => kind = "join"
        /\ run[n].at \in ReconcileSteps => kind \in {"join", "check"}
        /\ run[n].at \in {"leave_delete", "leave_tell"} => kind = "leave"
        /\ run[n].at \in {"clean_delete", "clean_tell"} => kind = "clean"
        /\ run[n].at \in OwnSteps => kind = "own"

TaskInv ==
    \A n \in Nodes : Running(n) /\ Placed(tasks[n], n) /\ (n \notin up => tasks[n] = <<>>)

(* A client that shows a roster is connected and has subscribed. *)
ShownInv ==
    \A s \in Sockets :
        /\ view[s] # None => s \in open \cap used /\ handler[s] \in {"idle", "leave"}
        /\ handler[s] # "idle" \/ s \in subscribed => s \in used

(* What a task works on. *)
LocalInv ==
    \A n \in Nodes :
        /\ run[n].at \in {"evict", "delete"} => run[n].todo \subseteq run[n].dead
        /\ run[n].at = "probe" => n \notin run[n].todo
        /\ run[n].at \in OwnSteps => run[n].todo \subseteq Own(n)
        /\ run[n].at \in OwnSteps \ {"own_read"} => run[n].who \in Own(n)

(* Whose subscription has refreshed the lease, whose has written the entry too, and who has
   none before that. *)
Leased(s) == run[Home[s]].at = "set" /\ Who(Home[s]) = s
Entered(s) == run[Home[s]].at \in ReconcileSteps /\ Who(Home[s]) = s
Untouched(s) == s \notin used \/ (handler[s] = "join" /\ ~ Entered(s))

(* Nobody knows of a socket before its entry is written. *)
UnknownInv ==
    \A s \in Sockets : Untouched(s) =>
        /\ s \notin hash \cup joined
        /\ \A n \in Nodes :
             /\ s \notin seen[n] \cup run[n].entries \cup run[n].dead
             /\ run[n].at \in {"own_set", "own_add"} => run[n].who # s
             /\ \A i \in DOMAIN tasks[n] : tasks[n][i] # Task("added", s)
             /\ \A i \in DOMAIN inbox[n] : inbox[n][i] # Task("added", s)

(* Unless the lease runs out on the way, a subscription finds its entry in the hash, and has
   it in the roster that it takes over. *)
EntryInv ==
    \A s \in Sockets \ stalled : handler[s] = "join" /\ Who(Home[s]) = s =>
        LET r == run[Home[s]]
        IN  /\ r.at \in {"set", "read"} => Home[s] \in lease
            /\ r.at = "read" => s \in hash /\ \A n \in Nodes : s \notin run[n].dead
            /\ r.at \in ReconcileSteps \ {"read"} => s \in r.entries \ r.dead

Inv == PresenceTypeOK /\ TaskInv /\ ShownInv /\ LocalInv /\ UnknownInv /\ EntryInv

USE PresenceAssumption

-----------------------------------------------------------------------------
(* Queues of tasks *)

(* What the sequence operators do to a queue. *)
LEMMA Queues ==
  ASSUME NEW T, NEW q \in Seq(T)
  PROVE  /\ Len(q) \in Nat /\ DOMAIN q = 1 .. Len(q) /\ \A i \in DOMAIN q : q[i] \in T
         /\ \A t \in T :
              /\ Append(q, t) \in Seq(T) /\ DOMAIN Append(q, t) = 1 .. Len(q) + 1
              /\ Append(q, t)[Len(q) + 1] = t /\ \A i \in DOMAIN q : Append(q, t)[i] = q[i]
              /\ q # <<>> => Head(Append(q, t)) = Head(q)
              /\ Append(q, t) # <<>>
         /\ q # <<>> =>
              /\ 1 \in DOMAIN q /\ Head(q) = q[1] /\ Head(q) \in T
              /\ Tail(q) \in Seq(T) /\ DOMAIN Tail(q) = 1 .. Len(q) - 1
              /\ \A i \in DOMAIN Tail(q) : i + 1 \in DOMAIN q /\ Tail(q)[i] = q[i + 1]
<1>1. /\ Len(q) \in Nat /\ DOMAIN q = 1 .. Len(q) /\ \A i \in DOMAIN q : q[i] \in T
  BY LenProperties, ElementOfSeq
<1>2. ASSUME NEW t \in T
      PROVE  /\ Append(q, t) \in Seq(T) /\ DOMAIN Append(q, t) = 1 .. Len(q) + 1
             /\ Append(q, t)[Len(q) + 1] = t /\ \A i \in DOMAIN q : Append(q, t)[i] = q[i]
             /\ q # <<>> => Head(Append(q, t)) = Head(q)
             /\ Append(q, t) # <<>>
  <2>1. /\ Append(q, t) \in Seq(T) /\ Len(Append(q, t)) = Len(q) + 1
        /\ DOMAIN Append(q, t) = 1 .. Len(q) + 1
        /\ Append(q, t)[Len(q) + 1] = t /\ \A i \in 1 .. Len(q) : Append(q, t)[i] = q[i]
    BY <1>1, AppendProperties, LenProperties
  <2>2. q # <<>> => Len(q) >= 1
    BY <1>1, EmptySeq
  <2>3. Append(q, t) # <<>>
    BY <1>1, <2>1, EmptySeq
  <2> QED
    BY <1>1, <2>1, <2>2, <2>3
<1>3. ASSUME q # <<>>
      PROVE  /\ 1 \in DOMAIN q /\ Head(q) = q[1] /\ Head(q) \in T
             /\ Tail(q) \in Seq(T) /\ DOMAIN Tail(q) = 1 .. Len(q) - 1
             /\ \A i \in DOMAIN Tail(q) : i + 1 \in DOMAIN q /\ Tail(q)[i] = q[i + 1]
  <2>1. Len(q) >= 1
    BY <1>1, <1>3, EmptySeq
  <2>2. /\ Tail(q) \in Seq(T) /\ Len(Tail(q)) = Len(q) - 1
        /\ \A i \in 1 .. Len(q) - 1 : Tail(q)[i] = q[i + 1] 
        /\ Head(q) = q[1]
    BY <1>3, HeadTailProperties
  <2>3. DOMAIN Tail(q) = 1 .. Len(q) - 1
    BY <2>2, LenProperties
  <2> QED
    BY <1>1, <2>1, <2>2, <2>3
<1> QED
  BY <1>1, <1>2, <1>3

(* Placed, of any handlers and connected sockets. *)
PlacedBy(q, n, h, o) ==
    /\ \A i \in DOMAIN q :
         /\ q[i].kind \in Waited => Home[q[i].who] = n /\ h[q[i].who] = q[i].kind
         /\ q[i].kind = "clean" => Home[q[i].who] = n /\ q[i].who \notin o
    /\ \A i, j \in DOMAIN q :
         q[i].kind \in Waited /\ q[j].kind \in Waited /\ q[i].who = q[j].who => i = j

(* A handler that waits for no task of a queue may change. *)
LEMMA PlacedKept ==
  ASSUME NEW q \in Seq(Tasks), NEW n, NEW h, NEW o, PlacedBy(q, n, h, o), NEW hh, NEW oo,
         oo \subseteq o,
         \A s \in Sockets : hh[s] # h[s] => Home[s] # n \/ h[s] \notin Waited
  PROVE  PlacedBy(q, n, hh, oo)
<1>1. \A i \in DOMAIN q : q[i] \in Tasks
  BY Queues
<1>2. \A i \in DOMAIN q : q[i].kind \in Waited => q[i].who \in Sockets
  BY <1>1 DEF Tasks, Messages, Waited
<1> QED
  BY <1>2 DEF PlacedBy

(* The first task of a queue ends; its handler goes on. *)
LEMMA PlacedTail ==
  ASSUME NEW q \in Seq(Tasks), NEW n, NEW h, NEW o, PlacedBy(q, n, h, o), q # <<>>, NEW hh, NEW oo,
         oo \subseteq o,
         \A s \in Sockets : hh[s] # h[s] =>
             Home[s] # n \/ h[s] \notin Waited \/ (Head(q).kind \in Waited /\ Head(q).who = s)
  PROVE  PlacedBy(Tail(q), n, hh, oo)
<1>1. /\ Len(q) \in Nat /\ DOMAIN q = 1 .. Len(q) /\ \A i \in DOMAIN q : q[i] \in Tasks
      /\ Head(q) = q[1] /\ DOMAIN Tail(q) = 1 .. Len(q) - 1
      /\ \A i \in DOMAIN Tail(q) : i + 1 \in DOMAIN q /\ Tail(q)[i] = q[i + 1]
  BY Queues
<1>2. \A i \in DOMAIN q : q[i].kind \in Waited => q[i].who \in Sockets
  BY <1>1 DEF Tasks, Messages, Waited
<1>3. ASSUME NEW i \in DOMAIN Tail(q)
      PROVE  /\ q[i + 1].kind \in Waited =>
                   Home[q[i + 1].who] = n /\ hh[q[i + 1].who] = q[i + 1].kind
             /\ q[i + 1].kind = "clean" => Home[q[i + 1].who] = n /\ q[i + 1].who \notin oo
  <2>1. i + 1 \in DOMAIN q /\ 1 \in DOMAIN q /\ i + 1 # 1
    BY <1>1
  <2>2. ASSUME q[i + 1].kind \in Waited PROVE ~ (q[1].kind \in Waited /\ q[1].who = q[i + 1].who)
    BY <2>1, <2>2 DEF PlacedBy
  <2> QED
    BY <1>1, <1>2, <2>1, <2>2 DEF PlacedBy
<1>4. \A i, j \in DOMAIN Tail(q) :
          q[i + 1].kind \in Waited /\ q[j + 1].kind \in Waited /\ q[i + 1].who = q[j + 1].who => i = j
  BY <1>1 DEF PlacedBy
<1> QED
  BY <1>1, <1>3, <1>4 DEF PlacedBy

(* A task is put at the end; no other is waited for by its handler. *)
LEMMA PlacedAppend ==
  ASSUME NEW q \in Seq(Tasks), NEW n, NEW h, NEW o, PlacedBy(q, n, h, o), NEW t \in Tasks, NEW hh, NEW oo,
         oo \subseteq o,
         \A s \in Sockets : hh[s] # h[s] => Home[s] # n \/ h[s] \notin Waited,
         t.kind \in Waited => Home[t.who] = n /\ h[t.who] \notin Waited /\ hh[t.who] = t.kind,
         t.kind = "clean" => Home[t.who] = n /\ t.who \notin oo
  PROVE  PlacedBy(Append(q, t), n, hh, oo)
<1>1. /\ Len(q) \in Nat /\ DOMAIN q = 1 .. Len(q)
      /\ DOMAIN Append(q, t) = 1 .. Len(q) + 1 /\ Append(q, t)[Len(q) + 1] = t
      /\ \A i \in DOMAIN q : Append(q, t)[i] = q[i]
  BY Queues
<1>2. PlacedBy(q, n, hh, oo)
  BY PlacedKept
<1>3. \A i \in DOMAIN q : q[i].kind \in Waited => h[q[i].who] \in Waited
  BY DEF PlacedBy
<1>4. \A i \in DOMAIN Append(q, t) : i \in DOMAIN q \/ (i = Len(q) + 1 /\ Append(q, t)[i] = t)
  BY <1>1
<1>5. ASSUME NEW i \in DOMAIN q, q[i].kind \in Waited, t.kind \in Waited PROVE q[i].who # t.who
  BY <1>3, <1>5
<1>6. ASSUME NEW i \in DOMAIN Append(q, t)
      PROVE  /\ Append(q, t)[i].kind \in Waited =>
                   Home[Append(q, t)[i].who] = n /\ hh[Append(q, t)[i].who] = Append(q, t)[i].kind
             /\ Append(q, t)[i].kind = "clean" =>
                   Home[Append(q, t)[i].who] = n /\ Append(q, t)[i].who \notin oo
  BY <1>1, <1>2, <1>4 DEF PlacedBy
<1>7. ASSUME NEW i \in DOMAIN Append(q, t), NEW j \in DOMAIN Append(q, t),
             Append(q, t)[i].kind \in Waited, Append(q, t)[j].kind \in Waited,
             Append(q, t)[i].who = Append(q, t)[j].who
      PROVE  i = j
  BY <1>1, <1>2, <1>4, <1>5, <1>7 DEF PlacedBy
<1> QED
  BY <1>6, <1>7 DEF PlacedBy

-----------------------------------------------------------------------------
(* What the first task is, and what a step of it does *)

(* Whom the first task is for. *)
LEMMA FirstTask ==
  ASSUME Inv, NEW n \in Nodes, tasks[n] # <<>>
  PROVE  /\ Head(tasks[n]) \in Tasks /\ Head(tasks[n]) = tasks[n][1] /\ 1 \in DOMAIN tasks[n] /\ n \in up
         /\ Head(tasks[n]).kind \notin {"own", "check"} => Who(n) \in Sockets
         /\ Head(tasks[n]).kind \in {"own", "check"} => Who(n) = None
         /\ Head(tasks[n]).kind \in Waited =>
              Home[Who(n)] = n /\ handler[Who(n)] = Head(tasks[n]).kind
         /\ Head(tasks[n]).kind = "clean" => Home[Who(n)] = n /\ Who(n) \notin open
<1>1. /\ Head(tasks[n]) \in Tasks /\ Head(tasks[n]) = tasks[n][1] /\ 1 \in DOMAIN tasks[n]
      /\ n \in up /\ Placed(tasks[n], n)
  BY Queues DEF Inv, PresenceTypeOK, TaskInv
<1> QED
  BY <1>1 DEF Tasks, Messages, Placed, Who

(* A task that goes on to another step keeps its local variables. *)
LEMMA RunRecord ==
  ASSUME NEW r \in Runs, NEW a \in Steps
  PROVE  /\ [r EXCEPT !.at = a] \in Runs
         /\ [r EXCEPT !.at = a].at = a /\ [r EXCEPT !.at = a].entries = r.entries
         /\ [r EXCEPT !.at = a].todo = r.todo /\ [r EXCEPT !.at = a].dead = r.dead
         /\ [r EXCEPT !.at = a].who = r.who /\ [r EXCEPT !.at = a].flag = r.flag
BY DEF Runs

(* What the running task has in its local variables. *)
LEMMA RunIs ==
  ASSUME Inv, NEW n \in Nodes
  PROVE  /\ run[n] \in Runs /\ run \in [Nodes -> Runs]
         /\ run[n].at # "idle" => tasks[n] # <<>>
         /\ run[n].entries \subseteq Sockets /\ run[n].dead \subseteq Sockets
         /\ run[n].todo \subseteq Sockets \cup Nodes
         /\ run[n].at \in {"evict", "delete"} => run[n].todo \subseteq run[n].dead
         /\ run[n].at = "probe" => n \notin run[n].todo
         /\ seen \in [Nodes -> SUBSET Sockets] /\ hash \subseteq Sockets
BY DEF Inv, PresenceTypeOK, TaskInv, Running, LocalInv, Runs

(* A task reads the roster, asks for leases and deletes entries, *)
Goes(n, local) ==
    /\ local \in Runs /\ local.at \in ReconcileSteps \ {"read"}
    /\ run' = [run EXCEPT ![n] = local]
    /\ local.entries = (IF run[n].at = "read" THEN hash ELSE run[n].entries)
    /\ \A s \in local.dead :
         \/ s \in run[n].dead
         \/ Home[s] \notin lease /\ Home[s] # n /\ s \in run[n].entries \cup seen[n]
    /\ run[n].at = "read" => local.dead = run[n].dead
    /\ local.at = "probe" => n \notin local.todo
    /\ local.at \in {"evict", "delete"} => local.todo \subseteq local.dead
    /\ UNCHANGED <<joined, handler, view, seen, tasks, cycle>>

(* and takes the roster over. *)
Settles(n, entries, dead) ==
    /\ entries \subseteq Sockets /\ dead \subseteq run[n].dead
    /\ entries = (IF run[n].at = "read" THEN hash ELSE run[n].entries)
    /\ Settle(n, entries, dead)

(* Every step of a reconciliation goes on or settles; only entries of the dead are deleted. *)
LEMMA ReconcileStep ==
  ASSUME Inv, NEW n \in Nodes, Read(n) \/ Probe(n) \/ EvictLease(n) \/ EvictDelete(n)
  PROVE  /\ n \in up /\ run[n].at \in ReconcileSteps /\ tasks[n] # <<>>
         /\ UNCHANGED <<inbox, up, open, subscribed, pending, told, owned, used, faults>>
         /\ hash' \subseteq hash /\ \A s \in hash : s \in hash' \/ s \in run[n].dead
         /\ lease \subseteq lease' /\ lease' \subseteq lease \cup {n}
         /\ (\E local : Goes(n, local)) \/ (\E entries, dead : Settles(n, entries, dead))
<1> DEFINE Frame ==
        /\ n \in up /\ run[n].at \in ReconcileSteps /\ tasks[n] # <<>>
        /\ UNCHANGED <<inbox, up, open, subscribed, pending, told, owned, used, faults>>
        /\ hash' \subseteq hash /\ \A s \in hash : s \in hash' \/ s \in run[n].dead
        /\ lease \subseteq lease' /\ lease' \subseteq lease \cup {n}
      Moves == (\E local : Goes(n, local)) \/ (\E entries, dead : Settles(n, entries, dead))
<1>0. /\ run[n] \in Runs /\ run \in [Nodes -> Runs]
      /\ run[n].at # "idle" => tasks[n] # <<>>
      /\ run[n].entries \subseteq Sockets /\ run[n].dead \subseteq Sockets
      /\ run[n].todo \subseteq Sockets \cup Nodes
      /\ run[n].at \in {"evict", "delete"} => run[n].todo \subseteq run[n].dead
      /\ run[n].at = "probe" => n \notin run[n].todo
      /\ seen \in [Nodes -> SUBSET Sockets] /\ hash \subseteq Sockets
  BY RunIs
<1>s. /\ "probe" \in Steps /\ "evict" \in Steps /\ "delete" \in Steps
      /\ ReconcileSteps = {"read", "probe", "evict", "delete"}
  BY DEF Steps, ReconcileSteps
<1>1. CASE Read(n)
  <2>1. Frame
    BY <1>0, <1>1, <1>s DEF Read, redisVars
  <2> DEFINE others == {Home[t] : t \in hash \cup seen[n]} \ {n}
             local == [[run[n] EXCEPT !.entries = hash, !.todo = others] EXCEPT !.at = "probe"]
  <2>2. CASE others = {}
    <3>1. Settle(n, hash, {}) /\ run[n].at = "read"
      BY <1>1, <2>2 DEF Read
    <3>2. Settles(n, hash, {})
      BY <1>0, <3>1 DEF Settles
    <3> QED
      BY <2>1, <3>2
  <2>3. CASE others # {}
    <3>1. GoOn(n, "probe", [run[n] EXCEPT !.entries = hash, !.todo = others]) /\ run[n].at = "read"
      BY <1>1, <2>3 DEF Read
    <3>2. /\ run' = [run EXCEPT ![n] = local]
          /\ UNCHANGED <<joined, handler, view, seen, tasks, cycle>>
      BY <3>1 DEF GoOn, At
    <3>3. others \in SUBSET (Sockets \cup Nodes) /\ hash \in SUBSET Sockets /\ n \notin others
      BY <1>0
    <3> HIDE DEF others
    <3>4. /\ local \in Runs /\ local.at = "probe" /\ local.entries = hash /\ local.dead = run[n].dead
          /\ local.todo = others
      BY <1>0, <1>s, <3>3 DEF Runs
    <3> HIDE DEF local
    <3>5. Goes(n, local)
      BY <1>s, <3>1, <3>2, <3>3, <3>4 DEF Goes
    <3> QED
      BY <2>1, <3>5
  <2> QED
    BY <2>2, <2>3
<1>2. CASE Probe(n)
  <2>1. PICK m \in run[n].todo :
          LET dead == run[n].dead \cup (IF m \in lease THEN {} ELSE RefsOf(n, run[n].entries, m))
              rest == run[n].todo \ {m}
          IN  CASE rest # {} -> GoOn(n, "probe", [run[n] EXCEPT !.todo = rest, !.dead = dead])
                [] rest = {} /\ dead = {} -> Settle(n, run[n].entries, {})
                [] OTHER -> GoOn(n, "evict", [run[n] EXCEPT !.todo = dead, !.dead = dead])
    BY <1>2 DEF Probe
  <2> DEFINE dead == run[n].dead \cup (IF m \in lease THEN {} ELSE RefsOf(n, run[n].entries, m))
             rest == run[n].todo \ {m}
             probe == [[run[n] EXCEPT !.todo = rest, !.dead = dead] EXCEPT !.at = "probe"]
             evict == [[run[n] EXCEPT !.todo = dead, !.dead = dead] EXCEPT !.at = "evict"]
  <2>2. /\ dead \in SUBSET Sockets /\ rest \in SUBSET (Sockets \cup Nodes)
        /\ dead \in SUBSET (Sockets \cup Nodes)
        /\ \A s \in dead :
             \/ s \in run[n].dead
             \/ Home[s] \notin lease /\ Home[s] # n /\ s \in run[n].entries \cup seen[n]
        /\ run[n].at = "probe" /\ n \notin rest
    BY <1>0, <1>2 DEF RefsOf, Probe
  <2>f. Frame
    BY <1>0, <1>2 DEF Probe, ReconcileSteps, redisVars
  <2>3. CASE rest # {}
    <3>1. GoOn(n, "probe", [run[n] EXCEPT !.todo = rest, !.dead = dead])
      BY <2>1, <2>3
    <3>2. /\ run' = [run EXCEPT ![n] = probe]
          /\ UNCHANGED <<joined, handler, view, seen, tasks, cycle>>
      BY <3>1 DEF GoOn, At
    <3> HIDE DEF dead, rest
    <3>3. /\ probe \in Runs /\ probe.at = "probe" /\ probe.entries = run[n].entries /\ probe.dead = dead
          /\ probe.todo = rest
      BY <1>0, <1>s, <2>2 DEF Runs
    <3> HIDE DEF probe, evict
    <3>4. Goes(n, probe)
      BY <1>s, <2>2, <3>2, <3>3 DEF Goes
    <3> QED
      BY <2>f, <3>4
  <2>4. CASE rest = {} /\ dead = {}
    <3>1. Settle(n, run[n].entries, {})
      BY <2>1, <2>4
    <3>2. Settles(n, run[n].entries, {})
      BY <1>0, <2>2, <3>1 DEF Settles
    <3> QED
      BY <2>f, <3>2
  <2>5. CASE rest = {} /\ dead # {}
    <3>1. GoOn(n, "evict", [run[n] EXCEPT !.todo = dead, !.dead = dead])
      BY <2>1, <2>5
    <3>2. /\ run' = [run EXCEPT ![n] = evict]
          /\ UNCHANGED <<joined, handler, view, seen, tasks, cycle>>
      BY <3>1 DEF GoOn, At
    <3> HIDE DEF dead, rest
    <3>3. /\ evict \in Runs /\ evict.at = "evict" /\ evict.entries = run[n].entries
          /\ evict.dead = dead /\ evict.todo = dead
      BY <1>0, <1>s, <2>2 DEF Runs
    <3> HIDE DEF probe, evict
    <3>4. Goes(n, evict)
      BY <1>s, <2>2, <3>2, <3>3 DEF Goes
    <3> QED
      BY <2>f, <3>4
  <2> QED
    BY <2>3, <2>4, <2>5
<1>3. CASE EvictLease(n)
  <2> DEFINE local == [run[n] EXCEPT !.at = "delete"]
  <2>1. /\ local \in Runs /\ local.at = "delete" /\ local.entries = run[n].entries
        /\ local.dead = run[n].dead /\ local.todo = run[n].todo
    BY <1>0, <1>s, RunRecord
  <2>2. /\ run' = [run EXCEPT ![n] = local] /\ UNCHANGED <<joined, handler, view, seen, tasks, cycle>>
        /\ run[n].at = "evict"
    BY <1>3 DEF EvictLease, GoOn, At
  <2>3. Frame
    BY <1>0, <1>3 DEF EvictLease, ReconcileSteps
  <2> HIDE DEF local
  <2>4. Goes(n, local)
    BY <1>0, <1>s, <2>1, <2>2 DEF Goes
  <2> QED
    BY <2>3, <2>4
<1>4. CASE EvictDelete(n)
  <2>1. PICK t \in run[n].todo :
          /\ hash' = hash \ {t}
          /\ IF run[n].todo = {t} THEN Settle(n, run[n].entries, run[n].dead)
             ELSE GoOn(n, "evict", [run[n] EXCEPT !.todo = @ \ {t}])
    BY <1>4 DEF EvictDelete
  <2>2. run[n].at = "delete" /\ t \in run[n].dead
    BY <1>0, <1>4 DEF EvictDelete
  <2>3. Frame
    BY <1>0, <1>4, <2>1, <2>2 DEF EvictDelete, ReconcileSteps
  <2>4. CASE run[n].todo = {t}
    <3>1. Settles(n, run[n].entries, run[n].dead)
      BY <1>0, <2>1, <2>2, <2>4 DEF Settles
    <3> QED
      BY <2>3, <3>1
  <2>5. CASE run[n].todo # {t}
    <3> DEFINE rest == run[n].todo \ {t}
               local == [[run[n] EXCEPT !.todo = rest] EXCEPT !.at = "evict"]
    <3>1. run' = [run EXCEPT ![n] = local] /\ UNCHANGED <<joined, handler, view, seen, tasks, cycle>>
      BY <2>1, <2>5 DEF GoOn, At
    <3>2. rest \subseteq run[n].todo /\ rest \in SUBSET (Sockets \cup Nodes)
      BY <1>0
    <3> HIDE DEF rest
    <3>3. /\ local \in Runs /\ local.at = "evict" /\ local.entries = run[n].entries
          /\ local.dead = run[n].dead /\ local.todo = rest
      BY <1>0, <1>s, <3>2 DEF Runs
    <3> HIDE DEF local
    <3>4. Goes(n, local)
      BY <1>0, <1>s, <2>2, <3>1, <3>2, <3>3 DEF Goes
    <3> QED
      BY <2>3, <3>4
  <2> QED
    BY <2>4, <2>5
<1> QED
  BY <1>1, <1>2, <1>3, <1>4

(* A worker goes through its own entries, *)
OwnGoes(n, local) ==
    /\ local \in Runs /\ local.at \in OwnSteps \ {"own_read"}
    /\ run' = [run EXCEPT ![n] = local]
    /\ local.todo \subseteq Own(n) /\ local.who \in Own(n)
    /\ local.entries \subseteq hash \cup run[n].entries /\ local.dead = run[n].dead
    /\ local.at \in {"own_set", "own_add"} =>
         local.who \in joined \/ (run[n].at \in {"own_set", "own_add"} /\ local.who = run[n].who)
    /\ UNCHANGED <<lease, tasks>>

(* and is done with them. *)
OwnStops(n) ==
    /\ run' = [run EXCEPT ![n] = Idle]
    /\ \/ tasks' = [tasks EXCEPT ![n] = Tail(@)]
       \/ tasks' = [tasks EXCEPT ![n] = Append(Tail(@), Task("check", None))]
    /\ lease \subseteq lease' /\ lease' \subseteq lease \cup {n}

(* How it is done with them. *)
LEMMA OwnStopsAre ==
  ASSUME NEW n, NEW checks, OwnEnds(n, checks) PROVE OwnStops(n)
BY DEF OwnEnds, OwnStops

(* How a task goes on with its worker's own entries. *)
LEMMA OwnGoesIs ==
  ASSUME Inv, NEW n \in Nodes, NEW r \in Runs, NEW step \in OwnSteps \ {"own_read"},
         r.todo \subseteq Own(n), r.who \in Own(n),
         r.entries \subseteq hash \cup run[n].entries, r.dead = run[n].dead,
         step \in {"own_set", "own_add"} =>
             r.who \in joined \/ (run[n].at \in {"own_set", "own_add"} /\ r.who = run[n].who),
         OwnGoesOn(n, step, r)
  PROVE  \E local : OwnGoes(n, local)
<1> DEFINE local == [r EXCEPT !.at = step]
<1>1. step \in Steps
  BY DEF Steps, OwnSteps
<1>2. /\ local \in Runs /\ local.at = step /\ local.entries = r.entries /\ local.todo = r.todo
      /\ local.dead = r.dead /\ local.who = r.who
  BY <1>1, RunRecord
<1>3. run' = [run EXCEPT ![n] = local] /\ UNCHANGED <<lease, tasks>>
  BY DEF OwnGoesOn, At
<1> HIDE DEF local
<1>4. OwnGoes(n, local)
  BY <1>2, <1>3 DEF OwnGoes
<1> QED
  BY <1>4

(* The second loop goes on or is done, *)
LEMMA RepublishStep ==
  ASSUME Inv, NEW n \in Nodes, NEW r \in Runs, NEW marked, r.todo \subseteq Own(n),
         r.entries \subseteq hash \cup run[n].entries, r.dead = run[n].dead, Republish(n, r, marked),
         owned \subseteq Nodes
  PROVE  owned' \subseteq Nodes /\ ((\E local : OwnGoes(n, local)) \/ OwnStops(n))
<1> DEFINE lacking == {s \in r.todo \cap joined : Live(s) /\ (s \in marked \/ s \notin r.entries)}
<1>1. CASE \E s \in lacking, passed \in SUBSET (r.todo \ lacking) :
              /\ pending' = marked \cup {s}
              /\ OwnGoesOn(n, IF s \in r.entries THEN "own_add" ELSE "own_set",
                           [r EXCEPT !.todo = @ \ (passed \cup {s}), !.who = s])
              /\ UNCHANGED owned
  <2>1. PICK s \in lacking, passed \in SUBSET (r.todo \ lacking) :
              /\ OwnGoesOn(n, IF s \in r.entries THEN "own_add" ELSE "own_set",
                           [r EXCEPT !.todo = @ \ (passed \cup {s}), !.who = s])
              /\ UNCHANGED owned
    BY <1>1
  <2> DEFINE local == [r EXCEPT !.todo = @ \ (passed \cup {s}), !.who = s]
             step == IF s \in r.entries THEN "own_add" ELSE "own_set"
  <2>2. /\ s \in Sockets /\ s \in Own(n) /\ s \in joined
    BY DEF Own
  <2>3. /\ local \in Runs /\ local.todo \subseteq Own(n) /\ local.who = s
        /\ local.entries = r.entries /\ local.dead = r.dead
    BY <2>2 DEF Runs
  <2>4. step \in OwnSteps \ {"own_read"}
    BY DEF OwnSteps
  <2>5. OwnGoesOn(n, step, local)
    BY <2>1
  <2> HIDE DEF local, step, lacking
  <2>6. \E l : OwnGoes(n, l)
    BY <2>2, <2>3, <2>4, <2>5, OwnGoesIs
  <2> QED
    BY <2>1, <2>6
<1>2. CASE /\ owned' = (IF r.flag \/ HasSubscribers(n) THEN owned ELSE owned \ {n})
           /\ OwnEnds(n, TRUE)
  BY <1>2, OwnStopsAre
<1> QED
  BY <1>1, <1>2 DEF Republish

(* and so does the first, which ends in the second. *)
LEMMA SweepStep ==
  ASSUME Inv, NEW n \in Nodes, NEW r \in Runs, r.todo \subseteq Own(n),
         r.entries \subseteq hash \cup run[n].entries, r.dead = run[n].dead, Sweep(n, r),
         owned \subseteq Nodes
  PROVE  owned' \subseteq Nodes /\ ((\E local : OwnGoes(n, local)) \/ OwnStops(n))
<1> DEFINE live == {s \in r.todo : Live(s)}
<1>1. CASE \E s \in r.todo \ live, passed \in SUBSET live :
              /\ OwnGoesOn(n, "own_tell", [r EXCEPT !.todo = @ \ (passed \cup {s}), !.who = s,
                                                    !.flag = @ \/ passed # {}])
              /\ UNCHANGED <<pending, owned>>
  <2>1. PICK s \in r.todo \ live, passed \in SUBSET live :
              /\ OwnGoesOn(n, "own_tell", [r EXCEPT !.todo = @ \ (passed \cup {s}), !.who = s,
                                                    !.flag = @ \/ passed # {}])
              /\ UNCHANGED <<pending, owned>>
    BY <1>1
  <2> DEFINE local == [r EXCEPT !.todo = @ \ (passed \cup {s}), !.who = s, !.flag = @ \/ passed # {}]
  <2>2. s \in Sockets /\ s \in Own(n)
    BY DEF Own
  <2>3. /\ local \in Runs /\ local.todo \subseteq Own(n) /\ local.who = s
        /\ local.entries = r.entries /\ local.dead = r.dead
    BY <2>2 DEF Runs
  <2>4. "own_tell" \in OwnSteps \ {"own_read"} /\ "own_tell" \notin {"own_set", "own_add"}
    BY DEF OwnSteps
  <2>5. OwnGoesOn(n, "own_tell", local)
    BY <2>1
  <2> HIDE DEF local, live
  <2>6. \E l : OwnGoes(n, l)
    BY <2>2, <2>3, <2>4, <2>5, OwnGoesIs
  <2> QED
    BY <2>1, <2>6
<1>2. CASE Republish(n, [r EXCEPT !.todo = {s \in Own(n) : Live(s)}, !.flag = @ \/ live # {}], pending)
  <2> DEFINE local == [r EXCEPT !.todo = {s \in Own(n) : Live(s)}, !.flag = @ \/ live # {}]
  <2>1. /\ local \in Runs /\ local.todo \subseteq Own(n)
        /\ local.entries = r.entries /\ local.dead = r.dead
    BY DEF Runs, Own
  <2>2. Republish(n, local, pending)
    BY <1>2
  <2> HIDE DEF local
  <2> QED
    BY <2>1, <2>2, RepublishStep
<1> QED
  BY <1>1, <1>2 DEF Sweep

(* Every step of it adds or deletes at most the entry it is at, and tells the others of that. *)
LEMMA OwnStep ==
  ASSUME Inv, NEW n \in Nodes,
         OwnRead(n) \/ OwnTold(n) \/ OwnDeleted(n) \/ OwnSet(n) \/ OwnAdded(n) \/ OwnFails(n)
  PROVE  /\ n \in up /\ run[n].at \in OwnSteps /\ tasks[n] # <<>>
         /\ UNCHANGED <<up, open, subscribed, joined, cleanup, handler, told, view, seen, used>>
         /\ \A s \in hash' : s \in hash \/ (run[n].at = "own_set" /\ s = run[n].who)
         /\ \A s \in hash : s \in hash' \/ (run[n].at = "own_delete" /\ s = run[n].who)
         /\ \/ UNCHANGED inbox
            \/ run[n].at = "own_tell" /\ Publish(n, "removed", run[n].who)
            \/ run[n].at = "own_add" /\ Publish(n, "added", run[n].who)
         /\ owned' \subseteq Nodes
         /\ (\E local : OwnGoes(n, local)) \/ OwnStops(n)
<1> DEFINE Frame ==
         /\ n \in up /\ run[n].at \in OwnSteps /\ tasks[n] # <<>>
         /\ UNCHANGED <<up, open, subscribed, joined, cleanup, handler, told, view, seen, used>>
         /\ \A s \in hash' : s \in hash \/ (run[n].at = "own_set" /\ s = run[n].who)
         /\ \A s \in hash : s \in hash' \/ (run[n].at = "own_delete" /\ s = run[n].who)
         /\ \/ UNCHANGED inbox
            \/ run[n].at = "own_tell" /\ Publish(n, "removed", run[n].who)
            \/ run[n].at = "own_add" /\ Publish(n, "added", run[n].who)
      Moves == owned' \subseteq Nodes /\ ((\E local : OwnGoes(n, local)) \/ OwnStops(n))
<1>0. /\ run[n] \in Runs /\ owned \subseteq Nodes /\ hash \subseteq Sockets
      /\ run[n].at # "idle" => tasks[n] # <<>>
      /\ run[n].at \in OwnSteps => run[n].todo \subseteq Own(n)
      /\ run[n].at \in OwnSteps \ {"own_read"} => run[n].who \in Own(n)
  BY RunIs DEF Inv, PresenceTypeOK, LocalInv
<1>s. OwnSteps = {"own_read", "own_tell", "own_delete", "own_set", "own_add"}
  BY DEF OwnSteps
<1>1. CASE OwnRead(n)
  <2> DEFINE local == [run[n] EXCEPT !.entries = hash, !.todo = hash \cap Own(n)]
  <2>1. Frame
    BY <1>0, <1>s, <1>1 DEF OwnRead
  <2>2. local \in Runs /\ local.todo \subseteq Own(n) /\ local.entries = hash /\ local.dead = run[n].dead
    BY <1>0 DEF Runs
  <2>3. Sweep(n, local)
    BY <1>1 DEF OwnRead
  <2> HIDE DEF local
  <2> QED
    BY <1>0, <2>1, <2>2, <2>3, SweepStep
<1>2. CASE OwnTold(n)
  <2>1. Frame
    BY <1>0, <1>s, <1>2 DEF OwnTold, socketVars
  <2>2. OwnGoesOn(n, "own_delete", run[n]) /\ run[n].at = "own_tell" /\ UNCHANGED owned
    BY <1>2 DEF OwnTold
  <2>3. \E local : OwnGoes(n, local)
    BY <1>0, <1>s, <2>2, OwnGoesIs
  <2> QED
    BY <1>0, <2>1, <2>2, <2>3
<1>3. CASE OwnDeleted(n)
  <2>1. Frame
    BY <1>0, <1>s, <1>3 DEF OwnDeleted
  <2> QED
    BY <1>0, <1>3, <1>s, <2>1, SweepStep DEF OwnDeleted
<1>4. CASE OwnSet(n)
  <2>1. Frame
    BY <1>0, <1>s, <1>4 DEF OwnSet
  <2>2. CASE Live(run[n].who)
    <3>1. OwnGoesOn(n, "own_add", run[n]) /\ run[n].at = "own_set" /\ UNCHANGED owned
      BY <1>4, <2>2 DEF OwnSet
    <3>2. \E local : OwnGoes(n, local)
      BY <1>0, <1>s, <3>1, OwnGoesIs
    <3> QED
      BY <1>0, <2>1, <3>1, <3>2
  <2>3. CASE ~ Live(run[n].who)
    <3>1. Republish(n, run[n], pending) /\ run[n].at = "own_set"
      BY <1>4, <2>3 DEF OwnSet
    <3> QED
      BY <1>0, <1>s, <2>1, <3>1, RepublishStep
  <2> QED
    BY <2>2, <2>3
<1>5. CASE OwnAdded(n)
  <2>1. Frame
    BY <1>0, <1>s, <1>5 DEF OwnAdded
  <2>2. Republish(n, run[n], pending \ {run[n].who}) /\ run[n].at = "own_add"
    BY <1>5 DEF OwnAdded
  <2> QED
    BY <1>0, <1>s, <2>1, <2>2, RepublishStep
<1>6. CASE OwnFails(n)
  <2>1. Frame
    BY <1>0, <1>s, <1>6 DEF OwnFails, socketVars
  <2>2. OwnStops(n) /\ UNCHANGED owned
    BY <1>6, OwnStopsAre DEF OwnFails
  <2> QED
    BY <1>0, <2>1, <2>2
<1> QED
  BY <1>1, <1>2, <1>3, <1>4, <1>5, <1>6

(* An inbox has the messages it had and the one that is published. *)
LEMMA PublishIs ==
  ASSUME Inv, NEW n, NEW kind \in {"added", "removed"}, NEW s \in Sockets, Publish(n, kind, s)
  PROVE  /\ inbox' \in [Nodes -> Seq(Messages)]
         /\ \A m \in Nodes : \A i \in DOMAIN inbox'[m] :
              \/ inbox'[m][i] = Task(kind, s)
              \/ \E j \in DOMAIN inbox[m] : inbox'[m][i] = inbox[m][j]
<1>1. Task(kind, s) \in Messages /\ inbox \in [Nodes -> Seq(Messages)]
  BY DEF Task, Messages, Inv, PresenceTypeOK
<1> DEFINE t == Task(kind, s)
<1> HIDE DEF t
<1>2. inbox' = [m \in Nodes |-> IF m \in up \ {n} THEN Append(inbox[m], t) ELSE inbox[m]]
  BY DEF Publish, t
<1>3. ASSUME NEW m \in Nodes
      PROVE  /\ inbox'[m] \in Seq(Messages)
             /\ \A i \in DOMAIN inbox'[m] : inbox'[m][i] = t \/ \E j \in DOMAIN inbox[m] : inbox'[m][i] = inbox[m][j]
  <2>1. CASE inbox'[m] = Append(inbox[m], t)
    <3>1. /\ Len(inbox[m]) \in Nat /\ DOMAIN inbox[m] = 1 .. Len(inbox[m])
          /\ Append(inbox[m], t) \in Seq(Messages)
          /\ DOMAIN Append(inbox[m], t) = 1 .. Len(inbox[m]) + 1
          /\ Append(inbox[m], t)[Len(inbox[m]) + 1] = t
          /\ \A i \in DOMAIN inbox[m] : Append(inbox[m], t)[i] = inbox[m][i]
      BY <1>1, Queues DEF t
    <3>2. \A i \in DOMAIN Append(inbox[m], t) : i \in DOMAIN inbox[m] \/ i = Len(inbox[m]) + 1
      BY <3>1
    <3> QED
      BY <2>1, <3>1, <3>2
  <2>2. CASE inbox'[m] = inbox[m]
    BY <1>1, <2>2
  <2> QED
    BY <1>2, <2>1, <2>2
<1> QED
  BY <1>2, <1>3 DEF t

-----------------------------------------------------------------------------
(* Types *)

(* Rosters are made of the members of the channel. *)
LEMMA RosterIn ==
  ASSUME NEW S \in SUBSET Sockets PROVE Roster(S) \subseteq Roster(Sockets)
BY DEF Roster

(* Who gets what of a delivery. *)
LEMMA DeliverIs ==
  ASSUME Inv, NEW n, NEW x, NEW gone, NEW come \in SUBSET Roster(Sockets)
  PROVE  /\ Deliver(n, x, gone, come) \in [Sockets -> Rosters]
         /\ \A s \in Sockets :
              /\ view[s] = None => Deliver(n, x, gone, come)[s] = None
              /\ Home[s] # n \/ s = x => Deliver(n, x, gone, come)[s] = view[s]
              /\ Home[s] = n /\ s # x /\ view[s] # None =>
                   Deliver(n, x, gone, come)[s] = (view[s] \ gone) \cup come
<1>1. view \in [Sockets -> Rosters]
  BY DEF Inv, PresenceTypeOK
<1>2. \A s \in Sockets : view[s] # None => (view[s] \ gone) \cup come \in Rosters
  BY <1>1 DEF Rosters
<1> QED
  BY <1>1, <1>2 DEF Deliver

(* A list of members that loses those who left is within what is left, and the stalled. *)
LEMMA RosterLeaves ==
  ASSUME NEW S, NEW T, NEW X, NEW v, v \subseteq Roster(S \cup X)
  PROVE  v \ (Roster(S) \ Roster(S \ T)) \subseteq Roster((S \ T) \cup X)
BY DEF Roster

(* Sockets leave a roster, and the clients' lists with it. *)
LEMMA LeavesIs ==
  ASSUME Inv, NEW n \in Nodes, NEW S, NEW x, Leaves(n, S, x)
  PROVE  /\ seen' \in [Nodes -> SUBSET Sockets] /\ view' \in [Sockets -> Rosters]
         /\ \A m \in Nodes : seen'[m] \subseteq seen[m]
         /\ \A s \in Sockets :
              /\ view[s] = None => view'[s] = None
              /\ \A X : view[s] # None /\ view[s] \subseteq Roster(seen[Home[s]] \cup X) /\ s # x =>
                   view'[s] \subseteq Roster(seen'[Home[s]] \cup X)
<1>1. /\ seen' = [seen EXCEPT ![n] = @ \ S] /\ seen \in [Nodes -> SUBSET Sockets]
      /\ view' = Deliver(n, x, Roster(seen[n]) \ Roster(seen[n] \ S), {})
  BY DEF Leaves, Inv, PresenceTypeOK
<1> DEFINE gone == Roster(seen[n]) \ Roster(seen[n] \ S)
<1>2. view' = Deliver(n, x, gone, {})
  BY <1>1
<1>3. {} \in SUBSET Roster(Sockets)
  OBVIOUS
<1>4. /\ view' \in [Sockets -> Rosters]
      /\ \A s \in Sockets :
           /\ view[s] = None => view'[s] = None
           /\ Home[s] # n \/ s = x => view'[s] = view[s]
           /\ Home[s] = n /\ s # x /\ view[s] # None => view'[s] = (view[s] \ gone) \cup {}
  <2> HIDE DEF gone
  <2> QED
    BY <1>2, <1>3, DeliverIs
<1>5. ASSUME NEW s \in Sockets, NEW X, view[s] # None, view[s] \subseteq Roster(seen[Home[s]] \cup X),
             s # x
      PROVE  view'[s] \subseteq Roster(seen'[Home[s]] \cup X)
  <2>1. CASE Home[s] = n
    <3>1. view[s] \ gone \subseteq Roster((seen[n] \ S) \cup X)
      BY <1>5, <2>1, RosterLeaves
    <3>2. seen'[Home[s]] = seen[n] \ S
      BY <1>1, <2>1
    <3>3. view'[s] = (view[s] \ gone) \cup {}
      <4> HIDE DEF gone
      <4> QED
        BY <1>4, <1>5, <2>1
    <3> HIDE DEF gone
    <3> QED
      BY <3>1, <3>2, <3>3
  <2>2. CASE Home[s] # n
    BY <1>1, <1>4, <1>5, <2>2
  <2> QED
    BY <2>1, <2>2
<1> QED
  BY <1>1, <1>4, <1>5

(* A roster is taken over by a subscription or by the liveness cycle. *)
LEMMA SettlesIs ==
  ASSUME Inv, NEW n \in Nodes, tasks[n] # <<>>, run[n].at \in ReconcileSteps,
         NEW entries, NEW dead, Settles(n, entries, dead)
  PROVE  /\ tasks' = [tasks EXCEPT ![n] = Tail(@)] /\ run' = [run EXCEPT ![n] = Idle]
         /\ \/ /\ Head(tasks[n]).kind = "check" /\ UNCHANGED <<joined, handler>>
               /\ Leaves(n, dead, None)
            \/ /\ Head(tasks[n]).kind = "join" /\ SettleJoin(n, entries, dead)
               /\ joined' = joined \cup {Who(n)} /\ handler' = [handler EXCEPT ![Who(n)] = "announce"]
               /\ Who(n) \in Sockets /\ Home[Who(n)] = n /\ handler[Who(n)] = "join"
<1>1. Head(tasks[n]).kind \in {"join", "check"}
  BY DEF Inv, TaskInv, Running
<1>2. Head(tasks[n]).kind = "join" => Who(n) \in Sockets /\ Home[Who(n)] = n /\ handler[Who(n)] = "join"
  BY FirstTask DEF Waited
<1> QED
  BY <1>1, <1>2 DEF Settles, Settle, EndTask, SettleJoin, SettleCheck

(* The roster that a worker takes over. *)
Merged(n, entries, dead) == (entries \ dead) \cup {t \in Own(n) \cap joined : Live(t)}

(* The clients of a worker show what it has taken over. *)
LEMMA SettleJoinIs ==
  ASSUME Inv, NEW n \in Nodes, NEW entries \in SUBSET Sockets, NEW dead, Who(n) \in Sockets,
         SettleJoin(n, entries, dead)
  PROVE  LET merged == Merged(n, entries, dead)
         IN  /\ seen' \in [Nodes -> SUBSET Sockets] /\ view' \in [Sockets -> Rosters]
             /\ \A m \in Nodes : seen'[m] = IF m = n THEN merged ELSE seen[m]
             /\ \A s \in Sockets :
                  /\ view[s] = None => view'[s] = None
                  /\ Home[s] # n \/ s = Who(n) => view'[s] = view[s]
                  /\ \A X :
                       Home[s] = n /\ view[s] # None /\ view[s] \subseteq Roster(seen[n] \cup X) /\ s # Who(n)
                         /\ Who(n) \in merged \cup X => view'[s] \subseteq Roster(merged \cup X)
<1> DEFINE s == Who(n)
           before == seen[n] \ dead
           merged == Merged(n, entries, dead)
           gone == (Roster(seen[n]) \ Roster(before)) \cup (Roster(before) \ Roster(merged))
           news == Roster(merged) \ (Roster(before) \cup {User[s]})
           come == news \cup (IF User[s] \notin Roster(merged \ {s}) THEN {User[s]} ELSE {})
<1>1. seen' = [seen EXCEPT ![n] = merged] /\ view' = Deliver(n, s, gone, come)
  BY DEF SettleJoin, Merged
<1>2. merged \in SUBSET Sockets /\ seen \in [Nodes -> SUBSET Sockets]
  BY DEF Own, Inv, PresenceTypeOK, Merged
<1>3. come \in SUBSET Roster(Sockets)
  BY <1>2 DEF Roster
<1>4. ASSUME NEW X
      PROVE  /\ \A v : v \subseteq Roster(seen[n] \cup X) => (v \ gone) \subseteq Roster(merged \cup X)
             /\ s \in merged \cup X => come \subseteq Roster(merged \cup X)
  <2> HIDE DEF merged
  <2> QED
    BY <1>2 DEF Roster
<1> HIDE DEF s, merged, gone, come, before, news
<1>5. /\ view' \in [Sockets -> Rosters]
      /\ \A t \in Sockets :
           /\ view[t] = None => view'[t] = None
           /\ Home[t] # n \/ t = s => view'[t] = view[t]
           /\ Home[t] = n /\ t # s /\ view[t] # None => view'[t] = (view[t] \ gone) \cup come
  BY <1>1, <1>3, DeliverIs
<1>6. seen' \in [Nodes -> SUBSET Sockets] /\ \A m \in Nodes : seen'[m] = IF m = n THEN merged ELSE seen[m]
  BY <1>1, <1>2
<1>7. ASSUME NEW t \in Sockets, NEW X, Home[t] = n, view[t] # None,
             view[t] \subseteq Roster(seen[n] \cup X), t # s, s \in merged \cup X
      PROVE  view'[t] \subseteq Roster(merged \cup X)
  <2>1. view'[t] = (view[t] \ gone) \cup come
    BY <1>5, <1>7
  <2>2. view[t] \ gone \subseteq Roster(merged \cup X)
    BY <1>4, <1>7
  <2>3. come \subseteq Roster(merged \cup X)
    BY <1>4, <1>7
  <2> QED
    BY <2>1, <2>2, <2>3
<1> QED
  BY <1>5, <1>6, <1>7 DEF s, merged

(* Nobody is taken off the list of those who stalled. *)
LEMMA StalledStep ==
  ASSUME Inv, Next PROVE stalled \subseteq stalled' /\ stalled' \subseteq Sockets
<1> DEFINE Goal == stalled \subseteq stalled' /\ stalled' \subseteq Sockets
<1>0. stalled \subseteq Sockets
  BY DEF Inv, PresenceTypeOK
<1>1. ASSUME NEW s \in Sockets,
             \/ Subscribe(s) \/ Unsubscribe(s) \/ Disconnect(s) \/ Announced(s) \/ UndoDeleted(s)
             \/ UndoTold(s) \/ AnnounceFails(s) \/ UndoDeleteFails(s)
      PROVE  Goal
  BY <1>0, <1>1
  DEF Subscribe, Unsubscribe, Disconnect, Announced, UndoDeleted, UndoTold, AnnounceFails, UndoDeleteFails
<1>2. ASSUME NEW n \in Nodes,
             \/ StartLeave(n) \/ StartClean(n) \/ StartOwn(n) \/ StartCheck(n) \/ ApplyAdded(n)
             \/ ApplyRemoved(n) \/ StartJoin(n) \/ Undo(n) \/ Receive(n) \/ StartCycle(n) \/ Crash(n)
             \/ LeaveFails(n) \/ CleanFails(n) \/ CheckFails(n) \/ OwnFails(n) \/ JoinFails(n)
      PROVE  Goal
  BY <1>0, <1>2
  DEF StartLeave, StartClean, StartOwn, StartCheck, ApplyAdded, ApplyRemoved, StartJoin, Undo, Receive,
      StartCycle, Crash, LeaveFails, CleanFails, CheckFails, OwnFails, JoinFails
<1>3. ASSUME NEW n \in Nodes,
             \/ JoinLease(n) \/ JoinSet(n) \/ Read(n) \/ Probe(n) \/ EvictLease(n) \/ EvictDelete(n)
             \/ LeaveDeleted(n) \/ LeaveTold(n) \/ CleanDeleted(n) \/ CleanTold(n)
             \/ OwnRead(n) \/ OwnTold(n) \/ OwnDeleted(n) \/ OwnSet(n) \/ OwnAdded(n)
      PROVE  UNCHANGED stalled
  BY <1>3
  DEF JoinLease, JoinSet, Read, Probe, EvictLease, EvictDelete, LeaveDeleted, LeaveTold, CleanDeleted,
      CleanTold, OwnRead, OwnTold, OwnDeleted, OwnSet, OwnAdded
<1>4. ASSUME NEW n \in Nodes, Expire(n) PROVE Goal
  <2>1. stalled' = stalled \cup Entering(n)
    BY <1>4 DEF Expire
  <2>2. Entering(n) \subseteq Sockets
    <3>1. CASE run[n].at \in {"set", "read"} /\ Head(tasks[n]).kind = "join"
      BY <3>1, FirstTask, RunIs DEF Entering
    <3>2. CASE ~ (run[n].at \in {"set", "read"} /\ Head(tasks[n]).kind = "join")
      BY <3>2 DEF Entering
    <3> QED
      BY <3>1, <3>2
  <2> QED
    BY <1>0, <2>1, <2>2
<1> QED
  BY <1>0, <1>1, <1>2, <1>3, <1>4 DEF Next, Starts, Replies, Handlers, Fails

(* Sets. *)
LEMMA SetTypes ==
  ASSUME Inv, Next
  PROVE  /\ hash' \subseteq Sockets /\ lease' \subseteq Nodes /\ up' \subseteq Nodes
         /\ owned' \subseteq Nodes /\ open' \subseteq Sockets /\ subscribed' \subseteq open'
         /\ joined' \subseteq Sockets
<1> DEFINE Goal == /\ hash' \subseteq Sockets /\ lease' \subseteq Nodes /\ up' \subseteq Nodes
                   /\ owned' \subseteq Nodes /\ open' \subseteq Sockets /\ subscribed' \subseteq open'
                   /\ joined' \subseteq Sockets
<1>0. /\ hash \subseteq Sockets /\ lease \subseteq Nodes /\ up \subseteq Nodes
      /\ owned \subseteq Nodes /\ open \subseteq Sockets /\ subscribed \subseteq open
      /\ joined \subseteq Sockets
  BY DEF Inv, PresenceTypeOK
<1>1. ASSUME NEW s \in Sockets,
             \/ Subscribe(s) \/ Unsubscribe(s) \/ Disconnect(s) \/ Announced(s) \/ UndoDeleted(s)
             \/ UndoTold(s) \/ AnnounceFails(s) \/ UndoDeleteFails(s)
      PROVE  Goal
  BY <1>0, <1>1
  DEF Subscribe, Unsubscribe, Disconnect, Announced, UndoDeleted, UndoTold, AnnounceFails,
      UndoDeleteFails, RollBack, redisVars, socketVars
<1>2. ASSUME NEW n \in Nodes,
             \/ StartLeave(n) \/ StartClean(n) \/ StartOwn(n) \/ StartCheck(n)
             \/ ApplyAdded(n) \/ ApplyRemoved(n) \/ StartJoin(n) \/ Undo(n) \/ Receive(n) \/ CleanTold(n)
             \/ LeaveFails(n) \/ CleanFails(n) \/ CheckFails(n) \/ Expire(n)
      PROVE  Goal
  BY <1>0, <1>2
  DEF StartLeave, StartClean, StartOwn, StartCheck, ApplyAdded, ApplyRemoved, StartJoin, Undo, Receive,
      CleanTold, LeaveFails, CleanFails, CheckFails, Expire, redisVars, socketVars
<1>3. ASSUME NEW n \in Nodes, JoinLease(n) \/ JoinSet(n) \/ JoinFails(n) PROVE Goal
  <2>1. ASSUME JoinSet(n) PROVE Who(n) \in Sockets
    <3>1. run[n].at = "set"
      BY <2>1 DEF JoinSet
    <3> QED
      BY <3>1, FirstTask DEF Inv, TaskInv, Running
  <2> QED
    BY <1>0, <1>3, <2>1 DEF JoinLease, JoinSet, JoinFails, GoOn, RollBack, redisVars
<1>4. ASSUME NEW n \in Nodes, LeaveDeleted(n) \/ LeaveTold(n) \/ CleanDeleted(n) PROVE Goal
  BY <1>0, <1>4 DEF LeaveDeleted, LeaveTold, CleanDeleted, GoOn, LeaveEnds, redisVars
<1>5. ASSUME NEW n \in Nodes, StartCycle(n) \/ Crash(n) PROVE Goal
  BY <1>0, <1>5 DEF StartCycle, Crash, redisVars, socketVars
<1>6. ASSUME NEW n \in Nodes, Read(n) \/ Probe(n) \/ EvictLease(n) \/ EvictDelete(n) PROVE Goal
  <2>1. /\ hash' \subseteq hash /\ lease' \subseteq lease \cup {n}
        /\ UNCHANGED <<inbox, up, open, subscribed, pending, told, owned, used, faults>>
    BY <1>6, ReconcileStep
  <2>2. ASSUME NEW local, Goes(n, local) PROVE Goal
    BY <1>0, <2>1, <2>2 DEF Goes
  <2>3. ASSUME NEW entries, NEW dead, Settles(n, entries, dead) PROVE Goal
    <3>1. UNCHANGED joined \/ (joined' = joined \cup {Who(n)} /\ Who(n) \in Sockets)
      BY <1>6, <2>3, ReconcileStep, SettlesIs
    <3> QED
      BY <1>0, <2>1, <3>1
  <2> QED
    BY <1>6, <2>2, <2>3, ReconcileStep
<1>7. ASSUME NEW n \in Nodes,
             OwnRead(n) \/ OwnTold(n) \/ OwnDeleted(n) \/ OwnSet(n) \/ OwnAdded(n) \/ OwnFails(n)
      PROVE  Goal
  <2>1. /\ UNCHANGED <<up, open, subscribed, joined>> /\ owned' \subseteq Nodes
        /\ \A s \in hash' : s \in hash \/ (run[n].at = "own_set" /\ s = run[n].who)
        /\ (\E local : OwnGoes(n, local)) \/ OwnStops(n)
    BY <1>7, OwnStep
  <2>2. run[n].at = "own_set" => run[n].who \in Sockets
    BY DEF Inv, LocalInv, OwnSteps, Own
  <2> QED
    BY <1>0, <2>1, <2>2 DEF OwnGoes, OwnStops
<1> QED
  BY <1>1, <1>2, <1>3, <1>4, <1>5, <1>6, <1>7 DEF Next, Starts, Replies, Handlers, Fails

(* Handlers, clients and rosters. *)
LEMMA MapTypes ==
  ASSUME Inv, Next
  PROVE  /\ handler' \in [Sockets -> {"idle", "join", "announce", "leave", "undo", "undo_delete", "undo_tell"}]
         /\ view' \in [Sockets -> Rosters] /\ seen' \in [Nodes -> SUBSET Sockets]
<1> DEFINE Goal == /\ handler' \in [Sockets -> {"idle", "join", "announce", "leave", "undo",
                                                "undo_delete", "undo_tell"}]
                   /\ view' \in [Sockets -> Rosters] /\ seen' \in [Nodes -> SUBSET Sockets]
<1>0. /\ handler \in [Sockets -> {"idle", "join", "announce", "leave", "undo", "undo_delete", "undo_tell"}]
      /\ view \in [Sockets -> Rosters] /\ seen \in [Nodes -> SUBSET Sockets]
      /\ None \in Rosters
      /\ \A S \in SUBSET Sockets : Roster(S) \in Rosters
  BY RosterIn DEF Inv, PresenceTypeOK, Rosters
<1>1. ASSUME NEW s \in Sockets, Announced(s) PROVE Goal
  <2>1. Roster(seen[Home[s]]) \in Rosters
    BY <1>0
  <2> QED
    BY <1>0, <1>1, <2>1 DEF Announced
<1>2. ASSUME NEW s \in Sockets,
             \/ Subscribe(s) \/ Unsubscribe(s) \/ Disconnect(s) \/ UndoDeleted(s)
             \/ UndoTold(s) \/ AnnounceFails(s) \/ UndoDeleteFails(s)
      PROVE  Goal
  BY <1>0, <1>2
  DEF Subscribe, Unsubscribe, Disconnect, UndoDeleted, UndoTold, AnnounceFails,
      UndoDeleteFails, RollBack, UndoGoesOn
<1>3. ASSUME NEW n \in Nodes,
             \/ StartLeave(n) \/ StartOwn(n) \/ StartCheck(n) \/ StartJoin(n) \/ Receive(n) \/ CleanTold(n)
             \/ LeaveFails(n) \/ CleanFails(n) \/ CheckFails(n) \/ Expire(n) \/ StartCycle(n)
             \/ JoinLease(n) \/ JoinSet(n) \/ CleanDeleted(n)
      PROVE  Goal
  BY <1>0, <1>3
  DEF StartLeave, StartOwn, StartCheck, StartJoin, Receive, CleanTold, LeaveFails, CleanFails,
      CheckFails, Expire, StartCycle, JoinLease, JoinSet, CleanDeleted, GoOn
<1>4. ASSUME NEW n \in Nodes, JoinFails(n) \/ Crash(n) PROVE Goal
  BY <1>0, <1>4 DEF JoinFails, RollBack, Crash
<1>5. ASSUME NEW n \in Nodes, StartClean(n) \/ Undo(n) \/ ApplyRemoved(n) PROVE Goal
  <2>1. seen' \in [Nodes -> SUBSET Sockets] /\ view' \in [Sockets -> Rosters]
    BY <1>5, LeavesIs DEF StartClean, Undo, ApplyRemoved
  <2> QED
    BY <1>0, <1>5, <2>1 DEF StartClean, Undo, ApplyRemoved
<1>6. ASSUME NEW n \in Nodes, ApplyAdded(n) PROVE Goal
  <2>1. Who(n) \in Sockets
    BY <1>6, FirstTask DEF ApplyAdded, Starting
  <2>2. {User[Who(n)]} \ Roster(seen[n]) \in SUBSET Roster(Sockets)
    BY <2>1 DEF Roster
  <2>3. view' = Deliver(n, None, {}, {User[Who(n)]} \ Roster(seen[n]))
    BY <1>6 DEF ApplyAdded
  <2>4. view' \in [Sockets -> Rosters]
    BY <2>2, <2>3, DeliverIs
  <2> QED
    BY <1>0, <1>6, <2>1, <2>4 DEF ApplyAdded
<1>7. ASSUME NEW n \in Nodes, LeaveDeleted(n) \/ LeaveTold(n) PROVE Goal
  <2>1. CASE LeaveEnds(n)
    <3> DEFINE come == {}
    <3>1. come \in SUBSET Roster(Sockets)
      OBVIOUS
    <3>2. Deliver(n, Who(n), Roster(seen[n]) \ Roster(seen[n] \ {Who(n)}), {}) \in [Sockets -> Rosters]
      BY <3>1, DeliverIs
    <3>3. view' \in [Sockets -> Rosters]
      BY <1>0, <2>1, <3>2 DEF LeaveEnds
    <3> QED
      BY <1>0, <2>1, <3>3 DEF LeaveEnds
  <2>2. CASE UNCHANGED <<handler, view, seen>>
    BY <1>0, <2>2
  <2> QED
    BY <1>7, <2>1, <2>2 DEF LeaveDeleted, LeaveTold, GoOn
<1>8. ASSUME NEW n \in Nodes, Read(n) \/ Probe(n) \/ EvictLease(n) \/ EvictDelete(n) PROVE Goal
  <2>1. ASSUME NEW local, Goes(n, local) PROVE Goal
    BY <1>0, <2>1 DEF Goes
  <2>2. ASSUME NEW entries, NEW dead, Settles(n, entries, dead) PROVE Goal
    <3>1. /\ run[n].at \in ReconcileSteps /\ tasks[n] # <<>> /\ entries \in SUBSET Sockets
      BY <1>8, <2>2, ReconcileStep DEF Settles
    <3>2. CASE UNCHANGED <<joined, handler>> /\ Leaves(n, dead, None)
      BY <1>0, <3>2, LeavesIs
    <3>3. CASE /\ SettleJoin(n, entries, dead) /\ handler' = [handler EXCEPT ![Who(n)] = "announce"]
               /\ Who(n) \in Sockets
      BY <1>0, <3>1, <3>3, SettleJoinIs
    <3> QED
      BY <2>2, <3>1, <3>2, <3>3, SettlesIs
  <2> QED
    BY <1>8, <2>1, <2>2, ReconcileStep
<1>9. ASSUME NEW n \in Nodes,
             OwnRead(n) \/ OwnTold(n) \/ OwnDeleted(n) \/ OwnSet(n) \/ OwnAdded(n) \/ OwnFails(n)
      PROVE  Goal
  BY <1>0, <1>9, OwnStep
<1> QED
  BY <1>1, <1>2, <1>3, <1>4, <1>5, <1>6, <1>7, <1>8, <1>9 DEF Next, Starts, Replies, Handlers, Fails

(* Tasks, messages and local variables. *)
LEMMA QueueTypes ==
  ASSUME Inv, Next
  PROVE  /\ tasks' \in [Nodes -> Seq(Tasks)] /\ inbox' \in [Nodes -> Seq(Messages)]
         /\ run' \in [Nodes -> Runs]
<1> DEFINE Goal == /\ tasks' \in [Nodes -> Seq(Tasks)] /\ inbox' \in [Nodes -> Seq(Messages)]
                   /\ run' \in [Nodes -> Runs]
<1>0. /\ tasks \in [Nodes -> Seq(Tasks)] /\ inbox \in [Nodes -> Seq(Messages)] /\ run \in [Nodes -> Runs]
      /\ Idle \in Runs /\ \A s \in Sockets : Home[s] \in Nodes
  BY DEF Inv, PresenceTypeOK, Runs, Idle, Steps
<1>1. \A s \in Sockets : \A kind \in {"join", "leave", "undo", "clean", "added", "removed"} :
          Task(kind, s) \in Tasks
  BY DEF Task, Tasks, Messages
<1>2. Task("own", None) \in Tasks /\ Task("check", None) \in Tasks
  BY DEF Task, Tasks
<1>3. \A n \in Nodes : /\ \A t \in Tasks : Append(tasks[n], t) \in Seq(Tasks)
                       /\ tasks[n] # <<>> =>
                            /\ Tail(tasks[n]) \in Seq(Tasks)
                            /\ \A t \in Tasks : Append(Tail(tasks[n]), t) \in Seq(Tasks)
  BY <1>0, Queues
<1>4. \A n \in Nodes, a \in Steps : [run[n] EXCEPT !.at = a] \in Runs
  BY <1>0, RunRecord
<1>5. ASSUME NEW n \in Nodes, tasks[n] # <<>>, EndTask(n)
      PROVE  tasks' \in [Nodes -> Seq(Tasks)] /\ run' \in [Nodes -> Runs]
  BY <1>0, <1>3, <1>5 DEF EndTask
<1>6. \A n \in Nodes : run[n].at # "idle" => tasks[n] # <<>>
  BY DEF Inv, TaskInv, Running
<1>s1. ASSUME NEW s \in Sockets, Subscribe(s) \/ Unsubscribe(s) \/ Disconnect(s) PROVE Goal
  <2>1. \A kind \in {"join", "leave", "clean"} :
            [tasks EXCEPT ![Home[s]] = Append(@, Task(kind, s))] \in [Nodes -> Seq(Tasks)]
    <3>1. \A kind \in {"join", "leave", "clean"} : Append(tasks[Home[s]], Task(kind, s)) \in Seq(Tasks)
      BY <1>0, <1>1, <1>3
    <3> QED
      BY <1>0, <3>1
  <2>2. /\ UNCHANGED <<inbox, run>>
        /\ tasks' = tasks
           \/ \E kind \in {"join", "leave", "clean"} : tasks' = [tasks EXCEPT ![Home[s]] = Append(@, Task(kind, s))]
    BY <1>s1 DEF Subscribe, Unsubscribe, Disconnect, Enqueue
  <2>3. tasks' \in [Nodes -> Seq(Tasks)]
    <3>1. CASE tasks' = tasks
      BY <1>0, <3>1
    <3>2. ASSUME NEW kind \in {"join", "leave", "clean"},
                 tasks' = [tasks EXCEPT ![Home[s]] = Append(@, Task(kind, s))]
          PROVE  tasks' \in [Nodes -> Seq(Tasks)]
      BY <2>1, <3>2
    <3> QED
      BY <2>2, <3>1, <3>2
  <2> QED
    BY <1>0, <2>2, <2>3
<1>s2. ASSUME NEW s \in Sockets, Announced(s) PROVE Goal
  BY <1>0, <1>s2, PublishIs DEF Announced
<1>s3. ASSUME NEW s \in Sockets, UndoDeleted(s) \/ UndoDeleteFails(s) PROVE Goal
  BY <1>0, <1>s3 DEF UndoDeleted, UndoDeleteFails
<1>s4. ASSUME NEW s \in Sockets, UndoTold(s) PROVE Goal
  BY <1>0, <1>s4, PublishIs DEF UndoTold
<1>s5. ASSUME NEW s \in Sockets, AnnounceFails(s) PROVE Goal
  <2>1. Append(tasks[Home[s]], Task("undo", s)) \in Seq(Tasks)
    BY <1>0, <1>1, <1>3
  <2> QED
    BY <1>0, <1>s5, <2>1 DEF AnnounceFails, RollBack
<1>n1. ASSUME NEW n \in Nodes, StartJoin(n) \/ StartOwn(n) \/ StartCheck(n) PROVE Goal
  <2>1. [Idle EXCEPT !.at = "lease"] \in Runs /\ [Idle EXCEPT !.at = "own_read"] \in Runs
        /\ [Idle EXCEPT !.at = "read"] \in Runs
    BY <1>0, RunRecord DEF Steps, ReconcileSteps, OwnSteps
  <2>2. /\ UNCHANGED inbox /\ tasks[n] # <<>>
        /\ \/ EndTask(n)
           \/ UNCHANGED tasks /\ (At(n, "lease", Idle) \/ At(n, "own_read", Idle) \/ At(n, "read", Idle))
    BY <1>n1 DEF StartJoin, StartOwn, StartCheck, Starting
  <2> QED
    BY <1>0, <1>5, <2>1, <2>2, ZenonT(40) DEF At
<1>n2. ASSUME NEW n \in Nodes, StartLeave(n) \/ StartClean(n) PROVE Goal
  <2>1. [Idle EXCEPT !.flag = Who(n) \in seen[n]] \in Runs
    <3>1. (Who(n) \in seen[n]) \in BOOLEAN
      OBVIOUS
    <3> DEFINE flag == Who(n) \in seen[n]
    <3> HIDE DEF flag
    <3> QED
      BY <1>0, <3>1 DEF Idle, Runs, flag
  <2>2. /\ [[Idle EXCEPT !.flag = Who(n) \in seen[n]] EXCEPT !.at = "leave_delete"] \in Runs
        /\ [[Idle EXCEPT !.flag = Who(n) \in seen[n]] EXCEPT !.at = "clean_delete"] \in Runs
    BY <2>1, RunRecord DEF Steps
  <2> QED
    BY <1>0, <1>n2, <2>2, ZenonT(40) DEF StartLeave, StartClean, At
<1>n3. ASSUME NEW n \in Nodes, Undo(n) \/ ApplyAdded(n) \/ ApplyRemoved(n) PROVE Goal
  BY <1>0, <1>5, <1>n3 DEF Undo, ApplyAdded, ApplyRemoved, Starting
<1>n4. ASSUME NEW n \in Nodes, Receive(n) PROVE Goal
  <2>1. inbox[n] # <<>>
    BY <1>n4 DEF Receive
  <2>2. Head(inbox[n]) \in Messages /\ Tail(inbox[n]) \in Seq(Messages)
    BY <1>0, <2>1, Queues
  <2>3. Head(inbox[n]) \in Tasks
    BY <2>2 DEF Tasks
  <2> QED
    BY <1>0, <1>3, <1>n4, <2>2, <2>3 DEF Receive
<1>n5. ASSUME NEW n \in Nodes, StartCycle(n) PROVE Goal
  <2>1. \/ tasks' = tasks
        \/ tasks' = [tasks EXCEPT ![n] = Append(@, Task("own", None))]
        \/ tasks' = [tasks EXCEPT ![n] = Append(@, Task("check", None))]
    BY <1>n5 DEF StartCycle, Enqueue
  <2>2. /\ [tasks EXCEPT ![n] = Append(@, Task("own", None))] \in [Nodes -> Seq(Tasks)]
        /\ [tasks EXCEPT ![n] = Append(@, Task("check", None))] \in [Nodes -> Seq(Tasks)]
    BY <1>0, <1>2, <1>3
  <2>3. UNCHANGED <<inbox, run>>
    BY <1>n5 DEF StartCycle
  <2> QED
    BY <1>0, <2>1, <2>2, <2>3
<1>n6. ASSUME NEW n \in Nodes, Expire(n) \/ Crash(n) PROVE Goal
  <2>1. <<>> \in Seq(Tasks) /\ <<>> \in Seq(Messages)
    BY EmptySeq
  <2>2. CASE Expire(n)
    BY <1>0, <2>2 DEF Expire
  <2>3. CASE Crash(n)
    <3>1. /\ tasks' = [tasks EXCEPT ![n] = <<>>] /\ inbox' = [inbox EXCEPT ![n] = <<>>]
          /\ run' = [run EXCEPT ![n] = Idle]
      BY <2>3 DEF Crash
    <3> QED
      BY <1>0, <2>1, <3>1
  <2> QED
    BY <1>n6, <2>2, <2>3
<1>n7. ASSUME NEW n \in Nodes, JoinLease(n) \/ JoinSet(n) PROVE Goal
  <2>1. "set" \in Steps /\ "read" \in Steps
    BY DEF Steps, ReconcileSteps
  <2>2. [run[n] EXCEPT !.at = "set"] \in Runs /\ [run[n] EXCEPT !.at = "read"] \in Runs
    BY <1>4, <2>1
  <2>3. /\ UNCHANGED <<inbox, tasks>>
        /\ \/ run' = [run EXCEPT ![n] = [run[n] EXCEPT !.at = "set"]]
           \/ run' = [run EXCEPT ![n] = [run[n] EXCEPT !.at = "read"]]
    BY <1>n7 DEF JoinLease, JoinSet, GoOn, At
  <2> QED
    BY <1>0, <2>2, <2>3
<1>n8. ASSUME NEW n \in Nodes, JoinFails(n) PROVE Goal
  <2>1. tasks[n] # <<>> /\ Who(n) \in Sockets /\ Home[Who(n)] = n
    BY <1>6, <1>n8, FirstTask DEF JoinFails, ReconcileSteps, Waited
  <2>2. Append(Tail(tasks[n]), Task("undo", Who(n))) \in Seq(Tasks)
    BY <1>1, <1>3, <2>1
  <2> QED
    BY <1>0, <1>n8, <2>1, <2>2 DEF JoinFails, RollBack
<1>n9. ASSUME NEW n \in Nodes, LeaveFails(n) \/ CleanFails(n) \/ CheckFails(n) PROVE Goal
  BY <1>0, <1>5, <1>6, <1>n9 DEF LeaveFails, CleanFails, CheckFails, ReconcileSteps
<1>n10. ASSUME NEW n \in Nodes, LeaveDeleted(n) \/ LeaveTold(n) PROVE Goal
  <2>1. tasks[n] # <<>> /\ Who(n) \in Sockets /\ "leave_tell" \in Steps
    BY <1>6, <1>n10, FirstTask DEF LeaveDeleted, LeaveTold, Inv, TaskInv, Running, Steps
  <2>2. inbox' \in [Nodes -> Seq(Messages)]
    BY <1>0, <1>n10, <2>1, PublishIs DEF LeaveDeleted, LeaveTold
  <2>3. [run[n] EXCEPT !.at = "leave_tell"] \in Runs
    BY <1>4, <2>1
  <2>4. \/ EndTask(n)
        \/ UNCHANGED tasks /\ run' = [run EXCEPT ![n] = [run[n] EXCEPT !.at = "leave_tell"]]
    BY <1>n10 DEF LeaveDeleted, LeaveTold, GoOn, At, LeaveEnds
  <2> QED
    BY <1>0, <1>5, <2>1, <2>2, <2>3, <2>4
<1>n11. ASSUME NEW n \in Nodes, CleanDeleted(n) \/ CleanTold(n) PROVE Goal
  <2>1. tasks[n] # <<>> /\ Who(n) \in Sockets /\ "clean_tell" \in Steps
    BY <1>6, <1>n11, FirstTask DEF CleanDeleted, CleanTold, Inv, TaskInv, Running, Steps
  <2>2. inbox' \in [Nodes -> Seq(Messages)]
    BY <1>0, <1>n11, <2>1, PublishIs DEF CleanDeleted, CleanTold
  <2>3. [run[n] EXCEPT !.at = "clean_tell"] \in Runs
    BY <1>4, <2>1
  <2>4. \/ EndTask(n)
        \/ UNCHANGED tasks /\ run' = [run EXCEPT ![n] = [run[n] EXCEPT !.at = "clean_tell"]]
    BY <1>n11 DEF CleanDeleted, CleanTold, GoOn, At
  <2> QED
    BY <1>0, <1>5, <2>1, <2>2, <2>3, <2>4
<1>n12. ASSUME NEW n \in Nodes, Read(n) \/ Probe(n) \/ EvictLease(n) \/ EvictDelete(n) PROVE Goal
  <2>1. tasks[n] # <<>> /\ run[n].at \in ReconcileSteps /\ UNCHANGED inbox
    BY <1>n12, ReconcileStep
  <2>2. ASSUME NEW local, Goes(n, local) PROVE Goal
    BY <1>0, <2>1, <2>2 DEF Goes
  <2>3. ASSUME NEW entries, NEW dead, Settles(n, entries, dead) PROVE Goal
    <3>1. tasks' = [tasks EXCEPT ![n] = Tail(@)] /\ run' = [run EXCEPT ![n] = Idle]
      BY <2>1, <2>3, SettlesIs
    <3> QED
      BY <1>0, <1>3, <2>1, <3>1
  <2> QED
    BY <1>n12, <2>2, <2>3, ReconcileStep
<1>n13. ASSUME NEW n \in Nodes,
              OwnRead(n) \/ OwnTold(n) \/ OwnDeleted(n) \/ OwnSet(n) \/ OwnAdded(n) \/ OwnFails(n)
       PROVE  Goal
  <2>1. /\ run[n].at \in OwnSteps /\ tasks[n] # <<>>
        /\ \/ UNCHANGED inbox
           \/ run[n].at = "own_tell" /\ Publish(n, "removed", run[n].who)
           \/ run[n].at = "own_add" /\ Publish(n, "added", run[n].who)
        /\ (\E local : OwnGoes(n, local)) \/ OwnStops(n)
    BY <1>n13, OwnStep
  <2>2. run[n].at # "own_read" => run[n].who \in Sockets
    BY <2>1 DEF Inv, LocalInv, Own
  <2>3. inbox' \in [Nodes -> Seq(Messages)]
    BY <1>0, <2>1, <2>2, PublishIs
  <2>4. ASSUME NEW local, OwnGoes(n, local) PROVE Goal
    BY <1>0, <2>3, <2>4 DEF OwnGoes
  <2>5. CASE OwnStops(n)
    <3>1. /\ [tasks EXCEPT ![n] = Tail(@)] \in [Nodes -> Seq(Tasks)]
          /\ [tasks EXCEPT ![n] = Append(Tail(@), Task("check", None))] \in [Nodes -> Seq(Tasks)]
      BY <1>0, <1>2, <1>3, <2>1
    <3> QED
      BY <1>0, <2>3, <2>5, <3>1 DEF OwnStops
  <2> QED
    BY <2>1, <2>4, <2>5
<1> QED
  BY <1>s1, <1>s2, <1>s3, <1>s4, <1>s5, <1>n1, <1>n2, <1>n3, <1>n4, <1>n5, <1>n6, <1>n7, <1>n8, <1>n9,
     <1>n10, <1>n11, <1>n12, <1>n13 DEF Next, Starts, Replies, Handlers, Fails

(* Every step keeps the types. *)
LEMMA TypesStep ==
  ASSUME Inv, Next PROVE PresenceTypeOK'
BY StalledStep, SetTypes, MapTypes, QueueTypes DEF PresenceTypeOK

-----------------------------------------------------------------------------
(* Queues: one task runs, the first *)

(* A task that is put at the end does not disturb the one that runs. *)
LEMMA RunningKept ==
  ASSUME Inv, NEW m \in Nodes, run'[m] = run[m],
         tasks'[m] = tasks[m] \/ \E t \in Tasks : tasks'[m] = Append(tasks[m], t)
  PROVE  Running(m)'
<1>1. Running(m) /\ tasks[m] \in Seq(Tasks)
  BY DEF Inv, TaskInv, PresenceTypeOK
<1>2. ASSUME NEW t \in Tasks, tasks[m] # <<>>
      PROVE  Head(Append(tasks[m], t)) = Head(tasks[m]) /\ Append(tasks[m], t) # <<>>
  BY <1>1, <1>2, Queues
<1>3. tasks[m] # <<>> => tasks'[m] # <<>> /\ Head(tasks'[m]) = Head(tasks[m])
  BY <1>2
<1>4. run[m].at = "idle" \/ tasks[m] # <<>>
  BY <1>1 DEF Running
<1> QED
  BY <1>1, <1>3, <1>4 DEF Running, ReconcileSteps, OwnSteps

(* A worker without a running task has none to be first. *)
LEMMA RunningIdle ==
  ASSUME NEW m \in Nodes, run'[m].at = "idle" PROVE Running(m)'
BY DEF Running, ReconcileSteps, OwnSteps

(* Every step keeps the running task first; a worker that is down has none. *)
LEMMA RunningStep ==
  ASSUME Inv, Next, NEW m \in Nodes PROVE Running(m)' /\ (m \notin up' => tasks'[m] = <<>>)
<1> DEFINE Goal == Running(m)' /\ (m \notin up' => tasks'[m] = <<>>)
<1>0. /\ tasks \in [Nodes -> Seq(Tasks)] /\ run \in [Nodes -> Runs]
      /\ \A n \in Nodes : Running(n) /\ (n \notin up => tasks[n] = <<>>)
      /\ \A n \in Nodes : run[n].at # "idle" => tasks[n] # <<>>
      /\ Idle.at = "idle" /\ \A s \in Sockets : Home[s] \in Nodes
  BY DEF Inv, PresenceTypeOK, TaskInv, Idle, Running
<1>1. \A s \in Sockets : \A kind \in {"join", "leave", "undo", "clean", "added", "removed"} :
          Task(kind, s) \in Tasks
  BY DEF Task, Tasks, Messages
<1>2. Task("own", None) \in Tasks /\ Task("check", None) \in Tasks
  BY DEF Task, Tasks
<1>3. ASSUME UNCHANGED <<tasks, run, up>> PROVE Goal
  BY <1>0, <1>3, RunningKept
<1>4. ASSUME NEW n \in up, n \in Nodes, NEW t \in Tasks, tasks' = [tasks EXCEPT ![n] = Append(@, t)],
             UNCHANGED <<run, up>>
      PROVE  Goal
  <2>1. tasks'[m] = tasks[m] \/ tasks'[m] = Append(tasks[m], t)
    BY <1>0, <1>4
  <2> QED
    BY <1>0, <1>4, <2>1, RunningKept
<1>5. ASSUME NEW n \in up, n \in Nodes, run' = [run EXCEPT ![n] = Idle], UNCHANGED up,
             NEW q, tasks' = [tasks EXCEPT ![n] = q]
      PROVE  Goal
  <2>1. CASE m = n
    BY <1>0, <1>5, <2>1, RunningIdle
  <2>2. CASE m # n
    <3>1. run'[m] = run[m] /\ tasks'[m] = tasks[m]
      BY <1>0, <1>5, <2>2
    <3> QED
      BY <1>0, <1>5, <3>1, RunningKept
  <2> QED
    BY <2>1, <2>2
<1>6. ASSUME NEW n \in up, n \in Nodes, NEW r, run' = [run EXCEPT ![n] = r], UNCHANGED <<up, tasks>>,
             tasks[n] # <<>>,
             r.at \in {"lease", "set"} => Head(tasks[n]).kind = "join",
             r.at \in ReconcileSteps => Head(tasks[n]).kind \in {"join", "check"},
             r.at \in {"leave_delete", "leave_tell"} => Head(tasks[n]).kind = "leave",
             r.at \in {"clean_delete", "clean_tell"} => Head(tasks[n]).kind = "clean",
             r.at \in OwnSteps => Head(tasks[n]).kind = "own"
      PROVE  Goal
  <2>1. CASE m = n
    <3>1. run'[m] = r /\ tasks'[m] = tasks[m]
      BY <1>0, <1>6, <2>1
    <3> QED
      BY <1>0, <1>6, <2>1, <3>1 DEF Running
  <2>2. CASE m # n
    <3>1. run'[m] = run[m] /\ tasks'[m] = tasks[m]
      BY <1>0, <1>6, <2>2
    <3> QED
      BY <1>0, <1>6, <3>1, RunningKept
  <2> QED
    BY <2>1, <2>2
<1>7. ASSUME NEW n \in up, n \in Nodes, NEW a \in Steps, run' = [run EXCEPT ![n] = [run[n] EXCEPT !.at = a]],
             UNCHANGED <<up, tasks>>, tasks[n] # <<>>,
             a \in {"set"} => Head(tasks[n]).kind = "join",
             a \in ReconcileSteps => Head(tasks[n]).kind \in {"join", "check"},
             a = "leave_tell" => Head(tasks[n]).kind = "leave",
             a = "clean_tell" => Head(tasks[n]).kind = "clean",
             a \in {"set", "read", "leave_tell", "clean_tell"}
      PROVE  Goal
  <2> DEFINE r == [run[n] EXCEPT !.at = a]
  <2>1. r.at = a /\ run' = [run EXCEPT ![n] = r]
    BY <1>0, <1>7, RunRecord
  <2> HIDE DEF r
  <2> QED
    BY <1>6, <1>7, <2>1 DEF ReconcileSteps, OwnSteps
<1>s1. ASSUME NEW s \in Sockets, Subscribe(s) \/ Unsubscribe(s) \/ Disconnect(s) PROVE Goal
  <2>1. /\ Home[s] \in up /\ UNCHANGED <<run, up>>
        /\ \/ tasks' = tasks
           \/ tasks' = [tasks EXCEPT ![Home[s]] = Append(@, Task("join", s))]
           \/ tasks' = [tasks EXCEPT ![Home[s]] = Append(@, Task("leave", s))]
           \/ tasks' = [tasks EXCEPT ![Home[s]] = Append(@, Task("clean", s))]
    BY <1>s1 DEF Subscribe, Unsubscribe, Disconnect, Enqueue
  <2> QED
    BY <1>0, <1>1, <1>3, <1>4, <2>1
<1>s2. ASSUME NEW s \in Sockets, Announced(s) \/ UndoDeleted(s) \/ UndoDeleteFails(s) \/ UndoTold(s)
       PROVE  Goal
  BY <1>3, <1>s2 DEF Announced, UndoDeleted, UndoDeleteFails, UndoTold
<1>s3. ASSUME NEW s \in Sockets, AnnounceFails(s) PROVE Goal
  <2>1. /\ Home[s] \in up /\ UNCHANGED <<run, up>>
        /\ tasks' = [tasks EXCEPT ![Home[s]] = Append(tasks[Home[s]], Task("undo", s))]
    BY <1>s3 DEF AnnounceFails, RollBack
  <2>2. tasks' = [tasks EXCEPT ![Home[s]] = Append(@, Task("undo", s))]
    BY <1>0, <2>1
  <2> QED
    BY <1>0, <1>1, <1>4, <2>1, <2>2
<1>n1. ASSUME NEW n \in Nodes, StartJoin(n) PROVE Goal
  <2>1. /\ n \in up /\ UNCHANGED up /\ tasks[n] # <<>> /\ Head(tasks[n]).kind = "join"
        /\ \/ EndTask(n)
           \/ UNCHANGED tasks /\ run' = [run EXCEPT ![n] = [Idle EXCEPT !.at = "lease"]]
    BY <1>n1 DEF StartJoin, Starting, At
  <2>2. [Idle EXCEPT !.at = "lease"].at = "lease"
    BY DEF Idle
  <2> QED
    BY <1>0, <1>5, <1>6, <2>1, <2>2 DEF EndTask, ReconcileSteps, OwnSteps
<1>n2. ASSUME NEW n \in Nodes, StartOwn(n) \/ StartCheck(n) PROVE Goal
  <2>1. /\ n \in up /\ UNCHANGED <<up, tasks>> /\ tasks[n] # <<>>
        /\ \/ Head(tasks[n]).kind = "own" /\ run' = [run EXCEPT ![n] = [Idle EXCEPT !.at = "own_read"]]
           \/ Head(tasks[n]).kind = "check" /\ run' = [run EXCEPT ![n] = [Idle EXCEPT !.at = "read"]]
    BY <1>n2 DEF StartOwn, StartCheck, Starting, At
  <2>2. [Idle EXCEPT !.at = "own_read"].at = "own_read" /\ [Idle EXCEPT !.at = "read"].at = "read"
    BY DEF Idle
  <2> QED
    BY <1>6, <2>1, <2>2 DEF ReconcileSteps, OwnSteps
<1>n3. ASSUME NEW n \in Nodes, StartLeave(n) \/ StartClean(n) PROVE Goal
  <2> DEFINE local == [Idle EXCEPT !.flag = Who(n) \in seen[n]]
  <2>1. /\ n \in up /\ UNCHANGED <<up, tasks>> /\ tasks[n] # <<>>
        /\ \/ Head(tasks[n]).kind = "leave" /\ run' = [run EXCEPT ![n] = [local EXCEPT !.at = "leave_delete"]]
           \/ Head(tasks[n]).kind = "clean" /\ run' = [run EXCEPT ![n] = [local EXCEPT !.at = "clean_delete"]]
    BY <1>n3 DEF StartLeave, StartClean, Starting, At
  <2>2. [local EXCEPT !.at = "leave_delete"].at = "leave_delete"
        /\ [local EXCEPT !.at = "clean_delete"].at = "clean_delete"
    BY DEF Idle
  <2> HIDE DEF local
  <2> QED
    BY <1>6, <2>1, <2>2 DEF ReconcileSteps, OwnSteps
<1>n4. ASSUME NEW n \in Nodes,
              Undo(n) \/ ApplyAdded(n) \/ ApplyRemoved(n) \/ LeaveFails(n) \/ CleanFails(n) \/ CheckFails(n)
              \/ CleanTold(n)
       PROVE  Goal
  <2>1. n \in up /\ UNCHANGED up /\ EndTask(n)
    BY <1>n4 DEF Undo, ApplyAdded, ApplyRemoved, Starting, LeaveFails, CleanFails, CheckFails, CleanTold
  <2> QED
    BY <1>5, <2>1 DEF EndTask
<1>n5. ASSUME NEW n \in Nodes, Receive(n) PROVE Goal
  <2>1. inbox[n] # <<>> /\ inbox \in [Nodes -> Seq(Messages)]
    BY <1>n5 DEF Receive, Inv, PresenceTypeOK
  <2>2. Head(inbox[n]) \in Tasks
    BY <2>1, Queues DEF Tasks
  <2> QED
    BY <1>4, <1>n5, <2>2 DEF Receive
<1>n6. ASSUME NEW n \in Nodes, StartCycle(n) PROVE Goal
  <2>1. /\ n \in up /\ UNCHANGED <<run, up>>
        /\ \/ tasks' = tasks
           \/ tasks' = [tasks EXCEPT ![n] = Append(@, Task("own", None))]
           \/ tasks' = [tasks EXCEPT ![n] = Append(@, Task("check", None))]
    BY <1>n6 DEF StartCycle, Enqueue
  <2> QED
    BY <1>2, <1>3, <1>4, <2>1
<1>n7. ASSUME NEW n \in Nodes, Expire(n) PROVE Goal
  BY <1>3, <1>n7 DEF Expire
<1>n8. ASSUME NEW n \in Nodes, Crash(n) PROVE Goal
  <2>1. /\ tasks' = [tasks EXCEPT ![n] = <<>>] /\ run' = [run EXCEPT ![n] = Idle] /\ up' = up \ {n}
    BY <1>n8 DEF Crash
  <2>2. CASE m = n
    BY <1>0, <2>1, <2>2, RunningIdle
  <2>3. CASE m # n
    <3>1. run'[m] = run[m] /\ tasks'[m] = tasks[m]
      BY <1>0, <2>1, <2>3
    <3> QED
      BY <1>0, <2>1, <2>3, <3>1, RunningKept
  <2> QED
    BY <2>2, <2>3
<1>n9. ASSUME NEW n \in Nodes, JoinLease(n) \/ JoinSet(n) PROVE Goal
  <2>1. /\ n \in up /\ UNCHANGED <<up, tasks>> /\ run[n].at \in {"lease", "set"}
        /\ \/ run' = [run EXCEPT ![n] = [run[n] EXCEPT !.at = "set"]]
           \/ run' = [run EXCEPT ![n] = [run[n] EXCEPT !.at = "read"]]
    BY <1>n9 DEF JoinLease, JoinSet, GoOn, At
  <2>2. Head(tasks[n]).kind = "join" /\ tasks[n] # <<>>
    BY <1>0, <2>1 DEF Running
  <2>3. "set" \in Steps /\ "read" \in Steps
    BY DEF Steps, ReconcileSteps
  <2> QED
    BY <1>7, <2>1, <2>2, <2>3 DEF ReconcileSteps
<1>n10. ASSUME NEW n \in Nodes, JoinFails(n) PROVE Goal
  <2>1. /\ n \in up /\ UNCHANGED up /\ run' = [run EXCEPT ![n] = Idle]
        /\ tasks' = [tasks EXCEPT ![Home[Who(n)]] = Append(Tail(tasks[n]), Task("undo", Who(n)))]
        /\ Head(tasks[n]).kind = "join" /\ run[n].at # "idle"
    BY <1>n10 DEF JoinFails, RollBack, ReconcileSteps
  <2>2. Home[Who(n)] = n
    BY <1>0, <2>1, FirstTask DEF Waited
  <2> QED
    BY <1>5, <2>1, <2>2
<1>n11. ASSUME NEW n \in Nodes, LeaveDeleted(n) \/ LeaveTold(n) \/ CleanDeleted(n) PROVE Goal
  <2>1. /\ n \in up /\ UNCHANGED up
        /\ \/ EndTask(n)
           \/ run[n].at = "leave_delete" /\ UNCHANGED tasks
              /\ run' = [run EXCEPT ![n] = [run[n] EXCEPT !.at = "leave_tell"]]
           \/ run[n].at = "clean_delete" /\ UNCHANGED tasks
              /\ run' = [run EXCEPT ![n] = [run[n] EXCEPT !.at = "clean_tell"]]
    BY <1>n11 DEF LeaveDeleted, LeaveTold, CleanDeleted, GoOn, At, LeaveEnds
  <2>2. /\ run[n].at = "leave_delete" => Head(tasks[n]).kind = "leave" /\ tasks[n] # <<>>
        /\ run[n].at = "clean_delete" => Head(tasks[n]).kind = "clean" /\ tasks[n] # <<>>
    BY <1>0 DEF Running
  <2>3. "leave_tell" \in Steps /\ "clean_tell" \in Steps
    BY DEF Steps
  <2> QED
    BY <1>5, <1>7, <2>1, <2>2, <2>3 DEF EndTask, ReconcileSteps
<1>n12. ASSUME NEW n \in Nodes, Read(n) \/ Probe(n) \/ EvictLease(n) \/ EvictDelete(n) PROVE Goal
  <2>1. /\ n \in up /\ tasks[n] # <<>> /\ run[n].at \in ReconcileSteps /\ UNCHANGED up
        /\ Head(tasks[n]).kind \in {"join", "check"}
    BY <1>0, <1>n12, ReconcileStep DEF Running
  <2>2. ASSUME NEW local, Goes(n, local) PROVE Goal
    BY <1>6, <2>1, <2>2 DEF Goes, ReconcileSteps, OwnSteps
  <2>3. ASSUME NEW entries, NEW dead, Settles(n, entries, dead) PROVE Goal
    <3>1. tasks' = [tasks EXCEPT ![n] = Tail(@)] /\ run' = [run EXCEPT ![n] = Idle]
      BY <2>1, <2>3, SettlesIs
    <3> QED
      BY <1>5, <2>1, <3>1
  <2> QED
    BY <1>n12, <2>2, <2>3, ReconcileStep
<1>n13. ASSUME NEW n \in Nodes,
              OwnRead(n) \/ OwnTold(n) \/ OwnDeleted(n) \/ OwnSet(n) \/ OwnAdded(n) \/ OwnFails(n)
       PROVE  Goal
  <2>1. /\ n \in up /\ run[n].at \in OwnSteps /\ tasks[n] # <<>> /\ UNCHANGED up
        /\ (\E local : OwnGoes(n, local)) \/ OwnStops(n)
    BY <1>n13, OwnStep
  <2>2. Head(tasks[n]).kind = "own"
    BY <1>0, <2>1 DEF Running
  <2>3. ASSUME NEW local, OwnGoes(n, local) PROVE Goal
    BY <1>6, <2>1, <2>2, <2>3 DEF OwnGoes, ReconcileSteps, OwnSteps
  <2>4. CASE OwnStops(n)
    BY <1>5, <2>1, <2>4 DEF OwnStops
  <2> QED
    BY <2>1, <2>3, <2>4
<1> QED
  BY <1>s1, <1>s2, <1>s3, <1>n1, <1>n2, <1>n3, <1>n4, <1>n5, <1>n6, <1>n7, <1>n8, <1>n9,
     <1>n10, <1>n11, <1>n12, <1>n13 DEF Next, Starts, Replies, Handlers, Fails

(* Sockets do not connect again, and a subscription is not taken back from the used. *)
LEMMA OpenStep ==
  ASSUME Inv, Next PROVE open' \subseteq open /\ used \subseteq used'
<1>1. ASSUME NEW n \in Nodes, Read(n) \/ Probe(n) \/ EvictLease(n) \/ EvictDelete(n)
      PROVE  open' = open /\ used' = used
  BY <1>1, ReconcileStep
<1>2. ASSUME NEW n \in Nodes,
             OwnRead(n) \/ OwnTold(n) \/ OwnDeleted(n) \/ OwnSet(n) \/ OwnAdded(n) \/ OwnFails(n)
      PROVE  open' = open /\ used' = used
  BY <1>2, OwnStep
<1>3. ASSUME NEW s \in Sockets,
             \/ Subscribe(s) \/ Unsubscribe(s) \/ Disconnect(s) \/ Announced(s) \/ UndoDeleted(s)
             \/ UndoTold(s) \/ AnnounceFails(s) \/ UndoDeleteFails(s)
      PROVE  open' \subseteq open /\ used \subseteq used'
  BY <1>3
  DEF Subscribe, Unsubscribe, Disconnect, Announced, UndoDeleted, UndoTold, AnnounceFails, UndoDeleteFails
<1>4. ASSUME NEW n \in Nodes,
             \/ StartLeave(n) \/ StartClean(n) \/ StartOwn(n) \/ StartCheck(n)
             \/ ApplyAdded(n) \/ ApplyRemoved(n) \/ StartJoin(n) \/ Undo(n) \/ Receive(n) \/ CleanTold(n)
             \/ LeaveFails(n) \/ CleanFails(n) \/ CheckFails(n) \/ Expire(n)
      PROVE  open' = open /\ used' = used
  BY <1>4
  DEF StartLeave, StartClean, StartOwn, StartCheck, ApplyAdded, ApplyRemoved, StartJoin, Undo, Receive,
      CleanTold, LeaveFails, CleanFails, CheckFails, Expire
<1>5. ASSUME NEW n \in Nodes,
             \/ JoinLease(n) \/ JoinSet(n) \/ JoinFails(n) \/ LeaveDeleted(n) \/ LeaveTold(n)
             \/ CleanDeleted(n) \/ StartCycle(n) \/ Crash(n)
      PROVE  open' \subseteq open /\ used \subseteq used'
  BY <1>5 DEF JoinLease, JoinSet, JoinFails, LeaveDeleted, LeaveTold, CleanDeleted, StartCycle, Crash
<1> QED
  BY <1>1, <1>2, <1>3, <1>4, <1>5 DEF Next, Starts, Replies, Handlers, Fails

(* Every step keeps one task for each handler that waits. *)
LEMMA PlacedStep ==
  ASSUME Inv, Next, NEW m \in Nodes PROVE Placed(tasks[m], m)'
<1> DEFINE Goal == PlacedBy(tasks'[m], m, handler', open')
           Kept(s) == handler'[s] # handler[s] => Home[s] # m \/ handler[s] \notin Waited
<1>0. /\ tasks \in [Nodes -> Seq(Tasks)] /\ run \in [Nodes -> Runs]
      /\ handler \in [Sockets -> {"idle", "join", "announce", "leave", "undo", "undo_delete", "undo_tell"}]
      /\ PlacedBy(tasks[m], m, handler, open)
      /\ \A n \in Nodes : Running(n)
      /\ \A n \in Nodes : run[n].at # "idle" => tasks[n] # <<>>
      /\ \A s \in Sockets : Home[s] \in Nodes
      /\ Waited = {"join", "leave", "undo"}
  BY DEF Inv, PresenceTypeOK, TaskInv, Running, Placed, PlacedBy, Waited
<1>1. /\ \A s \in Sockets : \A kind \in {"join", "leave", "undo", "clean", "added", "removed"} :
            Task(kind, s) \in Tasks /\ Task(kind, s).kind = kind /\ Task(kind, s).who = s
      /\ \A kind \in {"own", "check"} : Task(kind, None) \in Tasks /\ Task(kind, None).kind = kind
  BY DEF Task, Tasks, Messages
<1>2. open' \subseteq open
  BY OpenStep
<1>c. /\ PlacedBy(tasks[m], m, handler, open) /\ tasks[m] \in Seq(Tasks)
      /\ open' \subseteq open
  BY <1>0, <1>2
<1>3. ASSUME tasks'[m] = tasks[m], \A s \in Sockets : Kept(s) PROVE Goal
  <2>1. PlacedBy(tasks[m], m, handler', open')
    BY <1>c, <1>3, PlacedKept
  <2> QED
    BY <1>3, <2>1
<1>4. ASSUME tasks[m] # <<>>, tasks'[m] = Tail(tasks[m]),
             \A s \in Sockets : Kept(s) \/ (Head(tasks[m]).kind \in Waited /\ Head(tasks[m]).who = s)
      PROVE  Goal
  <2>1. \A s \in Sockets : handler'[s] # handler[s] =>
            Home[s] # m \/ handler[s] \notin Waited
            \/ (Head(tasks[m]).kind \in Waited /\ Head(tasks[m]).who = s)
    BY <1>4
  <2>2. PlacedBy(Tail(tasks[m]), m, handler', open')
    BY <1>c, <1>4, <2>1, PlacedTail
  <2> QED
    BY <1>4, <2>2
<1>5. ASSUME NEW t \in Tasks, tasks'[m] = Append(tasks[m], t), \A s \in Sockets : Kept(s),
             t.kind \in Waited => Home[t.who] = m /\ handler[t.who] \notin Waited /\ handler'[t.who] = t.kind,
             t.kind = "clean" => Home[t.who] = m /\ t.who \notin open'
      PROVE  Goal
  <2>1. PlacedBy(Append(tasks[m], t), m, handler', open')
    BY <1>c, <1>5, PlacedAppend
  <2> QED
    BY <1>5, <2>1
<1>6. ASSUME NEW s \in Sockets, UNCHANGED tasks, handler[s] \notin Waited,
             \A t \in Sockets : t # s => handler'[t] = handler[t]
      PROVE  Goal
  BY <1>3, <1>6
<1>7. ASSUME NEW n \in Nodes, tasks[n] # <<>>, tasks' = [tasks EXCEPT ![n] = Tail(@)],
             \A s \in Sockets : handler'[s] = handler[s] \/
                                 (s = Who(n) /\ Head(tasks[n]).kind \in Waited)
      PROVE  Goal
  <2>1. CASE n = m
    BY <1>0, <1>4, <1>7, <2>1 DEF Who
  <2>2. CASE n # m
    <3>1. Head(tasks[n]).kind \in Waited => Home[Who(n)] = n
      BY <1>7, FirstTask
    <3> QED
      BY <1>0, <1>3, <1>7, <2>2, <3>1
  <2> QED
    BY <2>1, <2>2
<1>8. ASSUME UNCHANGED <<tasks, handler>> PROVE Goal
  BY <1>3, <1>8
<1>s1. ASSUME NEW s \in Sockets, Subscribe(s) \/ Unsubscribe(s) PROVE Goal
  <2>1. PICK kind \in {"join", "leave"} :
          /\ tasks' = [tasks EXCEPT ![Home[s]] = Append(@, Task(kind, s))]
          /\ handler[s] = "idle" /\ handler' = [handler EXCEPT ![s] = kind]
    BY <1>s1 DEF Subscribe, Unsubscribe, Enqueue
  <2>2. /\ \A t \in Sockets : Kept(t)
        /\ handler'[s] = kind
    BY <1>0, <2>1
  <2>3. CASE Home[s] = m
    <3>1. tasks'[m] = Append(tasks[m], Task(kind, s))
      BY <1>0, <2>1, <2>3
    <3>2. Task(kind, s) \in Tasks /\ Task(kind, s).kind = kind /\ Task(kind, s).who = s
      BY <1>1
    <3> QED
      BY <1>0, <1>5, <2>1, <2>2, <2>3, <3>1, <3>2
  <2>4. CASE Home[s] # m
    BY <1>0, <1>3, <2>1, <2>2, <2>4
  <2> QED
    BY <2>3, <2>4
<1>s2. ASSUME NEW s \in Sockets, Disconnect(s) PROVE Goal
  <2>1. /\ tasks' = tasks \/ tasks' = [tasks EXCEPT ![Home[s]] = Append(@, Task("clean", s))]
        /\ open' = open \ {s} /\ UNCHANGED handler
    BY <1>s2 DEF Disconnect, Enqueue
  <2>2. CASE tasks'[m] = tasks[m]
    BY <1>3, <2>1, <2>2
  <2>3. CASE tasks'[m] = Append(tasks[m], Task("clean", s)) /\ Home[s] = m
    <3>1. Task("clean", s) \in Tasks /\ Task("clean", s).kind = "clean" /\ Task("clean", s).who = s
      BY <1>1
    <3>2. "clean" \notin Waited /\ s \notin open' /\ \A t \in Sockets : Kept(t)
      BY <1>0, <2>1
    <3> QED
      BY <1>5, <2>3, <3>1, <3>2
  <2> QED
    BY <1>0, <2>1, <2>2, <2>3
<1>s3. ASSUME NEW s \in Sockets, Announced(s) \/ UndoTold(s) \/ UndoDeleted(s) \/ UndoDeleteFails(s)
       PROVE  Goal
  <2>1. /\ UNCHANGED tasks /\ handler[s] \notin Waited
        /\ \E h : handler' = [handler EXCEPT ![s] = h]
    BY <1>0, <1>s3 DEF Announced, UndoTold, UndoDeleted, UndoDeleteFails, UndoGoesOn
  <2> QED
    BY <1>0, <1>6, <2>1
<1>s4. ASSUME NEW s \in Sockets, AnnounceFails(s) PROVE Goal
  <2>1. /\ tasks' = [tasks EXCEPT ![Home[s]] = Append(tasks[Home[s]], Task("undo", s))]
        /\ handler[s] = "announce" /\ handler' = [handler EXCEPT ![s] = "undo"]
    BY <1>s4 DEF AnnounceFails, RollBack
  <2>2. (\A t \in Sockets : Kept(t)) /\ handler'[s] = "undo"
    BY <1>0, <2>1
  <2>3. CASE Home[s] = m
    <3>1. tasks'[m] = Append(tasks[m], Task("undo", s))
      BY <1>0, <2>1, <2>3
    <3>2. Task("undo", s) \in Tasks /\ Task("undo", s).kind = "undo" /\ Task("undo", s).who = s
      BY <1>1
    <3> QED
      BY <1>0, <1>5, <2>1, <2>2, <2>3, <3>1, <3>2
  <2>4. CASE Home[s] # m
    BY <1>0, <1>3, <2>1, <2>2, <2>4
  <2> QED
    BY <2>3, <2>4
<1>n1. ASSUME NEW n \in Nodes, StartJoin(n) \/ Undo(n) PROVE Goal
  <2>1. /\ tasks[n] # <<>> /\ Head(tasks[n]).kind \in Waited
        /\ \/ UNCHANGED <<tasks, handler>>
           \/ EndTask(n) /\ \E h : handler' = [handler EXCEPT ![Who(n)] = h]
    BY <1>0, <1>n1 DEF StartJoin, Undo, Starting
  <2> QED
    BY <1>0, <1>7, <1>8, <2>1 DEF EndTask
<1>n2. ASSUME NEW n \in Nodes,
              \/ StartOwn(n) \/ StartCheck(n) \/ StartLeave(n) \/ StartClean(n) \/ Expire(n)
              \/ JoinLease(n) \/ JoinSet(n)
       PROVE  Goal
  BY <1>8, <1>n2 DEF StartOwn, StartCheck, StartLeave, StartClean, Expire, JoinLease, JoinSet, GoOn
<1>n3. ASSUME NEW n \in Nodes, ApplyAdded(n) \/ ApplyRemoved(n) PROVE Goal
  BY <1>7, <1>n3 DEF ApplyAdded, ApplyRemoved, Starting, EndTask
<1>n4. ASSUME NEW n \in Nodes, CleanFails(n) \/ CheckFails(n) \/ CleanTold(n) PROVE Goal
  BY <1>0, <1>7, <1>n4 DEF CleanFails, CheckFails, CleanTold, EndTask, ReconcileSteps
<1>n5. ASSUME NEW n \in Nodes, Receive(n) PROVE Goal
  <2>1. inbox[n] # <<>> /\ inbox \in [Nodes -> Seq(Messages)]
    BY <1>n5 DEF Receive, Inv, PresenceTypeOK
  <2>2. Head(inbox[n]) \in Messages
    BY <2>1, Queues
  <2>3. /\ Head(inbox[n]) \in Tasks /\ Head(inbox[n]).kind \notin Waited /\ Head(inbox[n]).kind # "clean"
    BY <1>0, <2>2 DEF Messages, Tasks
  <2>4. UNCHANGED handler /\ tasks' = [tasks EXCEPT ![n] = Append(@, Head(inbox[n]))]
    BY <1>n5 DEF Receive
  <2>5. tasks'[m] = tasks[m] \/ tasks'[m] = Append(tasks[m], Head(inbox[n]))
    BY <1>0, <2>4
  <2> QED
    BY <1>3, <1>5, <2>3, <2>4, <2>5
<1>n6. ASSUME NEW n \in Nodes, StartCycle(n) PROVE Goal
  <2>1. /\ UNCHANGED handler
        /\ \/ tasks' = tasks
           \/ tasks' = [tasks EXCEPT ![n] = Append(@, Task("own", None))]
           \/ tasks' = [tasks EXCEPT ![n] = Append(@, Task("check", None))]
    BY <1>n6 DEF StartCycle, Enqueue
  <2>2. \/ tasks'[m] = tasks[m] \/ tasks'[m] = Append(tasks[m], Task("own", None))
        \/ tasks'[m] = Append(tasks[m], Task("check", None))
    BY <1>0, <2>1
  <2> QED
    BY <1>0, <1>1, <1>3, <1>5, <2>1, <2>2
<1>n7. ASSUME NEW n \in Nodes, Crash(n) PROVE Goal
  <2>1. /\ tasks' = [tasks EXCEPT ![n] = <<>>]
        /\ handler' = [s \in Sockets |-> IF Home[s] = n THEN "idle" ELSE handler[s]]
    BY <1>n7 DEF Crash
  <2>2. CASE n = m
    <3>1. tasks'[m] = <<>> /\ DOMAIN tasks'[m] = {}
      BY <1>0, <2>1, <2>2
    <3> QED
      BY <3>1 DEF PlacedBy
  <2>3. CASE n # m
    BY <1>0, <1>3, <2>1, <2>3
  <2> QED
    BY <2>2, <2>3
<1>n8. ASSUME NEW n \in Nodes, JoinFails(n) PROVE Goal
  <2>1. /\ tasks' = [tasks EXCEPT ![Home[Who(n)]] = Append(Tail(tasks[n]), Task("undo", Who(n)))]
        /\ Head(tasks[n]).kind = "join" /\ tasks[n] # <<>>
        /\ handler' = [handler EXCEPT ![Who(n)] = "undo"]
    BY <1>0, <1>n8 DEF JoinFails, RollBack, ReconcileSteps
  <2>2. Who(n) \in Sockets /\ Home[Who(n)] = n /\ handler[Who(n)] = "join"
    BY <1>0, <2>1, FirstTask
  <2>3. CASE n = m
    <3> DEFINE mid == [handler EXCEPT ![Who(n)] = "idle"]
    <3>1. PlacedBy(Tail(tasks[m]), m, mid, open')
      <4>1. \A s \in Sockets : mid[s] # handler[s] => s = Who(n)
        BY <1>0
      <4> HIDE DEF mid
      <4> QED
        BY <1>0, <1>2, <2>1, <2>3, <4>1, PlacedTail DEF Who
    <3>2. /\ Tail(tasks[m]) \in Seq(Tasks) /\ tasks'[m] = Append(Tail(tasks[m]), Task("undo", Who(n)))
          /\ mid[Who(n)] = "idle" /\ handler'[Who(n)] = "undo"
          /\ \A s \in Sockets : handler'[s] # mid[s] => s = Who(n)
      BY <1>0, <2>1, <2>2, <2>3, Queues
    <3>3. /\ Task("undo", Who(n)) \in Tasks /\ Task("undo", Who(n)).kind = "undo"
          /\ Task("undo", Who(n)).who = Who(n)
      BY <1>1, <2>2
    <3> DEFINE t == Task("undo", Who(n))
    <3>4. t \in Tasks /\ t.kind = "undo" /\ t.who = Who(n)
      BY <3>3
    <3> HIDE DEF mid, t
    <3>5. /\ t.kind \in Waited => Home[t.who] = m /\ mid[t.who] \notin Waited /\ handler'[t.who] = t.kind
          /\ t.kind # "clean"
          /\ \A s \in Sockets : handler'[s] # mid[s] => Home[s] # m \/ mid[s] \notin Waited
      BY <1>0, <2>2, <2>3, <3>2, <3>4
    <3>6. PlacedBy(Append(Tail(tasks[m]), t), m, handler', open')
      BY <3>1, <3>2, <3>4, <3>5, PlacedAppend
    <3> QED
      BY <3>2, <3>6 DEF t
  <2>4. CASE n # m
    BY <1>0, <1>3, <2>1, <2>2, <2>4
  <2> QED
    BY <2>3, <2>4
<1>n9. ASSUME NEW n \in Nodes, LeaveFails(n) \/ LeaveDeleted(n) \/ LeaveTold(n) PROVE Goal
  <2>1. /\ run[n].at \in {"leave_delete", "leave_tell"}
        /\ \/ UNCHANGED <<tasks, handler>>
           \/ EndTask(n) /\ handler' = [handler EXCEPT ![Who(n)] = "idle"]
    BY <1>n9 DEF LeaveFails, LeaveDeleted, LeaveTold, LeaveEnds, GoOn
  <2>2. tasks[n] # <<>> /\ Head(tasks[n]).kind \in Waited
    BY <1>0, <2>1 DEF Running
  <2> QED
    BY <1>0, <1>7, <1>8, <2>1, <2>2 DEF EndTask
<1>n10. ASSUME NEW n \in Nodes, CleanDeleted(n) PROVE Goal
  <2>1. UNCHANGED handler /\ (UNCHANGED tasks \/ (EndTask(n) /\ tasks[n] # <<>>))
    BY <1>0, <1>n10 DEF CleanDeleted, GoOn
  <2> QED
    BY <1>7, <1>8, <2>1 DEF EndTask
<1>n11. ASSUME NEW n \in Nodes, Read(n) \/ Probe(n) \/ EvictLease(n) \/ EvictDelete(n) PROVE Goal
  <2>1. tasks[n] # <<>> /\ run[n].at \in ReconcileSteps
    BY <1>n11, ReconcileStep
  <2>2. ASSUME NEW local, Goes(n, local) PROVE Goal
    BY <1>8, <2>2 DEF Goes
  <2>3. ASSUME NEW entries, NEW dead, Settles(n, entries, dead) PROVE Goal
    <3>1. /\ tasks' = [tasks EXCEPT ![n] = Tail(@)]
          /\ \/ UNCHANGED handler
             \/ Head(tasks[n]).kind \in Waited /\ handler' = [handler EXCEPT ![Who(n)] = "announce"]
      BY <1>0, <2>1, <2>3, SettlesIs
    <3> QED
      BY <1>0, <1>7, <2>1, <3>1
  <2> QED
    BY <1>n11, <2>2, <2>3, ReconcileStep
<1>n12. ASSUME NEW n \in Nodes,
              OwnRead(n) \/ OwnTold(n) \/ OwnDeleted(n) \/ OwnSet(n) \/ OwnAdded(n) \/ OwnFails(n)
       PROVE  Goal
  <2>1. /\ tasks[n] # <<>> /\ UNCHANGED handler
        /\ (\E local : OwnGoes(n, local)) \/ OwnStops(n)
    BY <1>n12, OwnStep
  <2>2. ASSUME NEW local, OwnGoes(n, local) PROVE Goal
    BY <1>8, <2>1, <2>2 DEF OwnGoes
  <2>3. CASE tasks' = [tasks EXCEPT ![n] = Tail(@)]
    BY <1>7, <2>1, <2>3
  <2>4. CASE tasks' = [tasks EXCEPT ![n] = Append(Tail(@), Task("check", None))]
    <3>1. CASE n = m
      <4>1. Tail(tasks[m]) \in Seq(Tasks) /\ PlacedBy(Tail(tasks[m]), m, handler, open)
        BY <1>0, <2>1, <3>1, Queues, PlacedTail
      <4>2. tasks'[m] = Append(Tail(tasks[m]), Task("check", None)) /\ handler' = handler
        BY <1>0, <2>1, <2>4, <3>1
      <4> DEFINE t == Task("check", None)
      <4>3. t \in Tasks /\ t.kind \notin Waited /\ t.kind # "clean"
        BY <1>0, <1>1
      <4> HIDE DEF t
      <4>4. PlacedBy(Append(Tail(tasks[m]), t), m, handler, open')
        BY <1>2, <4>1, <4>3, PlacedAppend
      <4> QED
        BY <4>2, <4>4 DEF t
    <3>2. CASE n # m
      BY <1>0, <1>3, <2>1, <2>4, <3>2
    <3> QED
      BY <3>1, <3>2
  <2> QED
    BY <2>1, <2>2, <2>3, <2>4 DEF OwnStops
<1> HIDE DEF Kept
<1>9. Goal
  BY <1>s1, <1>s2, <1>s3, <1>s4, <1>n1, <1>n2, <1>n3, <1>n4, <1>n5, <1>n6, <1>n7, <1>n8, <1>n9,
     <1>n10, <1>n11, <1>n12 DEF Next, Starts, Replies, Handlers, Fails
<1> QED
  BY <1>9 DEF Placed, PlacedBy

-----------------------------------------------------------------------------
(* Who shows a roster, and what a task works on *)

(* Every step leaves a roster with connected subscribers only. *)
LEMMA ShownStep ==
  ASSUME Inv, Next PROVE ShownInv'
<1> DEFINE Shown(s) == /\ view'[s] # None => s \in open' \cap used' /\ handler'[s] \in {"idle", "leave"}
                       /\ handler'[s] # "idle" \/ s \in subscribed' => s \in used'
<1> SUFFICES ASSUME NEW s \in Sockets PROVE Shown(s)
  BY DEF ShownInv
<1>0. /\ handler \in [Sockets -> {"idle", "join", "announce", "leave", "undo", "undo_delete", "undo_tell"}]
      /\ view \in [Sockets -> Rosters] /\ open \subseteq Sockets
      /\ \A t \in Sockets :
           /\ view[t] # None => t \in open \cap used /\ handler[t] \in {"idle", "leave"}
           /\ handler[t] # "idle" \/ t \in subscribed => t \in used
      /\ \A n \in Nodes : run[n].at # "idle" => tasks[n] # <<>>
  BY DEF Inv, PresenceTypeOK, ShownInv, TaskInv, Running
<1>1. ASSUME UNCHANGED <<used, open, handler>>, subscribed' \subseteq subscribed, view[s] = None => view'[s] = None
      PROVE  Shown(s)
  BY <1>0, <1>1
<1>2. ASSUME NEW t \in Sockets,
             \/ Subscribe(t) \/ Unsubscribe(t) \/ Disconnect(t) \/ Announced(t) \/ UndoDeleted(t)
             \/ UndoTold(t) \/ UndoDeleteFails(t) \/ AnnounceFails(t)
      PROVE  Shown(s)
  <2>1. CASE Subscribe(t) \/ Unsubscribe(t)
    BY <1>0, <2>1 DEF Subscribe, Unsubscribe, Live, socketVars
  <2>2. CASE Disconnect(t)
    BY <1>0, <2>2 DEF Disconnect
  <2>3. CASE Announced(t)
    BY <1>0, <2>3 DEF Announced, socketVars
  <2>4. CASE UndoDeleted(t) \/ UndoTold(t) \/ UndoDeleteFails(t)
    BY <1>0, <2>4 DEF UndoDeleted, UndoTold, UndoDeleteFails, UndoGoesOn, socketVars
  <2>5. CASE AnnounceFails(t)
    BY <1>0, <2>5 DEF AnnounceFails, RollBack
  <2> QED
    BY <1>2, <2>1, <2>2, <2>3, <2>4, <2>5
<1>3. ASSUME NEW n \in Nodes,
             \/ StartLeave(n) \/ StartOwn(n) \/ StartCheck(n) \/ Receive(n) \/ CleanTold(n)
             \/ CleanFails(n) \/ CheckFails(n) \/ Expire(n) \/ StartCycle(n) \/ JoinLease(n) \/ JoinSet(n)
             \/ CleanDeleted(n)
      PROVE  Shown(s)
  BY <1>1, <1>3
  DEF StartLeave, StartOwn, StartCheck, Receive, CleanTold, CleanFails, CheckFails, Expire, StartCycle,
      JoinLease, JoinSet, CleanDeleted, GoOn, socketVars
<1>4. ASSUME NEW n \in Nodes, StartJoin(n) \/ LeaveFails(n) PROVE Shown(s)
  BY <1>0, <1>4 DEF StartJoin, LeaveFails, socketVars
<1>5. ASSUME NEW n \in Nodes, StartClean(n) \/ ApplyRemoved(n) PROVE Shown(s)
  <2>1. view[s] = None => view'[s] = None
    BY <1>5, LeavesIs DEF StartClean, ApplyRemoved
  <2> QED
    BY <1>1, <1>5, <2>1 DEF StartClean, ApplyRemoved, socketVars
<1>6. ASSUME NEW n \in Nodes, Undo(n) PROVE Shown(s)
  <2>1. /\ view[s] = None => view'[s] = None
        /\ handler' = [handler EXCEPT ![Who(n)] = "undo_delete"] /\ UNCHANGED <<used, open>>
        /\ subscribed' \subseteq subscribed
        /\ tasks[n] # <<>> /\ Head(tasks[n]).kind = "undo"
    BY <1>6, LeavesIs DEF Undo, Starting, socketVars
  <2>2. handler[Who(n)] = "undo"
    BY <2>1, FirstTask DEF Waited
  <2> QED
    BY <1>0, <2>1, <2>2
<1>7. ASSUME NEW n \in Nodes, ApplyAdded(n) PROVE Shown(s)
  <2>1. Who(n) \in Sockets
    BY <1>7, FirstTask DEF ApplyAdded, Starting
  <2>2. {User[Who(n)]} \ Roster(seen[n]) \in SUBSET Roster(Sockets)
    BY <2>1 DEF Roster
  <2>3. view' = Deliver(n, None, {}, {User[Who(n)]} \ Roster(seen[n]))
    BY <1>7 DEF ApplyAdded
  <2>4. view[s] = None => view'[s] = None
    BY <2>2, <2>3, DeliverIs
  <2> QED
    BY <1>1, <1>7, <2>4 DEF ApplyAdded, socketVars
<1>8. ASSUME NEW n \in Nodes, JoinFails(n) PROVE Shown(s)
  <2>1. /\ tasks[n] # <<>> /\ Head(tasks[n]).kind = "join" /\ UNCHANGED <<used, open>>
        /\ subscribed' \subseteq subscribed
        /\ handler' = [handler EXCEPT ![Who(n)] = "undo"] /\ view' = [view EXCEPT ![Who(n)] = None]
    BY <1>0, <1>8 DEF JoinFails, RollBack, ReconcileSteps
  <2>2. handler[Who(n)] = "join"
    BY <2>1, FirstTask DEF Waited
  <2> QED
    BY <1>0, <2>1, <2>2
<1>9. ASSUME NEW n \in Nodes, LeaveDeleted(n) \/ LeaveTold(n) PROVE Shown(s)
  <2>1. UNCHANGED <<used, open>> /\ subscribed' \subseteq subscribed
    BY <1>9 DEF LeaveDeleted, LeaveTold, LeaveEnds
  <2>2. CASE UNCHANGED <<handler, view>>
    BY <1>1, <2>1, <2>2
  <2>3. CASE LeaveEnds(n)
    <3> DEFINE come == {}
               delivered == Deliver(n, Who(n), Roster(seen[n]) \ Roster(seen[n] \ {Who(n)}), {})
    <3>1. come \in SUBSET Roster(Sockets)
      OBVIOUS
    <3>2. view[s] = None => delivered[s] = None
      BY <3>1, DeliverIs
    <3>3. view' = [delivered EXCEPT ![Who(n)] = None] /\ handler' = [handler EXCEPT ![Who(n)] = "idle"]
      BY <2>3 DEF LeaveEnds
    <3>4. delivered \in [Sockets -> Rosters]
      BY <3>1, DeliverIs
    <3> HIDE DEF delivered
    <3> QED
      BY <1>0, <2>1, <3>2, <3>3, <3>4
  <2> QED
    BY <1>9, <2>2, <2>3 DEF LeaveDeleted, LeaveTold, GoOn
<1>10. ASSUME NEW n \in Nodes, Crash(n) PROVE Shown(s)
  BY <1>0, <1>10 DEF Crash, Own
<1>11. ASSUME NEW n \in Nodes, Read(n) \/ Probe(n) \/ EvictLease(n) \/ EvictDelete(n) PROVE Shown(s)
  <2>1. UNCHANGED <<open, used, subscribed>> /\ run[n].at \in ReconcileSteps /\ tasks[n] # <<>>
    BY <1>11, ReconcileStep
  <2>2. ASSUME NEW local, Goes(n, local) PROVE Shown(s)
    BY <1>1, <2>1, <2>2 DEF Goes
  <2>3. ASSUME NEW entries, NEW dead, Settles(n, entries, dead) PROVE Shown(s)
    <3>1. entries \in SUBSET Sockets
      BY <2>3 DEF Settles
    <3>2. CASE UNCHANGED <<joined, handler>> /\ Leaves(n, dead, None)
      BY <1>1, <2>1, <3>2, LeavesIs
    <3>3. CASE /\ SettleJoin(n, entries, dead) /\ handler' = [handler EXCEPT ![Who(n)] = "announce"]
               /\ Who(n) \in Sockets /\ handler[Who(n)] = "join"
      <4>1. view[s] = None => view'[s] = None
        BY <3>1, <3>3, SettleJoinIs
      <4>2. s = Who(n) => view'[s] = view[s]
        BY <3>1, <3>3, SettleJoinIs
      <4> QED
        BY <1>0, <2>1, <3>3, <4>1, <4>2
    <3> QED
      BY <2>1, <2>3, <3>2, <3>3, SettlesIs
  <2> QED
    BY <1>11, <2>2, <2>3, ReconcileStep
<1>12. ASSUME NEW n \in Nodes,
              OwnRead(n) \/ OwnTold(n) \/ OwnDeleted(n) \/ OwnSet(n) \/ OwnAdded(n) \/ OwnFails(n)
       PROVE  Shown(s)
  BY <1>1, <1>12, OwnStep
<1> HIDE DEF Shown
<1> QED
  BY <1>2, <1>3, <1>4, <1>5, <1>6, <1>7, <1>8, <1>9, <1>10, <1>11, <1>12
  DEF Next, Starts, Replies, Handlers, Fails

(* Every step of a task stays with its worker's sockets, or with the dead. *)
LEMMA LocalStep ==
  ASSUME Inv, Next PROVE LocalInv'
<1> DEFINE Local(m) ==
             /\ run'[m].at \in {"evict", "delete"} => run'[m].todo \subseteq run'[m].dead
             /\ run'[m].at = "probe" => m \notin run'[m].todo
             /\ run'[m].at \in OwnSteps => run'[m].todo \subseteq Own(m)
             /\ run'[m].at \in OwnSteps \ {"own_read"} => run'[m].who \in Own(m)
<1> SUFFICES ASSUME NEW m \in Nodes PROVE Local(m)
  BY DEF LocalInv, Own
<1>0. /\ run \in [Nodes -> Runs]
      /\ run[m].at \in {"evict", "delete"} => run[m].todo \subseteq run[m].dead
      /\ run[m].at = "probe" => m \notin run[m].todo
      /\ run[m].at \in OwnSteps => run[m].todo \subseteq Own(m)
      /\ run[m].at \in OwnSteps \ {"own_read"} => run[m].who \in Own(m)
  BY DEF Inv, PresenceTypeOK, LocalInv, TaskInv
<1>1. ASSUME run'[m] = run[m] PROVE Local(m)
  BY <1>0, <1>1
<1>2. ASSUME run'[m].at \notin {"probe", "evict", "delete"} \cup OwnSteps PROVE Local(m)
  BY <1>2
<1>3. /\ Idle.at = "idle" /\ Idle.todo = {} /\ OwnSteps \subseteq Steps /\ "idle" \notin OwnSteps
      /\ OwnSteps = {"own_read", "own_tell", "own_delete", "own_set", "own_add"}
  BY DEF Idle, OwnSteps, Steps
<1>4. ASSUME NEW n \in Nodes, run' = [run EXCEPT ![n] = Idle] PROVE Local(m)
  BY <1>0, <1>1, <1>2, <1>3, <1>4
<1>5. ASSUME NEW n \in Nodes, NEW r \in Runs,
             NEW step \in {"lease", "set", "read", "leave_delete", "leave_tell", "clean_delete",
                           "clean_tell"},
             At(n, step, r)
      PROVE  Local(m)
  <2>1. [r EXCEPT !.at = step].at = step
    BY RunRecord DEF Steps, ReconcileSteps
  <2> QED
    BY <1>0, <1>1, <1>2, <1>3, <1>5, <2>1 DEF At
<1>6. ASSUME NEW s \in Sockets,
             \/ Subscribe(s) \/ Unsubscribe(s) \/ Disconnect(s) \/ Announced(s) \/ UndoDeleted(s)
             \/ UndoTold(s) \/ UndoDeleteFails(s) \/ AnnounceFails(s)
      PROVE  Local(m)
  BY <1>1, <1>6
  DEF Subscribe, Unsubscribe, Disconnect, Announced, UndoDeleted, UndoTold, UndoDeleteFails, AnnounceFails,
      redisVars
<1>7. ASSUME NEW n \in Nodes, Receive(n) \/ StartCycle(n) \/ Expire(n) PROVE Local(m)
  BY <1>1, <1>7 DEF Receive, StartCycle, Expire
<1>8. ASSUME NEW n \in Nodes,
             \/ CleanTold(n) \/ CleanFails(n) \/ CheckFails(n) \/ LeaveFails(n) \/ JoinFails(n)
             \/ Crash(n) \/ Undo(n) \/ ApplyAdded(n) \/ ApplyRemoved(n)
      PROVE  Local(m)
  BY <1>4, <1>8
  DEF CleanTold, CleanFails, CheckFails, LeaveFails, JoinFails, Crash, Undo, ApplyAdded, ApplyRemoved,
      EndTask
<1>9. ASSUME NEW n \in Nodes, StartJoin(n) \/ StartOwn(n) \/ StartCheck(n) PROVE Local(m)
  <2>1. Idle \in Runs
    BY DEF Idle, Runs, Steps
  <2>2. EndTask(n) \/ At(n, "lease", Idle) \/ At(n, "own_read", Idle) \/ At(n, "read", Idle)
    BY <1>9 DEF StartJoin, StartOwn, StartCheck
  <2>3. CASE At(n, "own_read", Idle)
    <3>1. [Idle EXCEPT !.at = "own_read"].at = "own_read" /\ [Idle EXCEPT !.at = "own_read"].todo = {}
      BY DEF Idle
    <3> QED
      BY <1>0, <1>1, <1>3, <2>2, <2>3, <3>1 DEF At
  <2> QED
    BY <1>4, <1>5, <2>1, <2>2, <2>3 DEF EndTask
<1>10. ASSUME NEW n \in Nodes, StartLeave(n) \/ StartClean(n) PROVE Local(m)
  <2> DEFINE flag == Who(n) \in seen[n]
             r == [Idle EXCEPT !.flag = flag]
  <2>1. At(n, "leave_delete", r) \/ At(n, "clean_delete", r)
    BY <1>10 DEF StartLeave, StartClean
  <2>2. flag \in BOOLEAN
    OBVIOUS
  <2> HIDE DEF flag
  <2>3. r \in Runs
    BY <2>2 DEF Idle, Runs, Steps
  <2> QED
    BY <1>5, <2>1, <2>3
<1>11. ASSUME NEW n \in Nodes, JoinLease(n) \/ JoinSet(n) PROVE Local(m)
  BY <1>0, <1>5, <1>11 DEF JoinLease, JoinSet, GoOn
<1>13. ASSUME NEW n \in Nodes, LeaveDeleted(n) \/ LeaveTold(n) \/ CleanDeleted(n) PROVE Local(m)
  <2>1. EndTask(n) \/ At(n, "leave_tell", run[n]) \/ At(n, "clean_tell", run[n])
    BY <1>13 DEF LeaveDeleted, LeaveTold, CleanDeleted, LeaveEnds, GoOn
  <2> QED
    BY <1>0, <1>4, <1>5, <2>1 DEF EndTask
<1>15. ASSUME NEW n \in Nodes, Read(n) \/ Probe(n) \/ EvictLease(n) \/ EvictDelete(n) PROVE Local(m)
  <2>1. lease \subseteq lease' /\ run[n].at \in ReconcileSteps /\ tasks[n] # <<>>
    BY <1>15, ReconcileStep
  <2>2. ASSUME NEW local, Goes(n, local) PROVE Local(m)
    BY <1>0, <1>1, <1>3, <2>1, <2>2 DEF Goes, ReconcileSteps
  <2>3. ASSUME NEW entries, NEW dead, Settles(n, entries, dead) PROVE Local(m)
    BY <1>4, <2>1, <2>3, SettlesIs
  <2> QED
    BY <1>15, <2>2, <2>3, ReconcileStep
<1>16. ASSUME NEW n \in Nodes,
              OwnRead(n) \/ OwnTold(n) \/ OwnDeleted(n) \/ OwnSet(n) \/ OwnAdded(n) \/ OwnFails(n)
       PROVE  Local(m)
  <2>1. ASSUME NEW local, OwnGoes(n, local) PROVE Local(m)
    BY <1>0, <1>1, <1>3, <2>1 DEF OwnGoes
  <2>2. ASSUME OwnStops(n) PROVE Local(m)
    BY <1>4, <2>2 DEF OwnStops
  <2> QED
    BY <1>16, <2>1, <2>2, OwnStep
<1> HIDE DEF Local
<1> QED
  BY <1>6, <1>7, <1>8, <1>9, <1>10, <1>11, <1>13, <1>15, <1>16
  DEF Next, Starts, Replies, Handlers, Fails

-----------------------------------------------------------------------------
(* How far a subscription is, and who is unknown until it has written its entry *)

(* The running task stays the first. *)
LEMMA HeadKept ==
  ASSUME Inv, NEW n \in Nodes, run[n].at # "idle",
         tasks'[n] = tasks[n] \/ \E t \in Tasks : tasks'[n] = Append(tasks[n], t)
  PROVE  Head(tasks'[n]) = Head(tasks[n])
<1>1. tasks[n] \in Seq(Tasks) /\ tasks[n] # <<>>
  BY RunIs DEF Inv, PresenceTypeOK
<1>2. ASSUME NEW t \in Tasks PROVE Head(Append(tasks[n], t)) = Head(tasks[n])
  BY <1>1, Queues
<1> QED
  BY <1>2

(* A subscription that reads the roster is its handler's. *)
LEMMA EnteredIs ==
  ASSUME Inv, NEW s \in Sockets, Entered(s)
  PROVE  Head(tasks[Home[s]]).kind = "join" /\ handler[s] = "join" /\ s \in used
<1>1. /\ run[Home[s]].at \in ReconcileSteps /\ Who(Home[s]) = s /\ Home[s] \in Nodes
      /\ tasks[Home[s]] # <<>> /\ Head(tasks[Home[s]]).kind \in {"join", "check"}
  BY DEF Entered, Inv, TaskInv, Running, ReconcileSteps
<1>2. Head(tasks[Home[s]]).kind = "join" /\ handler[s] = "join"
  BY <1>1, FirstTask DEF Waited
<1> QED
  BY <1>2 DEF Inv, ShownInv

(* A handler that waits for its subscription goes forward only. *)
LEMMA JoinProgress ==
  ASSUME Inv, Next, NEW s \in Sockets, handler'[s] = "join"
  PROVE  /\ used \subseteq used' /\ (handler[s] = "join" \/ s \notin used)
         /\ Entered(s) => Entered(s)'
         /\ Entered(s)' => Entered(s) \/ (JoinSet(Home[s]) /\ Who(Home[s]) = s /\ handler[s] = "join")
         /\ Leased(s)' => Leased(s) \/ JoinLease(Home[s])
<1> DEFINE h == Home[s]
           Goal == /\ used \subseteq used' /\ (handler[s] = "join" \/ s \notin used)
                   /\ Entered(s) => Entered(s)'
                   /\ Entered(s)' => Entered(s) \/ (JoinSet(h) /\ Who(h) = s /\ handler[s] = "join")
                   /\ Leased(s)' => Leased(s) \/ JoinLease(h)
<1>0. /\ tasks \in [Nodes -> Seq(Tasks)] /\ run \in [Nodes -> Runs] /\ h \in Nodes /\ s # None
      /\ handler \in [Sockets -> {"idle", "join", "announce", "leave", "undo", "undo_delete", "undo_tell"}]
      /\ \A n \in Nodes : run[n].at # "idle" => tasks[n] # <<>>
      /\ \A n \in Nodes : Running(n)
      /\ Idle.at = "idle" /\ "idle" \notin ReconcileSteps /\ OwnSteps \cap ReconcileSteps = {}
      /\ ReconcileSteps = {"read", "probe", "evict", "delete"} /\ "set" \notin OwnSteps
  BY DEF Inv, PresenceTypeOK, TaskInv, Running, Idle, OwnSteps, ReconcileSteps
<1>1. \A t \in Sockets : \A kind \in {"join", "leave", "undo", "clean", "added", "removed"} :
          Task(kind, t) \in Tasks
  BY DEF Task, Tasks, Messages
<1>2. Task("own", None) \in Tasks /\ Task("check", None) \in Tasks
  BY DEF Task, Tasks
<1>3. Entered(s) => Head(tasks[h]).kind = "join" /\ handler[s] = "join" /\ s \in used
  BY EnteredIs
<1>a. ASSUME run'[h] = run[h], tasks'[h] = tasks[h] \/ \E t \in Tasks : tasks'[h] = Append(tasks[h], t),
             used \subseteq used', handler[s] = "join" \/ s \notin used
      PROVE  Goal
  <2>1. run[h].at # "idle" => Head(tasks'[h]) = Head(tasks[h])
    BY <1>0, <1>a, HeadKept
  <2> QED
    BY <1>0, <1>a, <2>1 DEF Entered, Leased, Who
<1>e. ASSUME NEW n \in Nodes, UNCHANGED used, run' = [run EXCEPT ![n] = Idle],
             n = h \/ tasks'[h] = tasks[h], handler'[s] = handler[s], tasks[n] # <<>>,
             Head(tasks[n]).kind # "join" \/ Who(n) # s
      PROVE  Goal
  <2>1. CASE n = h
    BY <1>0, <1>3, <1>e, <2>1 DEF Entered, Leased
  <2>2. CASE n # h
    BY <1>0, <1>a, <1>e, <2>2
  <2> QED
    BY <2>1, <2>2
<1>g. ASSUME NEW n \in Nodes, NEW r, run' = [run EXCEPT ![n] = r], UNCHANGED <<used, tasks>>,
             handler'[s] = handler[s], (r.at \in ReconcileSteps) <=> (run[n].at \in ReconcileSteps),
             r.at # "set"
      PROVE  Goal
  BY <1>0, <1>g DEF Entered, Leased, Who
<1>i. ASSUME NEW n \in Nodes, run'[n].at \notin ReconcileSteps, run[n].at \notin ReconcileSteps,
             run'[n].at # "set" \/ JoinLease(n), n = h \/ run'[h] = run[h], UNCHANGED <<used, tasks>>,
             handler'[s] = handler[s]
      PROVE  Goal
  <2>1. CASE n = h
    BY <1>i, <2>1 DEF Entered, Leased
  <2>2. CASE n # h
    BY <1>a, <1>i, <2>2
  <2> QED
    BY <2>1, <2>2
<1>s1. ASSUME NEW t \in Sockets, Subscribe(t) \/ Unsubscribe(t) PROVE Goal
  <2>1. \/ tasks' = [tasks EXCEPT ![Home[t]] = Append(@, Task("join", t))]
        \/ tasks' = [tasks EXCEPT ![Home[t]] = Append(@, Task("leave", t))]
    BY <1>s1 DEF Subscribe, Unsubscribe, Enqueue
  <2>2. tasks'[h] = tasks[h] \/ tasks'[h] = Append(tasks[h], Task("join", t))
        \/ tasks'[h] = Append(tasks[h], Task("leave", t))
    BY <1>0, <2>1
  <2>3. /\ UNCHANGED run /\ used \subseteq used' /\ (handler[s] = "join" \/ s \notin used)
    BY <1>0, <1>s1 DEF Subscribe, Unsubscribe
  <2> QED
    BY <1>1, <1>a, <2>2, <2>3
<1>s2. ASSUME NEW t \in Sockets, Disconnect(t) PROVE Goal
  <2>1. /\ tasks' = tasks \/ tasks' = [tasks EXCEPT ![Home[t]] = Append(@, Task("clean", t))]
        /\ UNCHANGED <<run, used, handler>>
    BY <1>s2 DEF Disconnect, Enqueue
  <2>2. tasks'[h] = tasks[h] \/ tasks'[h] = Append(tasks[h], Task("clean", t))
    BY <1>0, <2>1
  <2> QED
    BY <1>1, <1>a, <2>1, <2>2
<1>s3. ASSUME NEW t \in Sockets, Announced(t) \/ UndoTold(t) \/ UndoDeleted(t) \/ UndoDeleteFails(t)
       PROVE  Goal
  <2>1. UNCHANGED <<run, used, tasks>> /\ handler[s] = "join"
    BY <1>0, <1>s3 DEF Announced, UndoTold, UndoDeleted, UndoDeleteFails, UndoGoesOn
  <2> QED
    BY <1>0, <1>a, <2>1
<1>s4. ASSUME NEW t \in Sockets, AnnounceFails(t) PROVE Goal
  <2>1. /\ tasks' = [tasks EXCEPT ![Home[t]] = Append(tasks[Home[t]], Task("undo", t))]
        /\ UNCHANGED <<run, used>> /\ handler' = [handler EXCEPT ![t] = "undo"]
    BY <1>s4 DEF AnnounceFails, RollBack
  <2>2. tasks'[h] = tasks[h] \/ tasks'[h] = Append(tasks[h], Task("undo", t))
    BY <1>0, <2>1
  <2> QED
    BY <1>0, <1>1, <1>a, <2>1, <2>2
<1>n1. ASSUME NEW n \in Nodes, StartJoin(n) \/ Undo(n) PROVE Goal
  <2>1. /\ tasks[n] # <<>> /\ run[n].at = "idle" /\ UNCHANGED used
        /\ \/ UNCHANGED <<tasks, handler>> /\ At(n, "lease", Idle)
           \/ EndTask(n) /\ Who(n) # s /\ handler'[s] = handler[s]
    BY <1>0, <1>n1 DEF StartJoin, Undo, Starting
  <2>2. [Idle EXCEPT !.at = "lease"].at = "lease"
    BY DEF Idle
  <2>3. ASSUME EndTask(n) PROVE n = h \/ tasks'[h] = tasks[h]
    BY <1>0, <2>3 DEF EndTask
  <2>4. ASSUME UNCHANGED <<tasks, handler>>, At(n, "lease", Idle) PROVE Goal
    <3>1. run'[n].at = "lease" /\ (n = h \/ run'[h] = run[h])
      BY <1>0, <2>2, <2>4 DEF At
    <3> QED
      BY <1>0, <1>i, <2>1, <2>4, <3>1
  <2> QED
    BY <1>e, <2>1, <2>3, <2>4 DEF EndTask
<1>n2. ASSUME NEW n \in Nodes, StartOwn(n) \/ StartLeave(n) \/ StartClean(n) PROVE Goal
  <2>1. /\ run[n].at = "idle" /\ UNCHANGED <<used, tasks, handler>>
        /\ \/ At(n, "own_read", Idle)
           \/ At(n, "leave_delete", [Idle EXCEPT !.flag = Who(n) \in seen[n]])
           \/ At(n, "clean_delete", [Idle EXCEPT !.flag = Who(n) \in seen[n]])
    BY <1>n2 DEF StartOwn, StartLeave, StartClean, Starting
  <2>2. /\ [Idle EXCEPT !.at = "own_read"].at = "own_read"
        /\ [[Idle EXCEPT !.flag = Who(n) \in seen[n]] EXCEPT !.at = "leave_delete"].at = "leave_delete"
        /\ [[Idle EXCEPT !.flag = Who(n) \in seen[n]] EXCEPT !.at = "clean_delete"].at = "clean_delete"
    BY DEF Idle
  <2>3. run'[n].at \in {"own_read", "leave_delete", "clean_delete"} /\ (n = h \/ run'[h] = run[h])
    BY <1>0, <2>1, <2>2 DEF At
  <2> QED
    BY <1>0, <1>i, <2>1, <2>3
<1>n3. ASSUME NEW n \in Nodes, StartCheck(n) PROVE Goal
  <2>1. /\ tasks[n] # <<>> /\ Head(tasks[n]).kind = "check" /\ run[n].at = "idle"
        /\ UNCHANGED <<used, tasks, handler>> /\ run' = [run EXCEPT ![n] = [Idle EXCEPT !.at = "read"]]
    BY <1>n3 DEF StartCheck, Starting, At
  <2>2. Who(n) = None
    BY <2>1, FirstTask
  <2>3. CASE n = h
    BY <1>0, <2>1, <2>2, <2>3 DEF Entered, Leased, Who
  <2>4. CASE n # h
    BY <1>0, <1>a, <2>1, <2>4
  <2> QED
    BY <2>3, <2>4
<1>n4. ASSUME NEW n \in Nodes, ApplyAdded(n) \/ ApplyRemoved(n) \/ CleanTold(n) \/ CleanFails(n) \/ CheckFails(n)
       PROVE  Goal
  <2>1. /\ UNCHANGED <<used, handler>> /\ EndTask(n) /\ tasks[n] # <<>> /\ Head(tasks[n]).kind # "join"
    BY <1>0, <1>n4 DEF ApplyAdded, ApplyRemoved, Starting, CleanTold, CleanFails, CheckFails, Running
  <2>2. n = h \/ tasks'[h] = tasks[h]
    BY <1>0, <2>1 DEF EndTask
  <2> QED
    BY <1>e, <2>1, <2>2 DEF EndTask
<1>n5. ASSUME NEW n \in Nodes, Receive(n) PROVE Goal
  <2>1. inbox[n] # <<>> /\ inbox \in [Nodes -> Seq(Messages)]
    BY <1>n5 DEF Receive, Inv, PresenceTypeOK
  <2>2. Head(inbox[n]) \in Tasks
    BY <2>1, Queues DEF Tasks
  <2>3. UNCHANGED <<handler, run, used>> /\ tasks' = [tasks EXCEPT ![n] = Append(@, Head(inbox[n]))]
    BY <1>n5 DEF Receive
  <2>4. tasks'[h] = tasks[h] \/ tasks'[h] = Append(tasks[h], Head(inbox[n]))
    BY <1>0, <2>3
  <2> QED
    BY <1>a, <2>2, <2>3, <2>4
<1>n6. ASSUME NEW n \in Nodes, StartCycle(n) \/ Expire(n) PROVE Goal
  <2>1. /\ UNCHANGED <<handler, run, used>>
        /\ \/ tasks' = tasks
           \/ tasks' = [tasks EXCEPT ![n] = Append(@, Task("own", None))]
           \/ tasks' = [tasks EXCEPT ![n] = Append(@, Task("check", None))]
    BY <1>n6 DEF StartCycle, Enqueue, Expire
  <2>2. \/ tasks'[h] = tasks[h] \/ tasks'[h] = Append(tasks[h], Task("own", None))
        \/ tasks'[h] = Append(tasks[h], Task("check", None))
    BY <1>0, <2>1
  <2> QED
    BY <1>2, <1>a, <2>1, <2>2
<1>n7. ASSUME NEW n \in Nodes, Crash(n) PROVE Goal
  <2>1. n # h /\ run'[h] = run[h] /\ tasks'[h] = tasks[h] /\ UNCHANGED used /\ handler[s] = "join"
    BY <1>0, <1>n7 DEF Crash
  <2> QED
    BY <1>a, <2>1
<1>n8. ASSUME NEW n \in Nodes, JoinFails(n) PROVE Goal
  <2>1. /\ UNCHANGED used /\ run' = [run EXCEPT ![n] = Idle]
        /\ tasks' = [tasks EXCEPT ![Home[Who(n)]] = Append(Tail(tasks[n]), Task("undo", Who(n)))]
        /\ Head(tasks[n]).kind = "join" /\ tasks[n] # <<>>
        /\ handler' = [handler EXCEPT ![Who(n)] = "undo"]
    BY <1>0, <1>n8 DEF JoinFails, RollBack, ReconcileSteps
  <2>2. Home[Who(n)] = n
    BY <2>1, FirstTask DEF Waited
  <2>3. /\ n = h \/ tasks'[h] = tasks[h]
        /\ Who(n) # s /\ handler'[s] = handler[s]
    BY <1>0, <2>1, <2>2
  <2> QED
    BY <1>e, <2>1, <2>3
<1>n9. ASSUME NEW n \in Nodes, LeaveFails(n) \/ LeaveDeleted(n) \/ LeaveTold(n) \/ CleanDeleted(n) PROVE Goal
  <2>1. /\ run[n].at \in {"leave_delete", "leave_tell", "clean_delete"} /\ UNCHANGED used
        /\ \/ UNCHANGED <<tasks, handler>> /\ (At(n, "leave_tell", run[n]) \/ At(n, "clean_tell", run[n]))
           \/ EndTask(n) /\ (UNCHANGED handler \/ handler' = [handler EXCEPT ![Who(n)] = "idle"])
    BY <1>n9 DEF LeaveFails, LeaveDeleted, LeaveTold, CleanDeleted, LeaveEnds, GoOn
  <2>2. tasks[n] # <<>> /\ Head(tasks[n]).kind # "join"
    BY <1>0, <2>1 DEF Running
  <2>3. /\ [run[n] EXCEPT !.at = "leave_tell"].at = "leave_tell"
        /\ [run[n] EXCEPT !.at = "clean_tell"].at = "clean_tell"
    BY <1>0, RunRecord DEF Steps
  <2>4. ASSUME EndTask(n), UNCHANGED handler \/ handler' = [handler EXCEPT ![Who(n)] = "idle"] PROVE Goal
    <3>1. n = h \/ tasks'[h] = tasks[h]
      BY <1>0, <2>4 DEF EndTask
    <3>2. handler'[s] = handler[s]
      BY <1>0, <2>4
    <3> QED
      BY <1>e, <2>1, <2>2, <2>4, <3>1, <3>2 DEF EndTask
  <2>5. ASSUME UNCHANGED <<tasks, handler>>, At(n, "leave_tell", run[n]) \/ At(n, "clean_tell", run[n])
        PROVE  Goal
    <3>1. run'[n].at \in {"leave_tell", "clean_tell"} /\ (n = h \/ run'[h] = run[h])
      BY <1>0, <2>3, <2>5 DEF At
    <3> QED
      BY <1>0, <1>i, <2>1, <2>5, <3>1
  <2> QED
    BY <2>1, <2>4, <2>5
<1>n10. ASSUME NEW n \in Nodes, JoinLease(n) PROVE Goal
  <2>1. /\ run[n].at = "lease" /\ run' = [run EXCEPT ![n] = [run[n] EXCEPT !.at = "set"]]
        /\ UNCHANGED <<used, tasks, handler>>
    BY <1>n10 DEF JoinLease, GoOn, At
  <2>2. [run[n] EXCEPT !.at = "set"].at = "set"
    BY <1>0, RunRecord DEF Steps
  <2>3. /\ run'[n].at \notin ReconcileSteps /\ run[n].at \notin ReconcileSteps
        /\ n = h \/ run'[h] = run[h]
    BY <1>0, <2>1, <2>2
  <2>4. UNCHANGED <<used, tasks>> /\ handler'[s] = handler[s]
    BY <2>1
  <2> QED
    BY <1>i, <1>n10, <2>3, <2>4
<1>n11. ASSUME NEW n \in Nodes, JoinSet(n) PROVE Goal
  <2>1. /\ run[n].at = "set" /\ run' = [run EXCEPT ![n] = [run[n] EXCEPT !.at = "read"]]
        /\ UNCHANGED <<used, tasks, handler>>
    BY <1>n11 DEF JoinSet, GoOn, At
  <2>2. CASE n = h
    BY <1>0, <1>n11, <2>1, <2>2 DEF Entered, Leased, Who
  <2>3. CASE n # h
    BY <1>0, <1>a, <2>1, <2>3
  <2> QED
    BY <2>2, <2>3
<1>n12. ASSUME NEW n \in Nodes, Read(n) \/ Probe(n) \/ EvictLease(n) \/ EvictDelete(n) PROVE Goal
  <2>1. UNCHANGED used /\ tasks[n] # <<>> /\ run[n].at \in ReconcileSteps
    BY <1>n12, ReconcileStep
  <2>2. ASSUME NEW local, Goes(n, local) PROVE Goal
    BY <1>0, <1>g, <2>1, <2>2 DEF Goes
  <2>3. ASSUME NEW entries, NEW dead, Settles(n, entries, dead) PROVE Goal
    <3>1. /\ tasks' = [tasks EXCEPT ![n] = Tail(@)] /\ run' = [run EXCEPT ![n] = Idle]
          /\ \/ UNCHANGED handler /\ Head(tasks[n]).kind # "join"
             \/ handler' = [handler EXCEPT ![Who(n)] = "announce"]
      BY <2>1, <2>3, SettlesIs
    <3>2. /\ (n = h \/ tasks'[h] = tasks[h]) /\ handler'[s] = handler[s]
          /\ (Head(tasks[n]).kind # "join" \/ Who(n) # s)
      BY <1>0, <3>1
    <3> QED
      BY <1>e, <2>1, <3>1, <3>2
  <2> QED
    BY <1>n12, <2>2, <2>3, ReconcileStep
<1>n13. ASSUME NEW n \in Nodes,
              OwnRead(n) \/ OwnTold(n) \/ OwnDeleted(n) \/ OwnSet(n) \/ OwnAdded(n) \/ OwnFails(n)
       PROVE  Goal
  <2>1. /\ tasks[n] # <<>> /\ UNCHANGED <<handler, used>> /\ run[n].at \in OwnSteps
        /\ (\E local : OwnGoes(n, local)) \/ OwnStops(n)
    BY <1>n13, OwnStep
  <2>2. ASSUME NEW local, OwnGoes(n, local) PROVE Goal
    BY <1>0, <1>g, <2>1, <2>2 DEF OwnGoes
  <2>3. CASE OwnStops(n)
    <3>1. run' = [run EXCEPT ![n] = Idle] /\ (n = h \/ tasks'[h] = tasks[h])
      BY <1>0, <2>3 DEF OwnStops
    <3>2. Head(tasks[n]).kind = "own"
      BY <1>0, <2>1 DEF Running
    <3> QED
      BY <1>e, <2>1, <3>1, <3>2
  <2> QED
    BY <2>1, <2>2, <2>3
<1> HIDE DEF Goal
<1>9. Goal
  BY <1>s1, <1>s2, <1>s3, <1>s4, <1>n1, <1>n2, <1>n3, <1>n4, <1>n5, <1>n6, <1>n7, <1>n8, <1>n9,
     <1>n10, <1>n11, <1>n12, <1>n13 DEF Next, Starts, Replies, Handlers, Fails
<1> QED
  BY <1>9 DEF Goal, h

(* A socket does not become unknown again. *)
LEMMA UntouchedStep ==
  ASSUME Inv, Next, NEW s \in Sockets, Untouched(s)'
  PROVE  Untouched(s)
<1>1. used \subseteq used'
  BY OpenStep
<1>2. ASSUME handler'[s] = "join", ~ Entered(s)' PROVE Untouched(s)
  BY <1>2, JoinProgress DEF Untouched
<1> QED
  BY <1>1, <1>2 DEF Untouched

(* What it means that nobody knows of a socket. *)
LEMMA UnknownIs ==
  ASSUME Inv, NEW s \in Sockets, Untouched(s)
  PROVE  /\ s \notin hash \cup joined
         /\ \A n \in Nodes :
              /\ s \notin seen[n] \cup run[n].entries \cup run[n].dead
              /\ run[n].at \in {"own_set", "own_add"} => run[n].who # s
              /\ \A i \in DOMAIN tasks[n] : tasks[n][i] # Task("added", s)
              /\ \A i \in DOMAIN inbox[n] : inbox[n][i] # Task("added", s)
BY DEF Inv, UnknownInv

(* A step does not make an unknown socket known to Redis or a roster, *)
LEMMA UnknownSets ==
  ASSUME Inv, Next, NEW s \in Sockets, Untouched(s), Untouched(s)'
  PROVE  s \notin hash' \cup joined' /\ \A m \in Nodes : s \notin seen'[m]
<1> DEFINE Goal == s \notin hash' \cup joined' /\ \A m \in Nodes : s \notin seen'[m]
<1>0. /\ seen \in [Nodes -> SUBSET Sockets] /\ s \notin hash \cup joined
      /\ \A n \in Nodes : s \notin seen[n] \cup run[n].entries \cup run[n].dead
      /\ \A n \in Nodes : run[n].at \in {"own_set", "own_add"} => run[n].who # s
      /\ handler \in [Sockets -> {"idle", "join", "announce", "leave", "undo", "undo_delete", "undo_tell"}]
  BY UnknownIs DEF Inv, PresenceTypeOK
<1>1. s \in used => handler'[s] = "join" /\ ~ Entered(s)'
  BY OpenStep DEF Untouched
<1>2. ASSUME hash' \subseteq hash, joined' \subseteq joined, UNCHANGED seen PROVE Goal
  BY <1>0, <1>2
<1>3. ASSUME NEW t \in Sockets,
             \/ Subscribe(t) \/ Unsubscribe(t) \/ Disconnect(t) \/ Announced(t) \/ UndoDeleted(t)
             \/ UndoTold(t) \/ AnnounceFails(t) \/ UndoDeleteFails(t)
      PROVE  Goal
  BY <1>2, <1>3
  DEF Subscribe, Unsubscribe, Disconnect, Announced, UndoDeleted, UndoTold, AnnounceFails,
      UndoDeleteFails, RollBack, redisVars, socketVars
<1>4. ASSUME NEW n \in Nodes,
             \/ StartLeave(n) \/ StartOwn(n) \/ StartCheck(n) \/ StartJoin(n) \/ Receive(n) \/ CleanTold(n)
             \/ LeaveFails(n) \/ CleanFails(n) \/ CheckFails(n) \/ Expire(n) \/ StartCycle(n)
      PROVE  Goal
  BY <1>2, <1>4
  DEF StartLeave, StartOwn, StartCheck, StartJoin, Receive, CleanTold, LeaveFails, CleanFails, CheckFails,
      Expire, StartCycle, redisVars, socketVars
<1>5. ASSUME NEW n \in Nodes, JoinLease(n) \/ JoinFails(n) \/ CleanDeleted(n) PROVE Goal
  BY <1>2, <1>5 DEF JoinLease, JoinFails, CleanDeleted, GoOn, RollBack, redisVars
<1>6. ASSUME NEW n \in Nodes, LeaveDeleted(n) \/ LeaveTold(n) \/ Crash(n) PROVE Goal
  BY <1>0, <1>6 DEF LeaveDeleted, LeaveTold, LeaveEnds, GoOn, Crash, redisVars
<1>7. ASSUME NEW n \in Nodes, StartClean(n) \/ Undo(n) \/ ApplyRemoved(n) PROVE Goal
  <2>1. UNCHANGED <<hash, joined>>
    BY <1>7 DEF StartClean, Undo, ApplyRemoved, redisVars, socketVars
  <2>2. ASSUME NEW S, NEW x, Leaves(n, S, x) PROVE \A m \in Nodes : seen'[m] \subseteq seen[m]
    BY <2>2, LeavesIs
  <2>3. \A m \in Nodes : seen'[m] \subseteq seen[m]
    BY <1>7, <2>2 DEF StartClean, Undo, ApplyRemoved
  <2> QED
    BY <1>0, <2>1, <2>3
<1>8. ASSUME NEW n \in Nodes, ApplyAdded(n) PROVE Goal
  <2>1. /\ seen' = [seen EXCEPT ![n] = @ \cup {Who(n)}] /\ UNCHANGED <<hash, joined>>
        /\ tasks[n] # <<>> /\ Head(tasks[n]).kind = "added"
    BY <1>8 DEF ApplyAdded, Starting, redisVars, socketVars
  <2>2. Head(tasks[n]) \in Tasks /\ Head(tasks[n]) = tasks[n][1] /\ 1 \in DOMAIN tasks[n]
    BY <2>1, FirstTask
  <2>3. Head(tasks[n]) = Task("added", Who(n))
    BY <2>1, <2>2 DEF Tasks, Messages, Task, Who
  <2>4. Who(n) # s
    BY <2>2, <2>3, UnknownIs
  <2> QED
    BY <1>0, <2>1, <2>4
<1>9. ASSUME NEW n \in Nodes, JoinSet(n) PROVE Goal
  <2>1. /\ run[n].at = "set" /\ hash' = hash \cup {Who(n)} /\ UNCHANGED <<joined, seen, tasks, handler>>
        /\ run' = [run EXCEPT ![n] = [run[n] EXCEPT !.at = "read"]]
    BY <1>9 DEF JoinSet, GoOn, At
  <2>2. /\ tasks[n] # <<>> /\ Head(tasks[n]).kind = "join" /\ run \in [Nodes -> Runs]
    BY <2>1 DEF Inv, TaskInv, Running, PresenceTypeOK
  <2>3. Who(n) \in Sockets /\ Home[Who(n)] = n /\ handler[Who(n)] = "join"
    BY <2>2, FirstTask DEF Waited
  <2>4. run'[n].at = "read"
    BY <2>1, <2>2, RunRecord DEF Steps, ReconcileSteps
  <2>5. ASSUME Who(n) = s PROVE FALSE
    <3>1. Entered(s)'
      BY <2>1, <2>3, <2>4, <2>5 DEF Entered, Who, ReconcileSteps
    <3>2. s \in used
      BY <2>3, <2>5 DEF Inv, ShownInv
    <3> QED
      BY <1>1, <3>1, <3>2
  <2> QED
    BY <1>0, <2>1, <2>5
<1>10. ASSUME NEW n \in Nodes, Read(n) \/ Probe(n) \/ EvictLease(n) \/ EvictDelete(n) PROVE Goal
  <2>1. hash' \subseteq hash /\ tasks[n] # <<>> /\ run[n].at \in ReconcileSteps
    BY <1>10, ReconcileStep
  <2>2. ASSUME NEW local, Goes(n, local) PROVE Goal
    BY <1>2, <2>1, <2>2 DEF Goes
  <2>3. ASSUME NEW entries, NEW dead, Settles(n, entries, dead) PROVE Goal
    <3>1. entries \in SUBSET Sockets /\ s \notin entries
      BY <1>0, <2>3 DEF Settles
    <3>2. CASE UNCHANGED <<joined, handler>> /\ Leaves(n, dead, None)
      <4>1. \A m \in Nodes : seen'[m] \subseteq seen[m]
        BY <3>2, LeavesIs
      <4> QED
        BY <1>0, <2>1, <3>2, <4>1
    <3>3. CASE /\ SettleJoin(n, entries, dead) /\ handler' = [handler EXCEPT ![Who(n)] = "announce"]
               /\ Who(n) \in Sockets /\ handler[Who(n)] = "join" /\ joined' = joined \cup {Who(n)}
      <4>1. \A m \in Nodes : seen'[m] = IF m = n THEN Merged(n, entries, dead) ELSE seen[m]
        BY <3>1, <3>3, SettleJoinIs
      <4>2. \A m \in Nodes : s \notin seen'[m]
        BY <1>0, <3>1, <4>1 DEF Merged
      <4>3. ASSUME Who(n) = s PROVE FALSE
        <5>1. s \in used
          BY <3>3, <4>3 DEF Inv, ShownInv
        <5> QED
          BY <1>0, <1>1, <3>3, <4>3, <5>1
      <4> QED
        BY <1>0, <2>1, <3>3, <4>2, <4>3
    <3> QED
      BY <2>1, <2>3, <3>2, <3>3, SettlesIs
  <2> QED
    BY <1>10, <2>2, <2>3, ReconcileStep
<1>11. ASSUME NEW n \in Nodes,
              OwnRead(n) \/ OwnTold(n) \/ OwnDeleted(n) \/ OwnSet(n) \/ OwnAdded(n) \/ OwnFails(n)
       PROVE  Goal
  <2>1. /\ UNCHANGED <<joined, seen>>
        /\ \A t \in hash' : t \in hash \/ (run[n].at = "own_set" /\ t = run[n].who)
    BY <1>11, OwnStep
  <2> QED
    BY <1>0, <2>1
<1> HIDE DEF Goal
<1>12. Goal
  BY <1>3, <1>4, <1>5, <1>6, <1>7, <1>8, <1>9, <1>10, <1>11 DEF Next, Starts, Replies, Handlers, Fails
<1> QED
  BY <1>12 DEF Goal

(* nor to a running task, *)
LEMMA UnknownRuns ==
  ASSUME Inv, Next, NEW s \in Sockets, Untouched(s), NEW m \in Nodes
  PROVE  /\ s \notin run'[m].entries \cup run'[m].dead
         /\ run'[m].at \in {"own_set", "own_add"} => run'[m].who # s
<1> DEFINE Goal == /\ s \notin run'[m].entries \cup run'[m].dead
                   /\ run'[m].at \in {"own_set", "own_add"} => run'[m].who # s
<1>0. /\ run \in [Nodes -> Runs] /\ s \notin hash \cup joined
      /\ \A n \in Nodes : /\ s \notin seen[n] \cup run[n].entries \cup run[n].dead
                          /\ run[n].at \in {"own_set", "own_add"} => run[n].who # s
      /\ Idle \in Runs /\ Idle.at = "idle" /\ Idle.entries = {} /\ Idle.dead = {}
  BY UnknownIs DEF Inv, PresenceTypeOK, Idle, Runs, Steps
<1>1. ASSUME UNCHANGED run PROVE Goal
  BY <1>0, <1>1
<1>2. ASSUME NEW n \in Nodes, NEW r, run' = [run EXCEPT ![n] = r], s \notin r.entries \cup r.dead,
             r.at \notin {"own_set", "own_add"} \/ r.who # s
      PROVE  Goal
  BY <1>0, <1>2
<1>3. ASSUME NEW n \in Nodes, run' = [run EXCEPT ![n] = Idle] PROVE Goal
  BY <1>0, <1>2, <1>3
<1>4. ASSUME NEW n \in Nodes, NEW r \in Runs,
             NEW step \in {"lease", "set", "read", "leave_delete", "leave_tell", "clean_delete", "clean_tell", "own_read"},
             At(n, step, r), s \notin r.entries \cup r.dead
      PROVE  Goal
  <2> DEFINE local == [r EXCEPT !.at = step]
  <2>1. /\ local.at = step /\ local.entries = r.entries /\ local.dead = r.dead
        /\ step \notin {"own_set", "own_add"}
    BY RunRecord DEF Steps, ReconcileSteps, OwnSteps
  <2>2. run' = [run EXCEPT ![n] = local]
    BY <1>4 DEF At
  <2> HIDE DEF local
  <2> QED
    BY <1>2, <1>4, <2>1, <2>2
<1>5. ASSUME NEW t \in Sockets,
             \/ Subscribe(t) \/ Unsubscribe(t) \/ Disconnect(t) \/ Announced(t) \/ UndoDeleted(t)
             \/ UndoTold(t) \/ UndoDeleteFails(t) \/ AnnounceFails(t)
      PROVE  Goal
  BY <1>1, <1>5
  DEF Subscribe, Unsubscribe, Disconnect, Announced, UndoDeleted, UndoTold, UndoDeleteFails, AnnounceFails
<1>6. ASSUME NEW n \in Nodes, Receive(n) \/ StartCycle(n) \/ Expire(n) PROVE Goal
  BY <1>1, <1>6 DEF Receive, StartCycle, Expire
<1>7. ASSUME NEW n \in Nodes,
             \/ CleanTold(n) \/ CleanFails(n) \/ CheckFails(n) \/ LeaveFails(n) \/ JoinFails(n)
             \/ Crash(n) \/ Undo(n) \/ ApplyAdded(n) \/ ApplyRemoved(n)
      PROVE  Goal
  BY <1>3, <1>7
  DEF CleanTold, CleanFails, CheckFails, LeaveFails, JoinFails, Crash, Undo, ApplyAdded, ApplyRemoved, EndTask
<1>8. ASSUME NEW n \in Nodes, StartJoin(n) \/ StartOwn(n) \/ StartCheck(n) PROVE Goal
  <2>1. EndTask(n) \/ At(n, "lease", Idle) \/ At(n, "own_read", Idle) \/ At(n, "read", Idle)
    BY <1>8 DEF StartJoin, StartOwn, StartCheck
  <2> QED
    BY <1>0, <1>3, <1>4, <2>1 DEF EndTask
<1>9. ASSUME NEW n \in Nodes, StartLeave(n) \/ StartClean(n) PROVE Goal
  <2> DEFINE flag == Who(n) \in seen[n]
             r == [Idle EXCEPT !.flag = flag]
  <2>1. At(n, "leave_delete", r) \/ At(n, "clean_delete", r)
    BY <1>9 DEF StartLeave, StartClean
  <2>2. flag \in BOOLEAN
    OBVIOUS
  <2> HIDE DEF flag
  <2>3. r \in Runs /\ r.entries = {} /\ r.dead = {}
    BY <2>2 DEF Idle, Runs, Steps
  <2> HIDE DEF r
  <2> QED
    BY <1>4, <2>1, <2>3
<1>10. ASSUME NEW n \in Nodes, JoinLease(n) \/ JoinSet(n) PROVE Goal
  <2>1. At(n, "set", run[n]) \/ At(n, "read", run[n])
    BY <1>10 DEF JoinLease, JoinSet, GoOn
  <2> QED
    BY <1>0, <1>4, <2>1
<1>11. ASSUME NEW n \in Nodes, LeaveDeleted(n) \/ LeaveTold(n) \/ CleanDeleted(n) PROVE Goal
  <2>1. EndTask(n) \/ At(n, "leave_tell", run[n]) \/ At(n, "clean_tell", run[n])
    BY <1>11 DEF LeaveDeleted, LeaveTold, CleanDeleted, LeaveEnds, GoOn
  <2> QED
    BY <1>0, <1>3, <1>4, <2>1 DEF EndTask
<1>12. ASSUME NEW n \in Nodes, Read(n) \/ Probe(n) \/ EvictLease(n) \/ EvictDelete(n) PROVE Goal
  <2>1. run[n].at \in ReconcileSteps /\ tasks[n] # <<>>
    BY <1>12, ReconcileStep
  <2>2. ASSUME NEW local, Goes(n, local) PROVE Goal
    <3>1. s \notin local.entries \cup local.dead /\ local.at \notin {"own_set", "own_add"}
      BY <1>0, <2>2 DEF Goes, ReconcileSteps
    <3> QED
      BY <1>2, <2>2, <3>1 DEF Goes
  <2>3. ASSUME NEW entries, NEW dead, Settles(n, entries, dead) PROVE Goal
    BY <1>3, <2>1, <2>3, SettlesIs
  <2> QED
    BY <1>12, <2>2, <2>3, ReconcileStep
<1>13. ASSUME NEW n \in Nodes,
              OwnRead(n) \/ OwnTold(n) \/ OwnDeleted(n) \/ OwnSet(n) \/ OwnAdded(n) \/ OwnFails(n)
       PROVE  Goal
  <2>1. ASSUME NEW local, OwnGoes(n, local) PROVE Goal
    <3>1. s \notin local.entries \cup local.dead /\ (local.at \notin {"own_set", "own_add"} \/ local.who # s)
      BY <1>0, <2>1 DEF OwnGoes
    <3> QED
      BY <1>2, <2>1, <3>1 DEF OwnGoes
  <2>2. ASSUME OwnStops(n) PROVE Goal
    BY <1>3, <2>2 DEF OwnStops
  <2> QED
    BY <1>13, <2>1, <2>2, OwnStep
<1> HIDE DEF Goal
<1>14. Goal
  BY <1>5, <1>6, <1>7, <1>8, <1>9, <1>10, <1>11, <1>12, <1>13 DEF Next, Starts, Replies, Handlers, Fails
<1> QED
  BY <1>14 DEF Goal

(* What a queue lacks, it lacks after its first task ends or another one is put at the end. *)
LEMMA Absent ==
  ASSUME NEW T, NEW q \in Seq(T), NEW x, \A i \in DOMAIN q : q[i] # x
  PROVE  /\ \A t \in T : t # x => \A i \in DOMAIN Append(q, t) : Append(q, t)[i] # x
         /\ q # <<>> => Head(q) # x /\ \A i \in DOMAIN Tail(q) : Tail(q)[i] # x
<1>1. ASSUME NEW t \in T, t # x PROVE \A i \in DOMAIN Append(q, t) : Append(q, t)[i] # x
  <2>1. /\ Len(q) \in Nat /\ DOMAIN q = 1 .. Len(q) /\ DOMAIN Append(q, t) = 1 .. Len(q) + 1
        /\ Append(q, t)[Len(q) + 1] = t /\ \A i \in DOMAIN q : Append(q, t)[i] = q[i]
    BY Queues
  <2>2. \A i \in DOMAIN Append(q, t) : i \in DOMAIN q \/ i = Len(q) + 1
    BY <2>1
  <2> QED
    BY <1>1, <2>1, <2>2
<1>2. ASSUME q # <<>> PROVE Head(q) # x /\ \A i \in DOMAIN Tail(q) : Tail(q)[i] # x
  BY <1>2, Queues
<1> QED
  BY <1>1, <1>2

(* nor to a queue or a message. *)
LEMMA UnknownQueues ==
  ASSUME Inv, Next, NEW s \in Sockets, Untouched(s), NEW m \in Nodes
  PROVE  /\ \A i \in DOMAIN tasks'[m] : tasks'[m][i] # Task("added", s)
         /\ \A i \in DOMAIN inbox'[m] : inbox'[m][i] # Task("added", s)
<1> DEFINE x == Task("added", s)
           Lacks(q) == \A i \in DOMAIN q : q[i] # x
           TG == Lacks(tasks'[m])
           IG == Lacks(inbox'[m])
           o == Task("check", None)
<1>0. /\ tasks \in [Nodes -> Seq(Tasks)] /\ inbox \in [Nodes -> Seq(Messages)]
      /\ \A n \in Nodes : Lacks(tasks[n]) /\ Lacks(inbox[n])
      /\ \A n \in Nodes : run[n].at # "idle" => tasks[n] # <<>>
      /\ \A t \in Sockets : Home[t] \in Nodes
  BY UnknownIs DEF Inv, PresenceTypeOK, TaskInv, Running
<1>1. /\ \A t \in Sockets : \A kind \in {"join", "leave", "undo", "clean"} :
            Task(kind, t) \in Tasks /\ Task(kind, t) # x
      /\ \A kind \in {"own", "check"} : Task(kind, None) \in Tasks /\ Task(kind, None) # x
      /\ \A t : Task("removed", t) # x /\ (t # s => Task("added", t) # x)
  BY DEF Task, Tasks
<1> HIDE DEF x
<1>2. /\ \A n \in Nodes : \A t \in Tasks : t # x => Lacks(Append(tasks[n], t))
      /\ \A n \in Nodes : tasks[n] # <<>> =>
            /\ Lacks(Tail(tasks[n]))
            /\ \A t \in Tasks : t # x => Lacks(Append(Tail(tasks[n]), t))
      /\ Lacks(<<>>)
  <2>1. ASSUME NEW n \in Nodes, tasks[n] # <<>>
        PROVE  /\ Lacks(Tail(tasks[n]))
               /\ \A t \in Tasks : t # x => Lacks(Append(Tail(tasks[n]), t))
    <3>1. Tail(tasks[n]) \in Seq(Tasks) /\ Lacks(Tail(tasks[n]))
      BY <1>0, <2>1, Absent, Queues
    <3> QED
      BY <3>1, Absent
  <2> QED
    BY <1>0, <2>1, Absent
<1>3. \A n \in Nodes : inbox[n] # <<>> => Head(inbox[n]) # x /\ Head(inbox[n]) \in Tasks /\ Lacks(Tail(inbox[n]))
  BY <1>0, Absent, Queues DEF Tasks
<1> HIDE DEF Lacks
<1>t. ASSUME NEW n \in Nodes, NEW t \in Tasks, t # x,
             \/ tasks' = tasks
             \/ tasks' = [tasks EXCEPT ![n] = Append(@, t)]
             \/ tasks[n] # <<>> /\ tasks' = [tasks EXCEPT ![n] = Tail(@)]
             \/ tasks[n] # <<>> /\ tasks' = [tasks EXCEPT ![n] = Append(Tail(@), t)]
             \/ tasks' = [tasks EXCEPT ![n] = <<>>]
      PROVE  TG
  <2>1. CASE n = m
    <3>1. \/ tasks'[m] = tasks[n] \/ tasks'[m] = Append(tasks[n], t)
          \/ tasks[n] # <<>> /\ tasks'[m] = Tail(tasks[n])
          \/ tasks[n] # <<>> /\ tasks'[m] = Append(Tail(tasks[n]), t)
          \/ tasks'[m] = <<>>
      BY <1>0, <1>t, <2>1
    <3>2. CASE tasks'[m] = tasks[n]
      BY <1>0, <3>2
    <3>3. CASE tasks'[m] = Append(tasks[n], t)
      <4>1. Lacks(Append(tasks[n], t))
        BY <1>2, <1>t
      <4> QED
        BY <3>3, <4>1
    <3>4. CASE tasks[n] # <<>> /\ tasks'[m] = Tail(tasks[n])
      <4>1. Lacks(Tail(tasks[n]))
        BY <1>2, <3>4
      <4> QED
        BY <3>4, <4>1
    <3>5. CASE tasks[n] # <<>> /\ tasks'[m] = Append(Tail(tasks[n]), t)
      <4>1. Lacks(Append(Tail(tasks[n]), t))
        BY <1>2, <1>t, <3>5
      <4> QED
        BY <3>5, <4>1
    <3>6. CASE tasks'[m] = <<>>
      BY <1>2, <3>6
    <3> QED
      BY <3>1, <3>2, <3>3, <3>4, <3>5, <3>6
  <2>2. CASE n # m
    BY <1>0, <1>t, <2>2
  <2> QED
    BY <2>1, <2>2
<1>e. ASSUME NEW n \in Nodes, tasks[n] # <<>>, EndTask(n) PROVE TG
  BY <1>1, <1>e, <1>t DEF EndTask
<1>u. ASSUME UNCHANGED tasks PROVE TG
  BY <1>0, <1>u
<1>i. ASSUME UNCHANGED inbox PROVE IG
  BY <1>0, <1>i
<1>p. ASSUME NEW n, NEW kind \in {"added", "removed"}, NEW t \in Sockets, Publish(n, kind, t),
             kind = "removed" \/ t # s
      PROVE  IG
  <2>1. Task(kind, t) # x
    BY <1>1, <1>p
  <2>0. Publish(n, kind, t)
    BY <1>p
  <2>2. \A k \in Nodes : \A i \in DOMAIN inbox'[k] :
              \/ inbox'[k][i] = Task(kind, t)
              \/ \E j \in DOMAIN inbox[k] : inbox'[k][i] = inbox[k][j]
    BY <2>0, PublishIs
  <2> QED
    BY <1>0, <2>1, <2>2 DEF Lacks
<1>s1. ASSUME NEW t \in Sockets, Subscribe(t) \/ Unsubscribe(t) \/ Disconnect(t) PROVE TG /\ IG
  <2>1. /\ UNCHANGED inbox
        /\ \/ tasks' = tasks
           \/ tasks' = [tasks EXCEPT ![Home[t]] = Append(@, Task("join", t))]
           \/ tasks' = [tasks EXCEPT ![Home[t]] = Append(@, Task("leave", t))]
           \/ tasks' = [tasks EXCEPT ![Home[t]] = Append(@, Task("clean", t))]
    BY <1>s1 DEF Subscribe, Unsubscribe, Disconnect, Enqueue
  <2> QED
    BY <1>0, <1>1, <1>i, <1>t, <1>u, <2>1
<1>s2. ASSUME NEW t \in Sockets, Announced(t) PROVE TG /\ IG
  <2>1. UNCHANGED tasks /\ Publish(Home[t], "added", t) /\ handler[t] = "announce"
    BY <1>s2 DEF Announced
  <2>2. t # s
    BY <2>1 DEF Untouched, Inv, ShownInv
  <2> QED
    BY <1>p, <1>u, <2>1, <2>2
<1>s3. ASSUME NEW t \in Sockets, UndoTold(t) PROVE TG /\ IG
  <2>1. UNCHANGED tasks /\ (UNCHANGED inbox \/ Publish(Home[t], "removed", t))
    BY <1>s3 DEF UndoTold
  <2> QED
    BY <1>i, <1>p, <1>u, <2>1
<1>s4. ASSUME NEW t \in Sockets, UndoDeleted(t) \/ UndoDeleteFails(t) PROVE TG /\ IG
  BY <1>i, <1>s4, <1>u DEF UndoDeleted, UndoDeleteFails
<1>s5. ASSUME NEW t \in Sockets, AnnounceFails(t) PROVE TG /\ IG
  <2>1. /\ UNCHANGED inbox
        /\ tasks' = [tasks EXCEPT ![Home[t]] = Append(tasks[Home[t]], Task("undo", t))]
    BY <1>s5 DEF AnnounceFails, RollBack
  <2> QED
    BY <1>0, <1>1, <1>i, <1>t, <2>1
<1>n1. ASSUME NEW n \in Nodes,
              \/ StartJoin(n) \/ Undo(n) \/ ApplyAdded(n) \/ ApplyRemoved(n)
              \/ StartOwn(n) \/ StartLeave(n) \/ StartClean(n) \/ StartCheck(n)
       PROVE  TG /\ IG
  <2>1. UNCHANGED inbox /\ tasks[n] # <<>> /\ (UNCHANGED tasks \/ EndTask(n))
    BY <1>n1
    DEF StartJoin, Undo, ApplyAdded, ApplyRemoved, StartOwn, StartLeave, StartClean, StartCheck, Starting
  <2> QED
    BY <1>e, <1>i, <1>u, <2>1
<1>n2. ASSUME NEW n \in Nodes,
              \/ CleanFails(n) \/ CheckFails(n) \/ LeaveFails(n) \/ CleanDeleted(n) \/ LeaveDeleted(n)
              \/ JoinLease(n) \/ JoinSet(n)
       PROVE  TG /\ IG
  <2>1. UNCHANGED inbox /\ tasks[n] # <<>> /\ (UNCHANGED tasks \/ EndTask(n))
    BY <1>0, <1>n2
    DEF CleanFails, CheckFails, LeaveFails, CleanDeleted, LeaveDeleted, LeaveEnds, JoinLease, JoinSet, GoOn,
        ReconcileSteps
  <2> QED
    BY <1>e, <1>i, <1>u, <2>1
<1>n3. ASSUME NEW n \in Nodes, CleanTold(n) \/ LeaveTold(n) PROVE TG /\ IG
  <2>1. tasks[n] # <<>> /\ EndTask(n) /\ Publish(n, "removed", Who(n))
    BY <1>0, <1>n3 DEF CleanTold, LeaveTold, LeaveEnds
  <2>2. Head(tasks[n]).kind \in {"clean", "leave"}
    BY <1>n3 DEF CleanTold, LeaveTold, Inv, TaskInv, Running
  <2>3. Who(n) \in Sockets
    BY <2>1, <2>2, FirstTask
  <2> QED
    BY <1>e, <1>p, <2>1, <2>3
<1>n4. ASSUME NEW n \in Nodes, Receive(n) PROVE TG /\ IG
  <2>1. /\ inbox[n] # <<>> /\ tasks' = [tasks EXCEPT ![n] = Append(@, Head(inbox[n]))]
        /\ inbox' = [inbox EXCEPT ![n] = Tail(@)]
    BY <1>n4 DEF Receive
  <2>2. TG
    BY <1>3, <1>t, <2>1
  <2>3. IG
    BY <1>0, <1>3, <2>1
  <2> QED
    BY <2>2, <2>3
<1>n5. ASSUME NEW n \in Nodes, StartCycle(n) \/ Expire(n) PROVE TG /\ IG
  <2>1. /\ UNCHANGED inbox
        /\ \/ tasks' = tasks
           \/ tasks' = [tasks EXCEPT ![n] = Append(@, Task("own", None))]
           \/ tasks' = [tasks EXCEPT ![n] = Append(@, Task("check", None))]
    BY <1>n5 DEF StartCycle, Enqueue, Expire
  <2> QED
    BY <1>1, <1>i, <1>t, <1>u, <2>1
<1>n6. ASSUME NEW n \in Nodes, Crash(n) PROVE TG /\ IG
  <2>1. tasks' = [tasks EXCEPT ![n] = <<>>] /\ inbox' = [inbox EXCEPT ![n] = <<>>]
    BY <1>n6 DEF Crash
  <2> QED
    BY <1>0, <1>1, <1>2, <1>t, <2>1
<1>n7. ASSUME NEW n \in Nodes, JoinFails(n) PROVE TG /\ IG
  <2>1. /\ UNCHANGED inbox /\ Head(tasks[n]).kind = "join" /\ tasks[n] # <<>>
        /\ tasks' = [tasks EXCEPT ![Home[Who(n)]] = Append(Tail(tasks[n]), Task("undo", Who(n)))]
    BY <1>0, <1>n7 DEF JoinFails, RollBack, ReconcileSteps
  <2>2. Home[Who(n)] = n /\ Who(n) \in Sockets
    BY <2>1, FirstTask DEF Waited
  <2>3. Task("undo", Who(n)) \in Tasks /\ Task("undo", Who(n)) # x
    BY <1>1, <2>2
  <2> QED
    BY <1>i, <1>t, <2>1, <2>2, <2>3
<1>n8. ASSUME NEW n \in Nodes, Read(n) \/ Probe(n) \/ EvictLease(n) \/ EvictDelete(n) PROVE TG /\ IG
  <2>1. UNCHANGED inbox /\ tasks[n] # <<>> /\ run[n].at \in ReconcileSteps
    BY <1>n8, ReconcileStep
  <2>2. ASSUME NEW local, Goes(n, local) PROVE TG
    BY <1>u, <2>2 DEF Goes
  <2>3. ASSUME NEW entries, NEW dead, Settles(n, entries, dead) PROVE TG
    <3>1. tasks' = [tasks EXCEPT ![n] = Tail(@)]
      BY <2>1, <2>3, SettlesIs
    <3> QED
      BY <1>1, <1>t, <2>1, <3>1
  <2> QED
    BY <1>i, <1>n8, <2>1, <2>2, <2>3, ReconcileStep
<1>n9. ASSUME NEW n \in Nodes,
              OwnRead(n) \/ OwnTold(n) \/ OwnDeleted(n) \/ OwnSet(n) \/ OwnAdded(n) \/ OwnFails(n)
       PROVE  TG /\ IG
  <2>1. /\ tasks[n] # <<>> /\ run[n].at \in OwnSteps
        /\ \/ UNCHANGED inbox
           \/ run[n].at = "own_tell" /\ Publish(n, "removed", run[n].who)
           \/ run[n].at = "own_add" /\ Publish(n, "added", run[n].who)
        /\ (\E local : OwnGoes(n, local)) \/ OwnStops(n)
    BY <1>n9, OwnStep
  <2>2. ASSUME NEW local, OwnGoes(n, local) PROVE TG
    BY <1>u, <2>2 DEF OwnGoes
  <2>3. ASSUME OwnStops(n) PROVE TG
    BY <1>1, <1>t, <2>1, <2>3 DEF OwnStops
  <2>4. run[n].at \in {"own_tell", "own_add"} => run[n].who \in Sockets
    BY DEF Inv, LocalInv, OwnSteps, Own
  <2>5. run[n].at = "own_add" => run[n].who # s
    BY UnknownIs
  <2>6. IG
    BY <1>i, <1>p, <2>1, <2>4, <2>5
  <2> QED
    BY <2>1, <2>2, <2>3, <2>6
<1> HIDE DEF TG, IG
<1>9. TG /\ IG
  BY <1>s1, <1>s2, <1>s3, <1>s4, <1>s5, <1>n1, <1>n2, <1>n3, <1>n4, <1>n5, <1>n6, <1>n7, <1>n8, <1>n9
  DEF Next, Starts, Replies, Handlers, Fails
<1> QED
  BY <1>9 DEF TG, IG, Lacks, x

(* Every step leaves the unknown unknown. *)
LEMMA UnknownStep ==
  ASSUME Inv, Next PROVE UnknownInv'
<1> SUFFICES ASSUME NEW s \in Sockets, Untouched(s)'
             PROVE  /\ s \notin hash' \cup joined'
                    /\ \A n \in Nodes :
                         /\ s \notin seen'[n] \cup run'[n].entries \cup run'[n].dead
                         /\ run'[n].at \in {"own_set", "own_add"} => run'[n].who # s
                         /\ \A i \in DOMAIN tasks'[n] : tasks'[n][i] # Task("added", s)
                         /\ \A i \in DOMAIN inbox'[n] : inbox'[n][i] # Task("added", s)
  BY DEF UnknownInv, Task
<1>1. Untouched(s)
  BY UntouchedStep
<1> QED
  BY <1>1, UnknownSets, UnknownRuns, UnknownQueues

-----------------------------------------------------------------------------
(* The entry of a subscription that goes on *)

(* What a subscription that reads the roster relies on. *)
LEMMA EntryIs ==
  ASSUME Inv, NEW s \in Sockets, Entered(s), s \notin stalled
  PROVE  /\ run[Home[s]].at = "read" =>
              s \in hash /\ Home[s] \in lease /\ \A n \in Nodes : s \notin run[n].dead
         /\ run[Home[s]].at # "read" => s \in run[Home[s]].entries \ run[Home[s]].dead
         /\ run[Home[s]].at \in ReconcileSteps /\ Who(Home[s]) = s
         /\ handler[s] = "join" /\ Head(tasks[Home[s]]).kind = "join"
<1>1. handler[s] = "join" /\ Head(tasks[Home[s]]).kind = "join"
  BY EnteredIs
<1>2. run[Home[s]].at \in ReconcileSteps /\ Who(Home[s]) = s
  BY DEF Entered
<1> QED
  BY <1>1, <1>2 DEF Inv, EntryInv

(* The lease of its worker stays, if it does not stall, *)
LEMMA LeaseStays ==
  ASSUME Inv, Next, NEW s \in Sockets, s \notin stalled', Home[s] \in lease,
         run[Home[s]].at \in {"set", "read"}, Who(Home[s]) = s, Head(tasks[Home[s]]).kind = "join"
  PROVE  Home[s] \in lease'
<1> DEFINE Goal == Home[s] \in lease'
<1>1. ASSUME lease \subseteq lease' PROVE Goal
  BY <1>1
<1>2. ASSUME NEW t \in Sockets,
             \/ Subscribe(t) \/ Unsubscribe(t) \/ Disconnect(t) \/ Announced(t) \/ UndoTold(t)
             \/ UndoDeleted(t) \/ AnnounceFails(t) \/ UndoDeleteFails(t)
      PROVE  Goal
  BY <1>1, <1>2
  DEF Subscribe, Unsubscribe, Disconnect, Announced, UndoTold, UndoDeleted, AnnounceFails, UndoDeleteFails,
      redisVars
<1>4. ASSUME NEW n \in Nodes,
             \/ StartLeave(n) \/ StartClean(n) \/ StartOwn(n) \/ StartCheck(n) \/ StartJoin(n) \/ Receive(n)
             \/ Undo(n) \/ ApplyAdded(n) \/ ApplyRemoved(n) \/ CleanTold(n) \/ LeaveFails(n) \/ CleanFails(n)
             \/ CheckFails(n) \/ LeaveDeleted(n) \/ CleanDeleted(n)
      PROVE  Goal
  BY <1>1, <1>4
  DEF StartLeave, StartClean, StartOwn, StartCheck, StartJoin, Receive, Undo, ApplyAdded, ApplyRemoved,
      CleanTold, LeaveFails, CleanFails, CheckFails, LeaveDeleted, CleanDeleted, redisVars
<1>5. ASSUME NEW n \in Nodes,
             \/ StartCycle(n) \/ JoinLease(n) \/ JoinSet(n) \/ JoinFails(n) \/ LeaveTold(n) \/ Crash(n)
      PROVE  Goal
  BY <1>1, <1>5 DEF StartCycle, JoinLease, JoinSet, JoinFails, LeaveTold, Crash, redisVars
<1>7. ASSUME NEW n \in Nodes, Expire(n) PROVE Goal
  <2>1. lease' = lease \ {n} /\ stalled' = stalled \cup Entering(n)
    BY <1>7 DEF Expire
  <2>2. Home[s] # n
    BY <2>1 DEF Entering
  <2> QED
    BY <2>1, <2>2
<1>8. ASSUME NEW n \in Nodes, Read(n) \/ Probe(n) \/ EvictLease(n) \/ EvictDelete(n) PROVE Goal
  BY <1>1, <1>8, ReconcileStep
<1>9. ASSUME NEW n \in Nodes,
             OwnRead(n) \/ OwnTold(n) \/ OwnDeleted(n) \/ OwnSet(n) \/ OwnAdded(n) \/ OwnFails(n)
      PROVE  Goal
  BY <1>1, <1>9, OwnStep DEF OwnGoes, OwnStops
<1> HIDE DEF Goal
<1>10. Goal
  BY <1>2, <1>4, <1>5, <1>7, <1>8, <1>9 DEF Next, Starts, Replies, Handlers, Fails
<1> QED
  BY <1>10 DEF Goal

(* its entry stays, *)
LEMMA EntryStays ==
  ASSUME Inv, Next, NEW s \in Sockets, Entered(s), s \notin stalled, run[Home[s]].at = "read"
  PROVE  s \in hash'
<1> DEFINE Goal == s \in hash'
<1>0. /\ s \in hash /\ Home[s] \in Nodes /\ handler[s] = "join"
      /\ run[Home[s]].at = "read"
      /\ \A n \in Nodes : s \notin run[n].dead
      /\ \A n \in Nodes : Running(n) /\ (n \notin up => tasks[n] = <<>>)
  BY EntryIs DEF Inv, TaskInv, ReconcileSteps
<1>1. ASSUME hash \subseteq hash' PROVE Goal
  BY <1>0, <1>1
<1>2. ASSUME NEW t \in Sockets,
             \/ Subscribe(t) \/ Unsubscribe(t) \/ Disconnect(t) \/ Announced(t) \/ UndoTold(t)
             \/ AnnounceFails(t) \/ UndoDeleteFails(t)
      PROVE  Goal
  BY <1>1, <1>2
  DEF Subscribe, Unsubscribe, Disconnect, Announced, UndoTold, AnnounceFails, UndoDeleteFails, redisVars
<1>3. ASSUME NEW t \in Sockets, UndoDeleted(t) PROVE Goal
  BY <1>0, <1>3 DEF UndoDeleted
<1>4. ASSUME NEW n \in Nodes,
             \/ StartLeave(n) \/ StartClean(n) \/ StartOwn(n) \/ StartCheck(n) \/ StartJoin(n) \/ Receive(n)
             \/ Undo(n) \/ ApplyAdded(n) \/ ApplyRemoved(n) \/ CleanTold(n) \/ LeaveFails(n) \/ CleanFails(n)
             \/ CheckFails(n)
      PROVE  Goal
  BY <1>1, <1>4
  DEF StartLeave, StartClean, StartOwn, StartCheck, StartJoin, Receive, Undo, ApplyAdded, ApplyRemoved,
      CleanTold, LeaveFails, CleanFails, CheckFails, redisVars
<1>5. ASSUME NEW n \in Nodes,
             \/ StartCycle(n) \/ JoinLease(n) \/ JoinSet(n) \/ JoinFails(n) \/ LeaveTold(n) \/ Crash(n)
             \/ Expire(n)
      PROVE  Goal
  BY <1>1, <1>5 DEF StartCycle, JoinLease, JoinSet, JoinFails, LeaveTold, Crash, Expire, redisVars
<1>6. ASSUME NEW n \in Nodes, LeaveDeleted(n) \/ CleanDeleted(n) PROVE Goal
  <2>1. run[n].at \in {"leave_delete", "clean_delete"} /\ hash' = hash \ {Who(n)}
    BY <1>6 DEF LeaveDeleted, CleanDeleted
  <2>2. tasks[n] # <<>> /\ Head(tasks[n]).kind \in {"leave", "clean"}
    BY <1>0, <2>1 DEF Running
  <2>3. Home[Who(n)] = n
    BY <2>2, FirstTask DEF Waited
  <2> QED
    BY <1>0, <2>1, <2>3
<1>8. ASSUME NEW n \in Nodes, Read(n) \/ Probe(n) \/ EvictLease(n) \/ EvictDelete(n) PROVE Goal
  <2>1. \A t \in hash : t \in hash' \/ t \in run[n].dead
    BY <1>8, ReconcileStep
  <2> QED
    BY <1>0, <2>1
<1>9. ASSUME NEW n \in Nodes,
             OwnRead(n) \/ OwnTold(n) \/ OwnDeleted(n) \/ OwnSet(n) \/ OwnAdded(n) \/ OwnFails(n)
      PROVE  Goal
  <2>1. \A t \in hash : t \in hash' \/ (run[n].at = "own_delete" /\ t = run[n].who)
    BY <1>9, OwnStep
  <2>3. run[n].at = "own_delete" => Home[run[n].who] = n
    BY DEF Inv, LocalInv, OwnSteps, Own
  <2> QED
    BY <1>0, <2>1, <2>3
<1> HIDE DEF Goal
<1>10. Goal
  BY <1>2, <1>3, <1>4, <1>5, <1>6, <1>8, <1>9 DEF Next, Starts, Replies, Handlers, Fails
<1> QED
  BY <1>10 DEF Goal

(* and nobody counts it among the dead, until the worker has read the hash. *)
LEMMA EntryNotDead ==
  ASSUME Inv, Next, NEW s \in Sockets, Entered(s), s \notin stalled
  PROVE  /\ run[Home[s]].at = "read" => \A m \in Nodes : s \notin run'[m].dead
         /\ run'[Home[s]].at = "read" => run[Home[s]].at = "read"
         /\ run'[Home[s]].at \in {"probe", "evict", "delete"} =>
              s \in run'[Home[s]].entries \ run'[Home[s]].dead
<1> DEFINE h == Home[s]
           Goal == /\ run[h].at = "read" => \A m \in Nodes : s \notin run'[m].dead
                   /\ run'[h].at = "read" => run[h].at = "read"
                   /\ run'[h].at \in {"probe", "evict", "delete"} => s \in run'[h].entries \ run'[h].dead
<1>0. /\ run \in [Nodes -> Runs] /\ h \in Nodes /\ run[h].at \in {"read", "probe", "evict", "delete"}
      /\ run[h].at = "read" => s \in hash /\ h \in lease /\ \A n \in Nodes : s \notin run[n].dead
      /\ run[h].at # "read" => s \in run[h].entries \ run[h].dead
      /\ Idle \in Runs /\ Idle.at = "idle" /\ Idle.dead = {}
  BY EntryIs DEF Inv, PresenceTypeOK, Idle, Runs, Steps, ReconcileSteps
<1>1. ASSUME UNCHANGED run PROVE Goal
  BY <1>0, <1>1
<1>2. ASSUME NEW n \in Nodes, NEW r, run' = [run EXCEPT ![n] = r], s \notin r.dead \/ run[h].at # "read",
             n = h => r.at # "read",
             n = h => r.at \notin {"probe", "evict", "delete"} \/ s \in r.entries \ r.dead
      PROVE  Goal
  BY <1>0, <1>2
<1>3. ASSUME NEW n \in Nodes, run' = [run EXCEPT ![n] = Idle] PROVE Goal
  BY <1>0, <1>2, <1>3
<1>4. ASSUME NEW n \in Nodes, NEW r \in Runs,
             NEW step \in {"lease", "set", "read", "leave_delete", "leave_tell", "clean_delete", "clean_tell",
                           "own_read"},
             At(n, step, r), s \notin r.dead \/ run[h].at # "read",
             run[n].at \notin {"read", "probe", "evict", "delete"}
      PROVE  Goal
  <2> DEFINE local == [r EXCEPT !.at = step]
  <2>1. local.at = step /\ local.dead = r.dead /\ step \notin {"probe", "evict", "delete"}
    BY RunRecord DEF Steps, ReconcileSteps, OwnSteps
  <2>2. run' = [run EXCEPT ![n] = local] /\ n # h
    BY <1>0, <1>4 DEF At
  <2> HIDE DEF local
  <2> QED
    BY <1>2, <1>4, <2>1, <2>2
<1>5. ASSUME NEW t \in Sockets,
             \/ Subscribe(t) \/ Unsubscribe(t) \/ Disconnect(t) \/ Announced(t) \/ UndoDeleted(t)
             \/ UndoTold(t) \/ UndoDeleteFails(t) \/ AnnounceFails(t)
      PROVE  Goal
  BY <1>1, <1>5
  DEF Subscribe, Unsubscribe, Disconnect, Announced, UndoDeleted, UndoTold, UndoDeleteFails, AnnounceFails
<1>6. ASSUME NEW n \in Nodes, Receive(n) \/ StartCycle(n) \/ Expire(n) PROVE Goal
  BY <1>1, <1>6 DEF Receive, StartCycle, Expire
<1>7. ASSUME NEW n \in Nodes,
             \/ CleanTold(n) \/ CleanFails(n) \/ CheckFails(n) \/ LeaveFails(n) \/ JoinFails(n)
             \/ Crash(n) \/ Undo(n) \/ ApplyAdded(n) \/ ApplyRemoved(n)
      PROVE  Goal
  BY <1>3, <1>7
  DEF CleanTold, CleanFails, CheckFails, LeaveFails, JoinFails, Crash, Undo, ApplyAdded, ApplyRemoved, EndTask
<1>8. ASSUME NEW n \in Nodes, StartJoin(n) \/ StartOwn(n) \/ StartCheck(n) PROVE Goal
  <2>1. /\ run[n].at = "idle"
        /\ EndTask(n) \/ At(n, "lease", Idle) \/ At(n, "own_read", Idle) \/ At(n, "read", Idle)
    BY <1>8 DEF StartJoin, StartOwn, StartCheck, Starting
  <2> QED
    BY <1>0, <1>3, <1>4, <2>1 DEF EndTask
<1>9. ASSUME NEW n \in Nodes, StartLeave(n) \/ StartClean(n) PROVE Goal
  <2> DEFINE flag == Who(n) \in seen[n]
             r == [Idle EXCEPT !.flag = flag]
  <2>1. run[n].at = "idle" /\ (At(n, "leave_delete", r) \/ At(n, "clean_delete", r))
    BY <1>9 DEF StartLeave, StartClean, Starting
  <2>2. flag \in BOOLEAN
    OBVIOUS
  <2> HIDE DEF flag
  <2>3. r \in Runs /\ r.dead = {}
    BY <2>2 DEF Idle, Runs, Steps
  <2> HIDE DEF r
  <2> QED
    BY <1>4, <2>1, <2>3
<1>10. ASSUME NEW n \in Nodes, JoinLease(n) \/ JoinSet(n) PROVE Goal
  <2>1. run[n].at \in {"lease", "set"} /\ (At(n, "set", run[n]) \/ At(n, "read", run[n]))
    BY <1>10 DEF JoinLease, JoinSet, GoOn
  <2> QED
    BY <1>0, <1>4, <2>1
<1>11. ASSUME NEW n \in Nodes, LeaveDeleted(n) \/ LeaveTold(n) \/ CleanDeleted(n) PROVE Goal
  <2>1. /\ run[n].at \in {"leave_delete", "leave_tell", "clean_delete"}
        /\ EndTask(n) \/ At(n, "leave_tell", run[n]) \/ At(n, "clean_tell", run[n])
    BY <1>11 DEF LeaveDeleted, LeaveTold, CleanDeleted, LeaveEnds, GoOn
  <2> QED
    BY <1>0, <1>3, <1>4, <2>1 DEF EndTask
<1>12. ASSUME NEW n \in Nodes, Read(n) \/ Probe(n) \/ EvictLease(n) \/ EvictDelete(n) PROVE Goal
  <2>1. run[n].at \in ReconcileSteps /\ tasks[n] # <<>>
    BY <1>12, ReconcileStep
  <2>2. ASSUME NEW local, Goes(n, local) PROVE Goal
    <3>1. s \notin local.dead \/ run[h].at # "read"
      BY <1>0, <2>2 DEF Goes
    <3>2. n = h => s \in local.entries \ local.dead
      BY <1>0, <2>2 DEF Goes
    <3>3. local.at # "read" /\ run' = [run EXCEPT ![n] = local]
      BY <2>2 DEF Goes
    <3> QED
      BY <1>2, <3>1, <3>2, <3>3
  <2>3. ASSUME NEW entries, NEW dead, Settles(n, entries, dead) PROVE Goal
    BY <1>3, <2>1, <2>3, SettlesIs
  <2> QED
    BY <1>12, <2>2, <2>3, ReconcileStep
<1>13. ASSUME NEW n \in Nodes,
              OwnRead(n) \/ OwnTold(n) \/ OwnDeleted(n) \/ OwnSet(n) \/ OwnAdded(n) \/ OwnFails(n)
       PROVE  Goal
  <2>1. ASSUME NEW local, OwnGoes(n, local) PROVE Goal
    <3>1. /\ s \notin local.dead \/ run[h].at # "read"
          /\ local.at \notin {"read", "probe", "evict", "delete"} /\ run' = [run EXCEPT ![n] = local]
      BY <1>0, <2>1 DEF OwnGoes, OwnSteps
    <3> QED
      BY <1>2, <3>1
  <2>2. ASSUME OwnStops(n) PROVE Goal
    BY <1>3, <2>2 DEF OwnStops
  <2> QED
    BY <1>13, <2>1, <2>2, OwnStep
<1> HIDE DEF Goal
<1>14. Goal
  BY <1>5, <1>6, <1>7, <1>8, <1>9, <1>10, <1>11, <1>12, <1>13 DEF Next, Starts, Replies, Handlers, Fails
<1> QED
  BY <1>14 DEF Goal, h

(* Every step leaves a subscription what it relies on. *)
LEMMA EntryStep ==
  ASSUME Inv, Next PROVE EntryInv'
<1> SUFFICES ASSUME NEW s \in Sockets, s \notin stalled', handler'[s] = "join", Who(Home[s])' = s
             PROVE  /\ run'[Home[s]].at \in {"set", "read"} => Home[s] \in lease'
                    /\ run'[Home[s]].at = "read" => s \in hash' /\ \A n \in Nodes : s \notin run'[n].dead
                    /\ run'[Home[s]].at \in ReconcileSteps \ {"read"} =>
                         s \in run'[Home[s]].entries \ run'[Home[s]].dead
  BY DEF EntryInv
<1> DEFINE h == Home[s]
<1>0. /\ s \notin stalled /\ h \in Nodes /\ run \in [Nodes -> Runs]
      /\ ReconcileSteps = {"read", "probe", "evict", "delete"}
      /\ \A n \in Nodes : Running(n)
  BY StalledStep DEF Inv, PresenceTypeOK, TaskInv, ReconcileSteps
<1>1. CASE run'[h].at = "set"
  <2>1. CASE JoinLease(h)
    BY <1>0, <1>1, <2>1 DEF JoinLease
  <2>2. CASE Leased(s)
    <3>1. run[h].at = "set" /\ Who(h) = s /\ Head(tasks[h]).kind = "join"
      BY <1>0, <2>2 DEF Leased, Running
    <3>2. handler[s] = "join"
      BY <1>0, <3>1, FirstTask DEF Running, Waited
    <3>3. h \in lease
      BY <1>0, <3>1, <3>2 DEF Inv, EntryInv
    <3> QED
      BY <1>0, <1>1, <3>1, <3>3, LeaseStays
  <2> QED
    BY <1>1, <2>1, <2>2, JoinProgress DEF Leased
<1>2. CASE run'[h].at \in ReconcileSteps /\ Entered(s)
  <2>1. CASE run[h].at = "read"
    <3>1. /\ h \in lease /\ Who(h) = s /\ Head(tasks[h]).kind = "join" /\ s \in hash'
          /\ \A n \in Nodes : s \notin run'[n].dead
      BY <1>0, <1>2, <2>1, EntryIs, EntryStays, EntryNotDead
    <3>2. h \in lease'
      BY <2>1, <3>1, LeaseStays
    <3> QED
      BY <1>0, <1>2, <3>1, <3>2, EntryNotDead
  <2>2. CASE run[h].at # "read"
    BY <1>0, <1>2, <2>2, EntryNotDead
  <2> QED
    BY <2>1, <2>2
<1>3. CASE JoinSet(h) /\ Who(h) = s /\ handler[s] = "join"
  <2>1. /\ run[h].at = "set" /\ hash' = hash \cup {s} /\ UNCHANGED lease
        /\ run' = [run EXCEPT ![h] = [run[h] EXCEPT !.at = "read"]]
    BY <1>3 DEF JoinSet, GoOn, At
  <2>2. h \in lease
    BY <1>0, <1>3, <2>1 DEF Inv, EntryInv
  <2>3. Untouched(s)
    BY <1>3, <2>1 DEF Untouched, Entered, ReconcileSteps
  <2>4. \A m \in Nodes : s \notin run[m].dead
    BY <2>3, UnknownIs
  <2>5. [run[h] EXCEPT !.at = "read"].at = "read" /\ [run[h] EXCEPT !.at = "read"].dead = run[h].dead
    BY <1>0, RunRecord DEF Steps, ReconcileSteps
  <2> QED
    BY <1>0, <2>1, <2>2, <2>4, <2>5
<1>4. CASE run'[h].at \notin {"set"} \cup ReconcileSteps
  BY <1>0, <1>4
<1>5. run'[h].at \in ReconcileSteps => Entered(s)'
  BY DEF Entered
<1> QED
  BY <1>0, <1>1, <1>2, <1>3, <1>4, <1>5, JoinProgress

-----------------------------------------------------------------------------
(* No ghosts *)

(* The worker's own sockets whose subscription was stalled. *)
Stalled(n) == {t \in stalled : Home[t] = n}

(* Sockets that leave do not leave a ghost behind. *)
LEMMA GhostLeaves ==
  ASSUME Inv, NoGhostShown, NEW n \in Nodes, NEW S, NEW x, Leaves(n, S, x), x \in Sockets => view[x] = None,
         NEW s \in Sockets, view'[s] # None
  PROVE  view'[s] \subseteq Roster(seen'[Home[s]] \cup Stalled(Home[s]))
<1>1. view[s] # None
  BY LeavesIs
<1>2. view[s] \subseteq Roster(seen[Home[s]] \cup Stalled(Home[s])) /\ s # x
  BY <1>1 DEF NoGhostShown, Present, Inv, ShownInv, Stalled
<1>3. \A X : view[s] # None /\ view[s] \subseteq Roster(seen[Home[s]] \cup X) /\ s # x =>
                view'[s] \subseteq Roster(seen'[Home[s]] \cup X)
  BY LeavesIs
<1> QED
  BY <1>1, <1>2, <1>3

(* Every step keeps the clients to their workers' rosters. *)
LEMMA GhostStep ==
  ASSUME Inv, NoGhostShown, Next PROVE NoGhostShown'
<1> DEFINE Goal(s) == view'[s] # None => view'[s] \subseteq Roster(seen'[Home[s]] \cup Stalled(Home[s]))
<1> SUFFICES ASSUME NEW s \in Sockets PROVE Goal(s)
  BY StalledStep DEF NoGhostShown, Present, Roster, Stalled
<1>0. /\ view \in [Sockets -> Rosters] /\ seen \in [Nodes -> SUBSET Sockets]
      /\ view[s] # None => view[s] \subseteq Roster(seen[Home[s]] \cup Stalled(Home[s]))
      /\ \A t \in Sockets : view[t] # None => t \in open /\ handler[t] \in {"idle", "leave"}
      /\ \A t \in Sockets : Home[t] \in Nodes
      /\ \A n \in Nodes : run[n].at # "idle" => tasks[n] # <<>>
      /\ \A n \in Nodes : Running(n)
  BY DEF NoGhostShown, Present, Inv, ShownInv, PresenceTypeOK, TaskInv, Running, Stalled
<1>1. ASSUME UNCHANGED seen, view'[s] = view[s] \/ view'[s] = None PROVE Goal(s)
  BY <1>0, <1>1
<1>2. ASSUME NEW t \in Sockets,
             \/ Subscribe(t) \/ Unsubscribe(t) \/ Disconnect(t) \/ UndoDeleted(t) \/ UndoTold(t)
             \/ AnnounceFails(t) \/ UndoDeleteFails(t)
      PROVE  Goal(s)
  BY <1>0, <1>1, <1>2
  DEF Subscribe, Unsubscribe, Disconnect, UndoDeleted, UndoTold, AnnounceFails, UndoDeleteFails, RollBack
<1>3. ASSUME NEW t \in Sockets, Announced(t) PROVE Goal(s)
  BY <1>0, <1>3 DEF Announced, Roster
<1>4. ASSUME NEW n \in Nodes,
             \/ StartLeave(n) \/ StartOwn(n) \/ StartCheck(n) \/ StartJoin(n) \/ Receive(n) \/ CleanTold(n)
             \/ LeaveFails(n) \/ CleanFails(n) \/ CheckFails(n) \/ Expire(n) \/ StartCycle(n)
             \/ JoinLease(n) \/ JoinSet(n) \/ JoinFails(n) \/ CleanDeleted(n)
      PROVE  Goal(s)
  BY <1>0, <1>1, <1>4
  DEF StartLeave, StartOwn, StartCheck, StartJoin, Receive, CleanTold, LeaveFails, CleanFails, CheckFails,
      Expire, StartCycle, JoinLease, JoinSet, JoinFails, CleanDeleted, GoOn, RollBack
<1>5. ASSUME NEW n \in Nodes, StartClean(n) \/ Undo(n) PROVE Goal(s)
  <2>1. /\ tasks[n] # <<>> /\ Head(tasks[n]).kind \in {"clean", "undo"}
        /\ Leaves(n, {Who(n)}, Who(n))
    BY <1>5 DEF StartClean, Undo, Starting
  <2>2. view[Who(n)] = None
    BY <1>0, <2>1, FirstTask DEF Waited
  <2> QED
    BY <2>1, <2>2, GhostLeaves
<1>6. ASSUME NEW n \in Nodes, ApplyRemoved(n) PROVE Goal(s)
  BY <1>6, GhostLeaves DEF ApplyRemoved
<1>7. ASSUME NEW n \in Nodes, ApplyAdded(n) PROVE Goal(s)
  <2>1. Who(n) \in Sockets
    BY <1>7, FirstTask DEF ApplyAdded, Starting
  <2> DEFINE come == {User[Who(n)]} \ Roster(seen[n])
  <2>2. come \in SUBSET Roster(Sockets) /\ come \subseteq Roster(seen[n] \cup {Who(n)})
    BY <2>1 DEF Roster
  <2>3. view' = Deliver(n, None, {}, come) /\ seen' = [seen EXCEPT ![n] = @ \cup {Who(n)}]
    BY <1>7 DEF ApplyAdded
  <2> HIDE DEF come
  <2>4. /\ view[s] = None => view'[s] = None
        /\ Home[s] # n => view'[s] = view[s]
        /\ Home[s] = n /\ view[s] # None => view'[s] = (view[s] \ {}) \cup come
    BY <2>2, <2>3, DeliverIs
  <2>5. /\ Roster(seen[n] \cup Stalled(n)) \subseteq Roster((seen[n] \cup {Who(n)}) \cup Stalled(n))
        /\ Roster(seen[n] \cup {Who(n)}) \subseteq Roster((seen[n] \cup {Who(n)}) \cup Stalled(n))
    BY DEF Roster
  <2> QED
    BY <1>0, <2>2, <2>3, <2>4, <2>5
<1>8. ASSUME NEW n \in Nodes, LeaveDeleted(n) \/ LeaveTold(n) PROVE Goal(s)
  <2>1. CASE UNCHANGED <<view, seen>>
    BY <1>1, <2>1
  <2>2. CASE LeaveEnds(n)
    <3> DEFINE come == {}
               rest == seen[n] \ {Who(n)}
               gone == Roster(seen[n]) \ Roster(rest)
               delivered == Deliver(n, Who(n), gone, come)
    <3>1. come \in SUBSET Roster(Sockets)
      OBVIOUS
    <3>2. seen' = [seen EXCEPT ![n] = rest] /\ view' = [delivered EXCEPT ![Who(n)] = None]
      BY <2>2 DEF LeaveEnds
    <3>3. view[s] # None => view[s] \ gone \subseteq Roster(rest \cup Stalled(n)) \/ Home[s] # n
      BY <1>0, RosterLeaves
    <3> HIDE DEF rest, gone
    <3>4. /\ delivered \in [Sockets -> Rosters]
          /\ view[s] = None => delivered[s] = None
          /\ Home[s] # n \/ s = Who(n) => delivered[s] = view[s]
          /\ Home[s] = n /\ s # Who(n) /\ view[s] # None => delivered[s] = (view[s] \ gone) \cup come
      BY <3>1, DeliverIs
    <3> HIDE DEF delivered
    <3>5. CASE s = Who(n)
      BY <3>2, <3>4, <3>5
    <3>6. CASE s # Who(n) /\ Home[s] # n
      BY <1>0, <3>2, <3>4, <3>6
    <3>7. CASE s # Who(n) /\ Home[s] = n
      BY <1>0, <3>2, <3>3, <3>4, <3>7
    <3> QED
      BY <3>5, <3>6, <3>7
  <2> QED
    BY <1>8, <2>1, <2>2 DEF LeaveDeleted, LeaveTold, GoOn
<1>9. ASSUME NEW n \in Nodes, Crash(n) PROVE Goal(s)
  BY <1>0, <1>9 DEF Crash
<1>10. ASSUME NEW n \in Nodes, Read(n) \/ Probe(n) \/ EvictLease(n) \/ EvictDelete(n) PROVE Goal(s)
  <2>1. run[n].at \in ReconcileSteps /\ tasks[n] # <<>>
    BY <1>10, ReconcileStep
  <2>2. ASSUME NEW local, Goes(n, local) PROVE Goal(s)
    BY <1>1, <2>2 DEF Goes
  <2>3. ASSUME NEW entries, NEW dead, Settles(n, entries, dead) PROVE Goal(s)
    <3>1. /\ entries \in SUBSET Sockets /\ dead \subseteq run[n].dead
          /\ entries = (IF run[n].at = "read" THEN hash ELSE run[n].entries)
      BY <2>3 DEF Settles
    <3>2. CASE Leaves(n, dead, None)
      BY <3>2, GhostLeaves
    <3>3. CASE /\ SettleJoin(n, entries, dead) /\ Who(n) \in Sockets /\ Home[Who(n)] = n
               /\ handler[Who(n)] = "join"
      <4>1. Entered(Who(n))
        BY <2>1, <3>3 DEF Entered
      <4>2. Who(n) \in Merged(n, entries, dead) \cup Stalled(n)
        <5>1. Who(n) \in stalled => Who(n) \in Stalled(n)
          BY <3>3 DEF Stalled
        <5>2. Who(n) \notin stalled => Who(n) \in entries \ dead
          BY <3>1, <3>3, <4>1, EntryIs
        <5> QED
          BY <5>1, <5>2 DEF Merged
      <4>3. /\ \A m \in Nodes : seen'[m] = IF m = n THEN Merged(n, entries, dead) ELSE seen[m]
            /\ \A t \in Sockets :
                 /\ view[t] = None => view'[t] = None
                 /\ Home[t] # n \/ t = Who(n) => view'[t] = view[t]
                 /\ \A X :
                      Home[t] = n /\ view[t] # None /\ view[t] \subseteq Roster(seen[n] \cup X) /\ t # Who(n)
                        /\ Who(n) \in Merged(n, entries, dead) \cup X =>
                          view'[t] \subseteq Roster(Merged(n, entries, dead) \cup X)
        <5>1. SettleJoin(n, entries, dead) /\ entries \in SUBSET Sockets /\ Who(n) \in Sockets
          BY <3>1, <3>3
        <5> QED
          BY <5>1, SettleJoinIs
      <4>4. view[Who(n)] = None
        BY <1>0, <3>3
      <4>5. CASE Home[s] = n
        BY <1>0, <4>2, <4>3, <4>4, <4>5
      <4>6. CASE Home[s] # n
        BY <1>0, <4>3, <4>6
      <4> QED
        BY <4>5, <4>6
    <3> QED
      BY <2>1, <2>3, <3>2, <3>3, SettlesIs
  <2> QED
    BY <1>10, <2>2, <2>3, ReconcileStep
<1>11. ASSUME NEW n \in Nodes,
              OwnRead(n) \/ OwnTold(n) \/ OwnDeleted(n) \/ OwnSet(n) \/ OwnAdded(n) \/ OwnFails(n)
       PROVE  Goal(s)
  BY <1>1, <1>11, OwnStep
<1> HIDE DEF Goal
<1> QED
  BY <1>2, <1>3, <1>4, <1>5, <1>6, <1>7, <1>8, <1>9, <1>10, <1>11
  DEF Next, Starts, Replies, Handlers, Fails

-----------------------------------------------------------------------------
(* Theorems *)

(* All of it holds to begin with. *)
LEMMA InvInit ==
  ASSUME Init PROVE Inv /\ NoGhostShown
<1>0. PICK settled \in SUBSET Sockets :
          InitWith(settled) /\ open \subseteq Sockets /\ settled \subseteq open \cap used
  BY DEF Init
<1>1. /\ <<>> \in Seq(Tasks) /\ <<>> \in Seq(Messages) /\ \A i \in DOMAIN <<>> : FALSE
  BY EmptySeq
<1>2. Idle \in Runs /\ Idle.at = "idle" /\ Idle.entries = {} /\ Idle.dead = {}
  BY DEF Idle, Runs, Steps
<1>3. Roster(settled) \in Rosters /\ None \in Rosters
  BY RosterIn DEF Rosters
<1>4. PresenceTypeOK
  BY <1>0, <1>1, <1>2, <1>3 DEF InitWith, PresenceTypeOK
<1>5. TaskInv
  BY <1>0, <1>1, <1>2 DEF InitWith, TaskInv, Running, Placed, ReconcileSteps, OwnSteps
<1>6. ShownInv
  BY <1>0 DEF InitWith, ShownInv
<1>7. LocalInv
  BY <1>0, <1>2 DEF InitWith, LocalInv, OwnSteps
<1>8. UnknownInv
  BY <1>0, <1>1, <1>2 DEF InitWith, UnknownInv, Untouched
<1>9. EntryInv
  BY <1>0 DEF InitWith, EntryInv
<1>10. NoGhostShown
  BY <1>0 DEF InitWith, NoGhostShown, Present, Roster
<1> QED
  BY <1>4, <1>5, <1>6, <1>7, <1>8, <1>9, <1>10 DEF Inv

(* All of it is kept. *)
LEMMA InvStep ==
  ASSUME Inv, [Next]_vars PROVE Inv'
<1>1. CASE Next
  <2>1. TaskInv'
    <3>1. ASSUME NEW m \in Nodes
          PROVE  Running(m)' /\ Placed(tasks[m], m)' /\ (m \notin up' => tasks'[m] = <<>>)
      BY <1>1, RunningStep, PlacedStep
    <3> QED
      BY <3>1 DEF TaskInv
  <2> QED
    BY <1>1, <2>1, TypesStep, ShownStep, LocalStep, UnknownStep, EntryStep DEF Inv
<1>2. CASE UNCHANGED vars
  BY <1>2
  DEF vars, redisVars, socketVars, Inv, PresenceTypeOK, TaskInv, Running, Placed, ShownInv, LocalInv,
      UnknownInv, Untouched, Entered, Who, EntryInv
<1> QED
  BY <1>1, <1>2

(* All of it is invariant. *)
LEMMA Invariance == Spec => []Inv
<1>1. Init => Inv
  BY InvInit
<1>2. Inv /\ [Next]_vars => Inv'
  BY InvStep
<1> QED
  BY <1>1, <1>2, PTL DEF Spec

(* Every set, roster and queue holds what it is declared to hold; only connected sockets are subscribed or
   show a roster (worker.ts: disconnectSocket() clears both). *)
THEOREM PresenceTypes == Spec => []TypeOK
<1>1. Inv => TypeOK
  BY DEF Inv, PresenceTypeOK, ShownInv, TypeOK, Rosters, Roster
<1> QED
  BY <1>1, Invariance, PTL

(* A client is never left with a member that the roster of its worker no longer has (worker.ts: every change of
   presenceSockets is told to the worker's clients), except for sockets of that worker whose subscription was
   stalled: whatever leases run out, commands are rejected and workers crash. *)
THEOREM NoGhosts == Spec => []NoGhostShown
<1>1. Init => NoGhostShown
  BY InvInit
<1>2. NoGhostShown /\ Inv /\ [Next]_vars => NoGhostShown'
  <2>1. ASSUME NoGhostShown, Inv, Next PROVE NoGhostShown'
    BY <2>1, GhostStep
  <2>2. ASSUME NoGhostShown, UNCHANGED vars PROVE NoGhostShown'
    BY <2>2 DEF vars, NoGhostShown, Present, Roster
  <2> QED
    BY <2>1, <2>2
<1> QED
  BY <1>1, <1>2, Invariance, PTL DEF Spec

(* A subscription finds its own entry when it reads the hash, and the roster that it takes over has it, unless the
   lease that synchronizePresenceChannel() refreshed runs out before the hash is read (worker.ts:1579-1586): no
   other worker's eviction, cleanup or reconciliation removes the entry in between. *)
THEOREM EntriesOfJoining == Spec => []EntryInv
<1>1. Inv => EntryInv
  BY DEF Inv
<1> QED
  BY <1>1, Invariance, PTL
===============================================================================
