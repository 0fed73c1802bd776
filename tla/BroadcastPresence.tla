--------------------------- MODULE BroadcastPresence ---------------------------
(* One presence channel on several broadcast workers that share it through Redis
   (packages/broadcast/src/worker.ts): a hash with an entry for each subscribed
   socket, a lease per worker, and messages that tell the other workers who came and
   who went.  A worker keeps a roster in memory, changed by tasks that it runs one
   after the other (runPresenceExclusive), and tells its sockets of every change.

   A worker sends its Redis commands over one connection, in order: "wire" has the
   parties whose commands are under way, and a command takes effect when its reply is
   processed, together with the code up to the next await.  Reads of the roster are of
   the sockets "seen"; the members of a roster are their users, of whom one may have
   several sockets. *)
EXTENDS Integers, FiniteSets, Sequences

CONSTANTS
    Nodes,        \* worker processes
    Sockets,      \* connections; each subscribes at most once
    Home,         \* the worker of a socket
    User,         \* the member a socket is authorized as
    Settled,      \* sockets that are subscribed to begin with, unless they are absent
    Leaving,      \* sockets that may unsubscribe or disconnect
    Rejects,      \* the steps whose Redis command may be rejected
    Budgets,      \* bounds: who never subscribes, how many commands are rejected, leases
                  \* lapse and workers crash, together
    None          \* no socket, or no list of members

ASSUME PresenceAssumption ==
    /\ Home \in [Sockets -> Nodes] /\ IsFiniteSet(Sockets)
    /\ Settled \subseteq Sockets /\ Leaving \subseteq Sockets
    /\ \A b \in Budgets : b.absent \subseteq Sockets /\ b.faults \in Nat
    /\ None \notin Sockets

VARIABLES
    hash,        \* sockets with an entry in the presence hash
    lease,       \* workers whose lease has not run out
    inbox,       \* messages on their way to a worker
    wire,        \* parties of a worker whose commands are under way, in order
    up,          \* workers that run
    open,        \* connected sockets
    subscribed,  \* subscribedChannels has the channel
    joined,      \* presenceMembers has the channel
    pending,     \* presencePublicationPending has the channel
    cleanup,     \* presenceCleanupPending has the channel
    handler,     \* where the handler of a socket's message is
    told,        \* whether a subscription that is rolled back had been announced
    view,        \* the members a subscribed client shows
    seen,        \* a worker's presenceSockets
    owned,       \* workers with the channel in ownedPresenceChannels
    tasks,       \* a worker's queue of exclusive tasks, the running one first
    run,         \* where the running task is, and its local variables
    cycle,       \* where the liveness cycle of a worker is
    used,        \* sockets that have subscribed, or never will
    stalled,     \* history: sockets whose worker's lease ran out after the subscription had
                 \* refreshed it, and before it read the hash
    faults       \* rejected commands, lapses and crashes still to come, at most

redisVars == <<hash, lease>>
socketVars == <<subscribed, joined, pending, cleanup>>
vars == <<redisVars, inbox, wire, up, open, socketVars, handler, told, view, seen, owned, tasks,
          run, cycle, used, stalled, faults>>

Idle == [at |-> "idle", entries |-> {}, todo |-> {}, dead |-> {}, who |-> None, flag |-> FALSE]
Task(kind, who) == [kind |-> kind, who |-> who]
Own(n) == {s \in Sockets : Home[s] = n}

(* The members of a roster: every socket seen stands for its user. *)
Roster(S) == {User[s] : s \in S}

InitWith(settled) ==
    /\ hash = settled /\ lease = {Home[s] : s \in settled} /\ up = Nodes
    /\ inbox = [n \in Nodes |-> <<>>] /\ wire = [n \in Nodes |-> <<>>]
    /\ subscribed = settled /\ joined = settled /\ pending = {} /\ cleanup = {}
    /\ handler = [s \in Sockets |-> "idle"] /\ told = [s \in Sockets |-> FALSE]
    /\ view = [s \in Sockets |-> IF s \in settled THEN Roster(settled) ELSE None]
    /\ seen = [n \in Nodes |-> settled]
    /\ owned = {Home[s] : s \in settled}
    /\ tasks = [n \in Nodes |-> <<>>] /\ run = [n \in Nodes |-> Idle]
    /\ cycle = [n \in Nodes |-> "idle"]
    /\ stalled = {}

Init ==
    \E b \in Budgets :
        /\ InitWith(Settled \ b.absent)
        /\ open = Sockets \ b.absent /\ used = Settled \cup b.absent /\ faults = b.faults

-----------------------------------------------------------------------------
(* Commands, messages, rosters *)

(* isLiveOwnPresenceSocket(). *)
Live(s) == s \in open /\ s \in subscribed

(* The deliveries to the subscribers of a worker, except socket x. *)
Deliver(n, x, gone, come) ==
    [s \in Sockets |-> IF Home[s] = n /\ s # x /\ view[s] # None THEN (view[s] \ gone) \cup come
                                                                ELSE view[s]]

(* Mutant: a member is looked for before its socket is taken out of the list. *)
LeavesLate(n, S, x) ==
    /\ seen' = [seen EXCEPT ![n] = @ \ S]
    /\ view' = Deliver(n, x, Roster(S) \ Roster(seen[n]), {})

(* A worker's roster loses sockets; a member goes with the last of them. *)
Leaves(n, S, x) ==
    /\ seen' = [seen EXCEPT ![n] = @ \ S]
    /\ view' = Deliver(n, x, Roster(seen[n]) \ Roster(seen[n] \ S), {})

(* Party o of worker n gets the reply to its command and issues those of next. *)
Reply(n, o, next) ==
    /\ wire[n] # <<>> /\ Head(wire[n]) = o
    /\ wire' = [wire EXCEPT ![n] = Tail(@) \o next]
Issue(n, o) == wire' = [wire EXCEPT ![n] = Append(@, o)]

Fault == faults > 0 /\ faults' = faults - 1

Rejected(step) ==
    /\ step \in Rejects
    /\ Fault

(* publish() on the event channel; a worker ignores its own messages. *)
Publish(n, kind, s) ==
    inbox' = [m \in Nodes |-> IF m \in up \ {n} THEN Append(inbox[m], Task(kind, s)) ELSE inbox[m]]

(* runPresenceExclusive(): a task waits for those before it. *)
Enqueue(n, kind, s) == tasks' = [tasks EXCEPT ![n] = Append(@, Task(kind, s))]
Starting(n, kind) ==
    /\ n \in up /\ run[n].at = "idle"
    /\ tasks[n] # <<>> /\ Head(tasks[n]).kind = kind
Who(n) == Head(tasks[n]).who
At(n, step, local) == run' = [run EXCEPT ![n] = [local EXCEPT !.at = step]]
EndTask(n) ==
    /\ tasks' = [tasks EXCEPT ![n] = Tail(@)]
    /\ run' = [run EXCEPT ![n] = Idle]

-----------------------------------------------------------------------------
(* Clients *)

(* handleSubscribe() up to its task, once the client is authorized. *)
Subscribe(s) ==
    /\ Home[s] \in up /\ s \in open \ used /\ handler[s] = "idle"
    /\ used' = used \cup {s} /\ subscribed' = subscribed \cup {s}
    /\ Enqueue(Home[s], "join", s)
    /\ handler' = [handler EXCEPT ![s] = "join"]
    /\ UNCHANGED <<redisVars, inbox, wire, up, open, joined, pending, cleanup, told, view, seen,
                   owned, run, cycle, faults, stalled>>

Unsubscribe(s) ==
    /\ Home[s] \in up /\ s \in Leaving /\ Live(s) /\ handler[s] = "idle"
    /\ Enqueue(Home[s], "leave", s)
    /\ handler' = [handler EXCEPT ![s] = "leave"]
    /\ UNCHANGED <<redisVars, inbox, wire, up, open, socketVars, told, view, seen, owned, run,
                   cycle, used, stalled, faults>>

(* disconnectSocket(): at any time, also while a message is handled. *)
Disconnect(s) ==
    /\ Home[s] \in up /\ s \in open \cap Leaving
    /\ open' = open \ {s}
    /\ IF s \in subscribed \cup cleanup THEN Enqueue(Home[s], "clean", s) ELSE UNCHANGED tasks
    /\ subscribed' = subscribed \ {s} /\ cleanup' = cleanup \ {s}
    /\ view' = [view EXCEPT ![s] = None]
    /\ UNCHANGED <<redisVars, inbox, wire, up, joined, pending, handler, told, seen, owned, run,
                   cycle, used, stalled, faults>>

-----------------------------------------------------------------------------
(* Reconciling the roster with Redis: reconcilePresenceEntries() *)

(* The roster a worker takes over when a socket of its own joins: what the hash has, and
   its own live sockets that the hash lacks.  Everyone else is told of the difference. *)
SettleJoin(n, entries, dead) ==
    LET s == Who(n)
        before == seen[n] \ dead
        merged == (entries \ dead) \cup {t \in Own(n) \cap joined : Live(t)}
        gone == (Roster(seen[n]) \ Roster(before)) \cup (Roster(before) \ Roster(merged))
        news == Roster(merged) \ (Roster(before) \cup {User[s]})
        isNewMember == User[s] \notin Roster(merged \ {s})
    IN  /\ seen' = [seen EXCEPT ![n] = merged]
        /\ view' = Deliver(n, s, gone, news \cup (IF isNewMember THEN {User[s]} ELSE {}))
        /\ joined' = joined \cup {s} /\ cleanup' = cleanup \ {s}
        /\ handler' = [handler EXCEPT ![s] = "announce"]
        /\ Reply(n, "task", <<s>>)
        /\ UNCHANGED cycle

(* In the liveness cycle only the sockets of dead workers leave the roster. *)
SettleCheck(n, dead) ==
    /\ Leaves(n, dead, None)
    /\ cycle' = [cycle EXCEPT ![n] = "idle"]
    /\ Reply(n, "task", <<>>)
    /\ UNCHANGED <<joined, cleanup, handler>>

Settle(n, entries, dead) ==
    /\ IF Head(tasks[n]).kind = "join" THEN SettleJoin(n, entries, dead) ELSE SettleCheck(n, dead)
    /\ EndTask(n)

(* The task goes on with the next command. *)
GoOn(n, step, local) ==
    /\ At(n, step, local)
    /\ Reply(n, "task", <<"task">>)
    /\ UNCHANGED <<joined, cleanup, handler, view, seen, tasks, cycle>>

RefsOf(n, entries, m) == {t \in entries \cup seen[n] : Home[t] = m}

(* hashGetAll(), and which other workers have sockets in it or in the roster. *)
Read(n) ==
    /\ n \in up /\ run[n].at = "read"
    /\ LET others == {Home[t] : t \in hash \cup seen[n]} \ {n}
       IN  IF others = {} THEN Settle(n, hash, {})
           ELSE GoOn(n, "probe", [run[n] EXCEPT !.entries = hash, !.todo = others])
    /\ UNCHANGED <<redisVars, inbox, up, open, subscribed, pending, told, owned, used, stalled, faults>>

(* listDeadNodeSocketRefs(): whose lease has run out. *)
Probe(n) ==
    /\ n \in up /\ run[n].at = "probe"
    /\ \E m \in run[n].todo :
          LET dead == run[n].dead \cup (IF m \in lease THEN {} ELSE RefsOf(n, run[n].entries, m))
              rest == run[n].todo \ {m}
          IN  CASE rest # {} -> GoOn(n, "probe", [run[n] EXCEPT !.todo = rest, !.dead = dead])
                [] rest = {} /\ dead = {} -> Settle(n, run[n].entries, {})
                [] OTHER -> GoOn(n, "evict", [run[n] EXCEPT !.todo = dead, !.dead = dead])
    /\ UNCHANGED <<redisVars, inbox, up, open, subscribed, pending, told, owned, used, stalled, faults>>

(* Before each entry of a dead worker is deleted, the own lease is refreshed. *)
EvictLease(n) ==
    /\ n \in up /\ run[n].at = "evict"
    /\ lease' = lease \cup {n}
    /\ GoOn(n, "delete", run[n])
    /\ UNCHANGED <<hash, inbox, up, open, subscribed, pending, told, owned, used, stalled, faults>>

EvictDelete(n) ==
    /\ n \in up /\ run[n].at = "delete"
    /\ \E t \in run[n].todo :
          /\ hash' = hash \ {t}
          /\ IF run[n].todo = {t} THEN Settle(n, run[n].entries, run[n].dead)
             ELSE GoOn(n, "evict", [run[n] EXCEPT !.todo = @ \ {t}])
    /\ UNCHANGED <<lease, inbox, up, open, subscribed, pending, told, owned, used, stalled, faults>>

ReconcileSteps == {"read", "probe", "evict", "delete"}

(* runScalingLivenessCycle() after the reconciliation of its own entries. *)
StartCheck(n) ==
    /\ Starting(n, "check")
    /\ At(n, "read", Idle) /\ Issue(n, "task")
    /\ UNCHANGED <<redisVars, inbox, up, open, socketVars, handler, told, view, seen, owned, tasks,
                   cycle, used, stalled, faults>>

CheckFails(n) ==
    /\ n \in up /\ run[n].at \in ReconcileSteps /\ Head(tasks[n]).kind = "check"
    /\ Rejected(<<"check", run[n].at>>)
    /\ Reply(n, "task", <<>>) /\ EndTask(n)
    /\ cycle' = [cycle EXCEPT ![n] = "idle"]
    /\ UNCHANGED <<redisVars, inbox, up, open, socketVars, handler, told, view, seen, owned, used,
                   stalled>>

-----------------------------------------------------------------------------
(* Joining: handleSubscribe(), synchronizePresenceChannel() *)

(* A socket that is gone before its turn does not join. *)
StartJoin(n) ==
    /\ Starting(n, "join")
    /\ LET s == Who(n)
       IN  IF s \in open
           THEN At(n, "lease", Idle) /\ Issue(n, "task") /\ UNCHANGED <<tasks, handler>>
           ELSE EndTask(n) /\ handler' = [handler EXCEPT ![s] = "idle"] /\ UNCHANGED wire
    /\ UNCHANGED <<redisVars, inbox, up, open, socketVars, told, view, seen, owned, cycle, used,
                   stalled, faults>>

JoinLease(n) ==
    /\ n \in up /\ run[n].at = "lease"
    /\ lease' = lease \cup {n} /\ owned' = owned \cup {n}
    /\ GoOn(n, "set", run[n])
    /\ UNCHANGED <<hash, inbox, up, open, subscribed, pending, told, used, stalled, faults>>

JoinSet(n) ==
    /\ n \in up /\ run[n].at = "set"
    /\ hash' = hash \cup {Who(n)}
    /\ GoOn(n, "read", run[n])
    /\ UNCHANGED <<lease, inbox, up, open, subscribed, pending, told, owned, used, stalled, faults>>

(* The others are told, and the client gets the roster as it is by then. *)
Announced(s) ==
    /\ Home[s] \in up /\ handler[s] = "announce"
    /\ Reply(Home[s], s, <<>>)
    /\ Publish(Home[s], "added", s)
    /\ view' = [view EXCEPT ![s] = IF s \in open THEN Roster(seen[Home[s]]) ELSE None]
    /\ handler' = [handler EXCEPT ![s] = "idle"]
    /\ UNCHANGED <<redisVars, up, open, socketVars, told, seen, owned, tasks, run, cycle, used,
                   stalled, faults>>

(* rollBackFailedPresenceSubscription() up to its task. *)
RollBack(s, queue) ==
    /\ subscribed' = subscribed \ {s} /\ joined' = joined \ {s} /\ pending' = pending \ {s}
    /\ told' = [told EXCEPT ![s] = s \in joined]
    /\ tasks' = [tasks EXCEPT ![Home[s]] = Append(queue, Task("undo", s))]
    /\ handler' = [handler EXCEPT ![s] = "undo"]
    /\ view' = [view EXCEPT ![s] = None]

JoinFails(n) ==
    /\ n \in up /\ run[n].at \in {"lease", "set"} \cup ReconcileSteps
    /\ Head(tasks[n]).kind = "join"
    /\ Rejected(<<"join", run[n].at>>)
    /\ Reply(n, "task", <<>>)
    /\ RollBack(Who(n), Tail(tasks[n]))
    /\ run' = [run EXCEPT ![n] = Idle]
    /\ UNCHANGED <<redisVars, inbox, up, open, cleanup, seen, owned, cycle, used, stalled>>

AnnounceFails(s) ==
    /\ Home[s] \in up /\ handler[s] = "announce"
    /\ Rejected(<<"join", "announce">>)
    /\ Reply(Home[s], s, <<>>)
    /\ RollBack(s, tasks[Home[s]])
    /\ UNCHANGED <<redisVars, inbox, up, open, cleanup, seen, owned, run, cycle, used, stalled>>

(* removeSubscriptionLocal() in its turn; the entry is deleted outside of the queue. *)
Undo(n) ==
    /\ Starting(n, "undo")
    /\ LET s == Who(n)
       IN  /\ Leaves(n, {s}, s)
           /\ Issue(n, s)
           /\ handler' = [handler EXCEPT ![s] = "undo_delete"]
    /\ EndTask(n)
    /\ UNCHANGED <<redisVars, inbox, up, open, socketVars, told, owned, cycle, used, stalled, faults>>

(* What was announced is taken back, whether or not the entry could be deleted. *)
UndoGoesOn(s) ==
    IF told[s] THEN Reply(Home[s], s, <<s>>) /\ handler' = [handler EXCEPT ![s] = "undo_tell"]
               ELSE Reply(Home[s], s, <<>>) /\ handler' = [handler EXCEPT ![s] = "idle"]

UndoDeleted(s) ==
    /\ Home[s] \in up /\ handler[s] = "undo_delete"
    /\ hash' = hash \ {s} /\ cleanup' = cleanup \ {s}
    /\ UndoGoesOn(s)
    /\ UNCHANGED <<lease, inbox, up, open, subscribed, joined, pending, told, view, seen, owned,
                   tasks, run, cycle, used, stalled, faults>>

UndoDeleteFails(s) ==
    /\ Home[s] \in up /\ handler[s] = "undo_delete"
    /\ Rejected(<<"undo", "delete">>)
    /\ cleanup' = cleanup \cup {s}
    /\ UndoGoesOn(s)
    /\ UNCHANGED <<redisVars, inbox, up, open, subscribed, joined, pending, told, view, seen, owned,
                   tasks, run, cycle, used, stalled>>

UndoTold(s) ==
    /\ Home[s] \in up /\ handler[s] = "undo_tell"
    /\ Reply(Home[s], s, <<>>)
    /\ \/ Publish(Home[s], "removed", s) /\ UNCHANGED faults
       \/ Rejected(<<"undo", "tell">>) /\ UNCHANGED inbox
    /\ handler' = [handler EXCEPT ![s] = "idle"]
    /\ UNCHANGED <<redisVars, up, open, socketVars, told, view, seen, owned, tasks, run, cycle,
                   used, stalled>>

-----------------------------------------------------------------------------
(* Leaving: handleUnsubscribe() and the cleanup of disconnectSocket() *)

StartLeave(n) ==
    /\ Starting(n, "leave")
    /\ At(n, "leave_delete", [Idle EXCEPT !.flag = Who(n) \in seen[n]])
    /\ Issue(n, "task")
    /\ UNCHANGED <<redisVars, inbox, up, open, socketVars, handler, told, view, seen, owned, tasks,
                   cycle, used, stalled, faults>>

LeaveEnds(n) ==
    LET s == Who(n)
        rest == seen[n] \ {s}
    IN  /\ seen' = [seen EXCEPT ![n] = rest]
        /\ view' = [Deliver(n, s, Roster(seen[n]) \ Roster(rest), {}) EXCEPT ![s] = None]
        /\ subscribed' = subscribed \ {s} /\ joined' = joined \ {s}
        /\ pending' = pending \ {s} /\ cleanup' = cleanup \ {s}
        /\ handler' = [handler EXCEPT ![s] = "idle"]
        /\ Reply(n, "task", <<>>) /\ EndTask(n)

LeaveDeleted(n) ==
    /\ n \in up /\ run[n].at = "leave_delete"
    /\ hash' = hash \ {Who(n)}
    /\ IF run[n].flag THEN GoOn(n, "leave_tell", run[n]) /\ UNCHANGED <<subscribed, pending>>
                      ELSE LeaveEnds(n) /\ UNCHANGED cycle
    /\ UNCHANGED <<lease, inbox, up, open, told, owned, used, stalled, faults>>

LeaveTold(n) ==
    /\ n \in up /\ run[n].at = "leave_tell"
    /\ Publish(n, "removed", Who(n))
    /\ LeaveEnds(n)
    /\ UNCHANGED <<redisVars, up, open, told, owned, cycle, used, stalled, faults>>

(* The message fails and the socket stays subscribed. *)
LeaveFails(n) ==
    /\ n \in up /\ run[n].at \in {"leave_delete", "leave_tell"}
    /\ Rejected(<<"leave", run[n].at>>)
    /\ handler' = [handler EXCEPT ![Who(n)] = "idle"]
    /\ Reply(n, "task", <<>>) /\ EndTask(n)
    /\ UNCHANGED <<redisVars, inbox, up, open, socketVars, told, view, seen, owned, cycle, used,
                   stalled>>

StartClean(n) ==
    /\ Starting(n, "clean")
    /\ At(n, "clean_delete", [Idle EXCEPT !.flag = Who(n) \in seen[n]])
    /\ Leaves(n, {Who(n)}, Who(n))
    /\ Issue(n, "task")
    /\ UNCHANGED <<redisVars, inbox, up, open, socketVars, handler, told, owned, tasks, cycle, used,
                   stalled, faults>>

CleanDeleted(n) ==
    /\ n \in up /\ run[n].at = "clean_delete"
    /\ hash' = hash \ {Who(n)}
    /\ IF run[n].flag THEN GoOn(n, "clean_tell", run[n])
       ELSE /\ EndTask(n) /\ Reply(n, "task", <<>>)
            /\ UNCHANGED <<joined, cleanup, handler, view, seen, cycle>>
    /\ UNCHANGED <<lease, inbox, up, open, subscribed, pending, told, owned, used, stalled, faults>>

CleanTold(n) ==
    /\ n \in up /\ run[n].at = "clean_tell"
    /\ Publish(n, "removed", Who(n))
    /\ EndTask(n) /\ Reply(n, "task", <<>>)
    /\ UNCHANGED <<redisVars, up, open, socketVars, handler, told, view, seen, owned, cycle, used,
                   stalled, faults>>

(* Without the entry's deletion nobody is told; the liveness cycle tries again. *)
CleanFails(n) ==
    /\ n \in up /\ run[n].at \in {"clean_delete", "clean_tell"}
    /\ Rejected(<<"clean", run[n].at>>)
    /\ EndTask(n) /\ Reply(n, "task", <<>>)
    /\ UNCHANGED <<redisVars, inbox, up, open, socketVars, handler, told, view, seen, owned, cycle,
                   used, stalled>>

-----------------------------------------------------------------------------
(* A worker's own entries: reconcileOwnPresenceEntries() *)

StartOwn(n) ==
    /\ Starting(n, "own")
    /\ At(n, "own_read", Idle) /\ Issue(n, "task")
    /\ UNCHANGED <<redisVars, inbox, up, open, socketVars, handler, told, view, seen, owned, tasks,
                   cycle, used, stalled, faults>>

HasSubscribers(n) == \E s \in Own(n) : Live(s)

(* The task is over, failed or not, and the liveness cycle goes on: if the channel has
   subscribers, it refreshes the lease, and unless that fails it checks the roster. *)
OwnEnds(n, checks) ==
    /\ Reply(n, "task", <<>>)
    /\ run' = [run EXCEPT ![n] = Idle]
    /\ IF checks /\ HasSubscribers(n)
       THEN /\ lease' = lease \cup {n} /\ cycle' = [cycle EXCEPT ![n] = "check"]
            /\ tasks' = [tasks EXCEPT ![n] = Append(Tail(@), Task("check", None))]
       ELSE /\ cycle' = [cycle EXCEPT ![n] = "idle"]
            /\ tasks' = [tasks EXCEPT ![n] = Tail(@)]
            /\ UNCHANGED lease

OwnGoesOn(n, step, local) ==
    /\ At(n, step, local)
    /\ Reply(n, "task", <<"task">>)
    /\ UNCHANGED <<lease, tasks, cycle>>

(* Second loop, over the sockets listed when it began: who has no entry gets one, and is
   announced; "marked" are the announcements that are due.  Sockets passed over before the
   next one are not looked at again. *)
Republish(n, local, marked) ==
    LET lacking == {s \in local.todo \cap joined : Live(s) /\ (s \in marked \/ s \notin local.entries)}
    IN  \/ \E s \in lacking, passed \in SUBSET (local.todo \ lacking) :
              /\ pending' = marked \cup {s}
              /\ OwnGoesOn(n, IF s \in local.entries THEN "own_add" ELSE "own_set",
                           [local EXCEPT !.todo = @ \ (passed \cup {s}), !.who = s])
              /\ UNCHANGED owned
        \/ /\ lacking = {}
           /\ pending' = marked
           /\ owned' = IF local.flag \/ HasSubscribers(n) THEN owned ELSE owned \ {n}
           /\ OwnEnds(n, TRUE)

(* First loop, over the worker's entries: those without a live socket are removed. *)
Sweep(n, local) ==
    LET live == {s \in local.todo : Live(s)}
    IN  \/ \E s \in local.todo \ live, passed \in SUBSET live :
              /\ OwnGoesOn(n, "own_tell", [local EXCEPT !.todo = @ \ (passed \cup {s}), !.who = s,
                                                        !.flag = @ \/ passed # {}])
              /\ UNCHANGED <<pending, owned>>
        \/ /\ local.todo = live
           /\ Republish(n, [local EXCEPT !.todo = {s \in Own(n) : Live(s)},
                                         !.flag = @ \/ live # {}], pending)

OwnRead(n) ==
    /\ n \in up /\ run[n].at = "own_read"
    /\ Sweep(n, [run[n] EXCEPT !.entries = hash, !.todo = hash \cap Own(n)])
    /\ UNCHANGED <<hash, inbox, up, open, subscribed, joined, cleanup, handler, told, view, seen,
                   used, stalled, faults>>

OwnTold(n) ==
    /\ n \in up /\ run[n].at = "own_tell"
    /\ Publish(n, "removed", run[n].who)
    /\ OwnGoesOn(n, "own_delete", run[n])
    /\ UNCHANGED <<hash, up, open, socketVars, handler, told, view, seen, owned, used, stalled, faults>>

OwnDeleted(n) ==
    /\ n \in up /\ run[n].at = "own_delete"
    /\ hash' = hash \ {run[n].who}
    /\ Sweep(n, run[n])
    /\ UNCHANGED <<inbox, up, open, subscribed, joined, cleanup, handler, told, view, seen, used,
                   stalled, faults>>

(* A socket that went away meanwhile is not announced. *)
OwnSet(n) ==
    /\ n \in up /\ run[n].at = "own_set"
    /\ hash' = hash \cup {run[n].who}
    /\ IF Live(run[n].who) THEN OwnGoesOn(n, "own_add", run[n]) /\ UNCHANGED <<pending, owned>>
                           ELSE Republish(n, run[n], pending)
    /\ UNCHANGED <<inbox, up, open, subscribed, joined, cleanup, handler, told, view, seen, used,
                   stalled, faults>>

(* The announcement is no longer due. *)
OwnAdded(n) ==
    /\ n \in up /\ run[n].at = "own_add"
    /\ Publish(n, "added", run[n].who)
    /\ Republish(n, run[n], pending \ {run[n].who})
    /\ UNCHANGED <<hash, up, open, subscribed, joined, cleanup, handler, told, view, seen, used,
                   stalled, faults>>

OwnFails(n) ==
    /\ n \in up /\ run[n].at \in {"own_read", "own_tell", "own_delete", "own_set", "own_add"}
    /\ Rejected(<<"own", run[n].at>>)
    /\ \E checks \in BOOLEAN : OwnEnds(n, checks)
    /\ UNCHANGED <<hash, inbox, up, open, socketVars, handler, told, view, seen, owned, used, stalled>>

-----------------------------------------------------------------------------
(* Mutant: only channels that have subscribers here are looked after. *)
StartCycleSubscribed(n) ==
    /\ n \in up /\ cycle[n] = "idle"
    /\ lease' = lease \cup {n}
    /\ LET next == CASE HasSubscribers(n) -> "own"
                     [] OTHER -> "idle"
       IN  /\ cycle' = [cycle EXCEPT ![n] = next]
           /\ IF next = "idle" THEN UNCHANGED tasks ELSE Enqueue(n, next, None)
    /\ UNCHANGED <<hash, inbox, wire, up, open, socketVars, handler, told, view, seen, owned, run,
                   used, stalled, faults>>

(* The liveness cycle: runScalingLivenessCycle().  A refresh of the lease and what it leads
   to are one step; of two in a row one is kept. *)
StartCycle(n) ==
    /\ n \in up /\ cycle[n] = "idle"
    /\ lease' = lease \cup {n}
    /\ LET next == CASE n \in owned -> "own"
                     [] n \notin owned /\ HasSubscribers(n) -> "check"
                     [] OTHER -> "idle"
       IN  /\ cycle' = [cycle EXCEPT ![n] = next]
           /\ IF next = "idle" THEN UNCHANGED tasks ELSE Enqueue(n, next, None)
    /\ UNCHANGED <<hash, inbox, wire, up, open, socketVars, handler, told, view, seen, owned, run,
                   used, stalled, faults>>

-----------------------------------------------------------------------------
(* Messages of other workers, and faults *)

(* handleScalingMessage() puts a message into the queue of tasks. *)
Receive(n) ==
    /\ n \in up /\ inbox[n] # <<>>
    /\ inbox' = [inbox EXCEPT ![n] = Tail(@)]
    /\ tasks' = [tasks EXCEPT ![n] = Append(@, Head(inbox[n]))]
    /\ UNCHANGED <<redisVars, wire, up, open, socketVars, handler, told, view, seen, owned, run,
                   cycle, used, stalled, faults>>

(* applyScalingPresenceMessage(). *)
ApplyAdded(n) ==
    /\ Starting(n, "added")
    /\ seen' = [seen EXCEPT ![n] = @ \cup {Who(n)}]
    /\ view' = Deliver(n, None, {}, {User[Who(n)]} \ Roster(seen[n]))
    /\ EndTask(n)
    /\ UNCHANGED <<redisVars, inbox, wire, up, open, socketVars, handler, told, owned, cycle, used,
                   stalled, faults>>

ApplyRemoved(n) ==
    /\ Starting(n, "removed")
    /\ Leaves(n, {Who(n)}, None)
    /\ EndTask(n)
    /\ UNCHANGED <<redisVars, inbox, wire, up, open, socketVars, handler, told, owned, cycle, used,
                   stalled, faults>>

(* The subscriptions of a worker that have refreshed its lease and not read the hash yet. *)
Entering(n) == IF run[n].at \in {"set", "read"} /\ Head(tasks[n]).kind = "join" THEN {Who(n)} ELSE {}

(* A lease runs out: its worker stalls or cannot reach Redis for longer than the lease
   lives, at whatever it is doing, or is no more. *)
Expire(n) ==
    /\ n \in lease
    /\ lease' = lease \ {n}
    /\ IF n \in up THEN Fault ELSE UNCHANGED faults
    /\ stalled' = stalled \cup Entering(n)
    /\ UNCHANGED <<hash, inbox, wire, up, open, socketVars, handler, told, view, seen, owned, tasks,
                   run, cycle, used>>

(* A worker ends with its connections and everything it keeps in memory. *)
Crash(n) ==
    /\ n \in up /\ Fault
    /\ up' = up \ {n} /\ open' = open \ Own(n)
    /\ subscribed' = subscribed \ Own(n) /\ joined' = joined \ Own(n)
    /\ pending' = pending \ Own(n) /\ cleanup' = cleanup \ Own(n) /\ owned' = owned \ {n}
    /\ handler' = [s \in Sockets |-> IF Home[s] = n THEN "idle" ELSE handler[s]]
    /\ view' = [s \in Sockets |-> IF Home[s] = n THEN None ELSE view[s]]
    /\ seen' = [seen EXCEPT ![n] = {}] /\ tasks' = [tasks EXCEPT ![n] = <<>>]
    /\ run' = [run EXCEPT ![n] = Idle] /\ cycle' = [cycle EXCEPT ![n] = "idle"]
    /\ wire' = [wire EXCEPT ![n] = <<>>] /\ inbox' = [inbox EXCEPT ![n] = <<>>]
    /\ UNCHANGED <<redisVars, told, used, stalled>>

-----------------------------------------------------------------------------
Starts(n) ==
    \/ StartJoin(n) \/ StartLeave(n) \/ StartClean(n) \/ Undo(n) \/ StartOwn(n) \/ StartCheck(n)
    \/ ApplyAdded(n) \/ ApplyRemoved(n)

Replies(n) ==
    \/ JoinLease(n) \/ JoinSet(n) \/ Read(n) \/ Probe(n) \/ EvictLease(n) \/ EvictDelete(n)
    \/ LeaveDeleted(n) \/ LeaveTold(n) \/ CleanDeleted(n) \/ CleanTold(n)
    \/ OwnRead(n) \/ OwnTold(n) \/ OwnDeleted(n) \/ OwnSet(n) \/ OwnAdded(n)

Handlers(s) == Announced(s) \/ UndoDeleted(s) \/ UndoTold(s)

Fails(n) == JoinFails(n) \/ LeaveFails(n) \/ CleanFails(n) \/ OwnFails(n) \/ CheckFails(n)

(* A task starts in the same turn of the event loop as what let it start. *)
Ready(n) == tasks[n] # <<>> => run[n].at # "idle"

Next ==
    \/ \E s \in Sockets :
          /\ Ready(Home[s])
          /\ \/ Subscribe(s) \/ Unsubscribe(s) \/ Disconnect(s)
             \/ Handlers(s) \/ AnnounceFails(s) \/ UndoDeleteFails(s)
    \/ \E n \in Nodes :
          \/ Starts(n) \/ Receive(n) \/ StartCycle(n) \/ Expire(n)
          \/ Ready(n) /\ (Replies(n) \/ Fails(n) \/ Crash(n))

Spec == Init /\ [][Next]_vars

(* The event loop goes on, Redis answers and delivers, the interval fires, and the lease of
   a worker that is no more runs out.  No client and no fault has to act. *)
FairSpec ==
    /\ Spec
    /\ \A n \in Nodes :
          /\ WF_vars(Starts(n)) /\ WF_vars(Ready(n) /\ Replies(n)) /\ WF_vars(Receive(n))
          /\ WF_vars(StartCycle(n)) /\ WF_vars(n \notin up /\ Expire(n))
    /\ \A s \in Sockets : WF_vars(Ready(Home[s]) /\ Handlers(s))

-----------------------------------------------------------------------------
TypeOK ==
    /\ hash \subseteq Sockets /\ lease \subseteq Nodes /\ up \subseteq Nodes /\ owned \subseteq Nodes
    /\ open \subseteq Sockets /\ subscribed \subseteq open /\ stalled \subseteq Sockets
    /\ \A n \in Nodes : seen[n] \subseteq Sockets
    /\ \A s \in Sockets : view[s] # None => s \in open /\ view[s] \subseteq {User[t] : t \in Sockets}

(* The clients with a roster to show. *)
Present == {s \in Sockets : view[s] # None}

(* A client is never left with a member that its worker's roster no longer has, unless it is
   one of the worker's own whose subscription was stalled. *)
NoGhostShown ==
    \A s \in Present : handler[s] # "announce" =>
        view[s] \subseteq Roster(seen[Home[s]] \cup {t \in stalled : Home[t] = Home[s]})

(* "without ghosts" (packages/broadcast/tests/native-worker-security.test.ts:615): strictly. *)
OnlyRosterShown ==
    \A s \in Present : handler[s] # "announce" => view[s] \subseteq Roster(seen[Home[s]])

(* "a group whose members can see each other" (docs/broadcasting/events-and-channels.md:7):
   a client shows every member its worker knows of. *)
EveryoneShown == \A s \in Present : Roster(seen[Home[s]]) \subseteq view[s]

(* Once nothing changes any more, every worker with subscribers has exactly the connected
   subscribers in its roster, and so has the hash: who left or crashed is gone, and who lost
   the lease for a while is back.  Only a stalled subscription may be wrong in a roster. *)
Agreed ==
    /\ \A s \in Present : (seen[Home[s]] \ Present) \cup (Present \ seen[Home[s]]) \subseteq stalled
    /\ Present # {} => hash = Present
Converges == <>[]Agreed

(* "it adds its live members back" (docs/broadcasting/production.md:14), and members leave
   every roster (docs/broadcasting/client.md:629): strictly. *)
AllAgree == \A s \in Present : seen[Home[s]] = Present
AllConverge == <>[]AllAgree
===============================================================================
