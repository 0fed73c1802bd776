------------------------------- MODULE Schedule -------------------------------
(***************************************************************************)
(* The task scheduler (runDueScheduledTasks in                             *)
(* packages/schedule/src/runner.ts) as several schedule:run processes, on  *)
(* one server or on many, execute it over one shared cache store.          *)
(*                                                                         *)
(* A process goes through the entries due in its minute one after another. *)
(* withoutOverlapping() asks for the task's cache lock twice, once to see  *)
(* that it is free and once to hold it during the run; onOneServer() takes *)
(* a lock named after the task and the wall clock's hour and minute in     *)
(* between, a name that comes back within the hour when clocks are set     *)
(* back.  Each lock operation is one action, and other processes run       *)
(* between any two.                                                        *)
(* Acquiring and releasing a cache lock is atomic in the shared stores.    *)
(***************************************************************************)
EXTENDS Naturals, Sequences

CONSTANTS
    Processes,     \* schedule:run processes
    Tasks,         \* mutex names
    Due,           \* the due entries in order, [task, overlap, single]
    MaxMinute,     \* bound on the clock, in minutes
    HourMinute,    \* what the wall clock shows in each minute (formatHourMinute)
    Expires,       \* minutes withoutOverlapping() holds its lock at most
    OneServer,     \* minutes a minute's lock lives (ONE_SERVER_LOCK_SECONDS)
    MaxStops,      \* bound on signals, crashes and cache failures
    Nobody         \* holder of a free lock

ASSUME ScheduleAssumption ==
    /\ Due \in Seq([task : Tasks, overlap : BOOLEAN, single : BOOLEAN])
    /\ HourMinute \in [0 .. MaxMinute -> Nat]
    /\ MaxMinute \in Nat /\ Expires \in Nat \ {0} /\ OneServer \in Nat \ {0} /\ MaxStops \in Nat
    /\ Nobody \notin Processes

VARIABLES
    now,      \* the current minute
    holder,   \* holder[t]: the process that holds the lock of task t
    left,     \* left[t]: minutes until that lock expires
    claim,    \* claim[t][c]: minutes until the lock of task t and clock c expires
    claimer,  \* claimer[t][c]: the process that took that lock, Nobody if it is free
    pc,       \* where the process is
    minute,   \* the minute it was started for
    entry,    \* index of the entry it is at
    decision, \* decision[p][t]: the promise in serverDecisions
    held,     \* minutes since it acquired the lock it runs under, at most Expires
    stopping, \* processes that were sent a signal
    stops,    \* signals, crashes and cache failures so far
    failed,   \* history: processes of which a cache call failed
    ran,      \* history: runs started, [process, entry, minute]
    refused,  \* history: refused[p][t]: the process whose lock of the minute refused p
    lapsed    \* history: lapsed[t]: processes whose lock of the minute expired

vars == <<now, holder, left, claim, claimer, pc, minute, entry, decision, held, stopping, stops,
          failed, ran, refused, lapsed>>

Minutes == 0 .. MaxMinute
Clocks == {HourMinute[m] : m \in Minutes}

(* The type invariant, in parts: where the processes are, the locks, the minutes. *)
StepType ==
    /\ pc \in [Processes -> {"absent", "probe", "probing", "server", "lock", "start",
                             "running", "release", "done", "crashed"}]
    /\ entry \in [Processes -> 1 .. Len(Due) + 1]

LockType ==
    /\ holder \in [Tasks -> Processes \cup {Nobody}]
    /\ left \in [Tasks -> 0 .. Expires]
    /\ held \in [Processes -> 0 .. Expires]

MinuteType ==
    /\ minute \in [Processes -> Minutes]
    /\ decision \in [Processes -> [Tasks -> {"none", "won", "lost", "rejected"}]]
    /\ claim \in [Tasks -> [Clocks -> 0 .. OneServer]]
    /\ claimer \in [Tasks -> [Clocks -> Processes \cup {Nobody}]]
    /\ refused \in [Processes -> [Tasks -> Processes \cup {Nobody}]]
    /\ lapsed \in [Tasks -> SUBSET Processes]

CountType ==
    /\ now \in Minutes
    /\ stopping \in SUBSET Processes /\ failed \in SUBSET Processes
    /\ stops \in 0 .. MaxStops
    /\ ran \in SUBSET [process : Processes, entry : 1 .. Len(Due), minute : Minutes]

TypeOK == StepType /\ LockType /\ MinuteType /\ CountType

Init ==
    /\ now = 0
    /\ holder = [t \in Tasks |-> Nobody] /\ left = [t \in Tasks |-> 0]
    /\ claim = [t \in Tasks |-> [c \in Clocks |-> 0]]
    /\ claimer = [t \in Tasks |-> [c \in Clocks |-> Nobody]]
    /\ refused = [p \in Processes |-> [t \in Tasks |-> Nobody]]
    /\ pc = [p \in Processes |-> "absent"]
    /\ minute = [p \in Processes |-> 0]
    /\ entry = [p \in Processes |-> 1]
    /\ decision = [p \in Processes |-> [t \in Tasks |-> "none"]]
    /\ held = [p \in Processes |-> 0]
    /\ stopping = {} /\ stops = 0
    /\ failed = {} /\ ran = {} /\ lapsed = [t \in Tasks |-> {}]

-------------------------------------------------------------------------------

At(p) == Due[entry[p]]
Task(p) == At(p).task
Clock(p) == HourMinute[minute[p]]

Goto(p, step) == pc' = [pc EXCEPT ![p] = step]

(* What the entry at an index is asked first. *)
First(i) ==
    CASE i > Len(Due) -> "done"
      [] i <= Len(Due) /\ Due[i].overlap -> "probe"
      [] i <= Len(Due) /\ ~Due[i].overlap /\ Due[i].single -> "server"
      [] OTHER -> "start"

(* The entry is reported, and the next one is taken up unless a signal came. *)
Advance(p) ==
    /\ Goto(p, IF p \in stopping THEN "done" ELSE First(entry[p] + 1))
    /\ entry' = [entry EXCEPT ![p] = @ + 1]

Acquire(p, t) ==
    /\ holder[t] = Nobody
    /\ holder' = [holder EXCEPT ![t] = p]
    /\ left' = [left EXCEPT ![t] = Expires]

ReleaseAny(p, t) ==
    holder' = [holder EXCEPT ![t] = Nobody] /\ left' = [left EXCEPT ![t] = 0]

(* Only the lock object that acquired a lock releases it; a process has one at a time,
   so the process stands for it. *)
Release(p, t) ==
    IF holder[t] = p
    THEN holder' = [holder EXCEPT ![t] = Nobody] /\ left' = [left EXCEPT ![t] = 0]
    ELSE UNCHANGED <<holder, left>>

(* schedule:run starts for the current minute. *)
Begin(p) ==
    /\ pc[p] = "absent"
    /\ Goto(p, First(1))
    /\ minute' = [minute EXCEPT ![p] = now]
    /\ UNCHANGED <<now, holder, left, claim, claimer, entry, decision, held, stopping, stops,
                   failed, ran, refused, lapsed>>

(* isLockFree: the lock is acquired and released again. *)
Probe(p) ==
    /\ pc[p] = "probe"
    /\ Acquire(p, Task(p))
    /\ Goto(p, "probing")
    /\ UNCHANGED <<now, claim, claimer, minute, entry, decision, held, stopping, stops, failed, ran,
                   refused, lapsed>>

ProbeReleased(p) ==
    /\ pc[p] = "probing"
    /\ Release(p, Task(p))
    /\ Goto(p, IF At(p).single THEN "server" ELSE "lock")
    /\ UNCHANGED <<now, claim, claimer, minute, entry, decision, held, stopping, stops, failed, ran,
                   refused, lapsed>>

(* Either request for the lock is refused: skipped-overlapping. *)
Overlapping(p) ==
    /\ pc[p] \in {"probe", "lock"}
    /\ holder[Task(p)] # Nobody
    /\ Advance(p)
    /\ UNCHANGED <<now, holder, left, claim, claimer, minute, decision, held, stopping, stops,
                   failed, ran, refused, lapsed>>

AnswerAsked(p) == IF claim[Task(p)][Clock(p)] = 0 THEN "won" ELSE "lost"
AnswerAnyMinute(p) ==
    LET t == Task(p) IN
    CASE decision[p][t] # "none" -> decision[p][t]
      [] decision[p][t] = "none" /\ \A c \in Clocks : claim[t][c] = 0 -> "won"
      [] OTHER -> "lost"

(* The decision kept for the task, or what its lock for the hour and minute answers. *)
Answer(p) ==
    LET t == Task(p) IN
    CASE decision[p][t] # "none" -> decision[p][t]
      [] decision[p][t] = "none" /\ claim[t][Clock(p)] = 0 -> "won"
      [] OTHER -> "lost"

(* The lock of a task and a wall clock's hour and minute is granted. *)
Claim(p, t, c) ==
    /\ claim' = [claim EXCEPT ![t][c] = OneServer]
    /\ claimer' = [claimer EXCEPT ![t][c] = p]

AcquireServerNow(p) ==
    LET t == Task(p)
        c == HourMinute[now]
        won == IF decision[p][t] = "none" THEN claim[t][c] = 0 ELSE decision[p][t] = "won" IN
    /\ pc[p] = "server"
    /\ decision' = [decision EXCEPT ![p][t] = IF won THEN "won" ELSE "lost"]
    /\ IF won THEN Claim(p, t, c) ELSE UNCHANGED <<claim, claimer>>
    /\ \/ won /\ Goto(p, IF At(p).overlap THEN "lock" ELSE "start") /\ UNCHANGED entry
       \/ ~won /\ Advance(p)
    /\ UNCHANGED <<now, holder, left, minute, held, stopping, stops, failed, ran, refused, lapsed>>

(* acquireServer: asked once per task and process, for the minute it was started in;
   the entry is skipped-other-server, or failed if the kept promise was rejected. *)
AcquireServer(p) ==
    LET t == Task(p)
        asked == decision[p][t] = "none" IN
    /\ pc[p] = "server"
    /\ decision' = [decision EXCEPT ![p][t] = Answer(p)]
    /\ IF asked /\ Answer(p) = "won" THEN Claim(p, t, Clock(p)) ELSE UNCHANGED <<claim, claimer>>
    /\ refused' = IF asked /\ Answer(p) = "lost"
                  THEN [refused EXCEPT ![p][t] = claimer[t][Clock(p)]] ELSE refused
    /\ \/ Answer(p) = "won" /\ Goto(p, IF At(p).overlap THEN "lock" ELSE "start") /\ UNCHANGED entry
       \/ Answer(p) # "won" /\ Advance(p)
    /\ UNCHANGED <<now, holder, left, minute, held, stopping, stops, failed, ran, lapsed>>

Lock(p) ==
    /\ pc[p] = "lock"
    /\ Acquire(p, Task(p))
    /\ held' = [held EXCEPT ![p] = 0]
    /\ Goto(p, "start")
    /\ UNCHANGED <<now, claim, claimer, minute, entry, decision, stopping, stops, failed, ran,
                   refused, lapsed>>

StartStopped(p) ==
    /\ pc[p] = "start"
    /\ IF p \in stopping
       THEN Goto(p, "done") /\ UNCHANGED ran
       ELSE /\ Goto(p, "running")
            /\ ran' = ran \cup {[process |-> p, entry |-> entry[p], minute |-> minute[p]]}
    /\ UNCHANGED <<now, holder, left, claim, claimer, minute, entry, decision, held, stopping,
                   stops, failed, refused, lapsed>>

(* The task starts, unless a signal came while the locks were acquired. *)
Start(p) ==
    /\ pc[p] = "start"
    /\ IF p \in stopping
       THEN Goto(p, "release") /\ UNCHANGED ran
       ELSE /\ Goto(p, "running")
            /\ ran' = ran \cup {[process |-> p, entry |-> entry[p], minute |-> minute[p]]}
    /\ UNCHANGED <<now, holder, left, claim, claimer, minute, entry, decision, held, stopping,
                   stops, failed, refused, lapsed>>

(* It ends, whether it succeeded or failed. *)
Finish(p) ==
    /\ pc[p] = "running"
    /\ Goto(p, "release")
    /\ UNCHANGED <<now, holder, left, claim, claimer, minute, entry, decision, held, stopping,
                   stops, failed, ran, refused, lapsed>>

Unlock(p) ==
    /\ pc[p] = "release"
    /\ IF At(p).overlap THEN Release(p, Task(p)) ELSE UNCHANGED <<holder, left>>
    /\ Advance(p)
    /\ UNCHANGED <<now, claim, claimer, minute, decision, held, stopping, stops, failed, ran,
                   refused, lapsed>>

Signal(p) ==
    /\ pc[p] \notin {"absent", "done", "crashed"} /\ p \notin stopping
    /\ stops < MaxStops
    /\ stops' = stops + 1
    /\ stopping' = stopping \cup {p}
    /\ UNCHANGED <<now, holder, left, claim, claimer, pc, minute, entry, decision, held, failed,
                   ran, refused, lapsed>>

(* The process dies and leaves its locks to expire. *)
Crash(p) ==
    /\ pc[p] \notin {"absent", "done", "crashed"}
    /\ stops < MaxStops
    /\ stops' = stops + 1
    /\ Goto(p, "crashed")
    /\ UNCHANGED <<now, holder, left, claim, claimer, minute, entry, decision, held, stopping,
                   failed, ran, refused, lapsed>>

(* A call to the cache rejects, before or after the store has carried it out. *)
Broken(p) ==
    /\ stops < MaxStops
    /\ stops' = stops + 1
    /\ failed' = failed \cup {p}
    /\ UNCHANGED <<now, minute, held, stopping, ran, refused, lapsed>>

(* Asking for a lock or giving it back rejects; the entry is reported as failed. *)
LockFails(p) ==
    /\ Broken(p)
    /\ Advance(p)
    /\ UNCHANGED <<claim, claimer, decision>>
    /\ \/ pc[p] \in {"probe", "lock"} /\ Acquire(p, Task(p))
       \/ (pc[p] = "probing" \/ (pc[p] = "release" /\ At(p).overlap)) /\ Release(p, Task(p))
       \/ /\ pc[p] \in {"probe", "probing", "lock"} \/ (pc[p] = "release" /\ At(p).overlap)
          /\ UNCHANGED <<holder, left>>

(* Asking for the lock of the minute rejects, and so does the promise that is kept. *)
DecisionFails(p) ==
    LET t == Task(p) IN
    /\ Broken(p)
    /\ pc[p] = "server" /\ decision[p][t] = "none"
    /\ decision' = [decision EXCEPT ![p][t] = "rejected"]
    /\ \/ claim[t][Clock(p)] = 0 /\ Claim(p, t, Clock(p))
       \/ UNCHANGED <<claim, claimer>>
    /\ Advance(p)
    /\ UNCHANGED <<holder, left>>

Less(n) == IF n = 0 THEN 0 ELSE n - 1

(* A minute passes: locks expire. *)
Tick ==
    /\ now < MaxMinute
    /\ now' = now + 1
    /\ left' = [t \in Tasks |-> Less(left[t])]
    /\ holder' = [t \in Tasks |-> IF left[t] <= 1 THEN Nobody ELSE holder[t]]
    /\ claim' = [t \in Tasks |-> [c \in Clocks |-> Less(claim[t][c])]]
    /\ claimer' = [t \in Tasks |->
                     [c \in Clocks |-> IF claim[t][c] <= 1 THEN Nobody ELSE claimer[t][c]]]
    /\ lapsed' = [t \in Tasks |->
                    lapsed[t] \cup {p \in Processes : \E c \in Clocks : claim[t][c] = 1 /\ claimer[t][c] = p}]
    /\ held' = [p \in Processes |-> IF held[p] < Expires THEN held[p] + 1 ELSE Expires]
    /\ UNCHANGED <<pc, minute, entry, decision, stopping, stops, failed, ran, refused>>

Proceed(p) ==
    \/ Probe(p) \/ ProbeReleased(p) \/ Overlapping(p) \/ AcquireServer(p)
    \/ Lock(p) \/ Start(p) \/ Finish(p) \/ Unlock(p)

Next ==
    \/ \E p \in Processes : Begin(p) \/ Proceed(p) \/ Signal(p) \/ Crash(p) \/ LockFails(p)
                            \/ DecisionFails(p)
    \/ Tick

Spec == Init /\ [][Next]_vars

-------------------------------------------------------------------------------
(* What the locks promise. *)

Entries == 1 .. Len(Due)
Running(p) == pc[p] = "running" /\ At(p).overlap
Interrupted(p) == p \in stopping \cup failed \/ pc[p] = "crashed"
Ran(p, e, m) == [process |-> p, entry |-> e, minute |-> m] \in ran

(* withoutOverlapping(): two processes run the same task at the same time only if
   one of them has outlived the lock, however locks expired and were released. *)
NoOverlap ==
    \A p, q \in Processes :
        p # q /\ Running(p) /\ Running(q) /\ Task(p) = Task(q)
            => held[p] = Expires \/ held[q] = Expires

(* onOneServer(): one process alone runs a task for an hour and minute of the wall
   clock, while the lock it took lives. *)
OneServerRuns ==
    \A r, s \in ran :
        LET t == Due[r.entry].task IN
        (/\ Due[r.entry].single /\ Due[s.entry].single /\ Due[s.entry].task = t
         /\ HourMinute[r.minute] = HourMinute[s.minute]
         /\ {r.process, s.process} \cap lapsed[t] = {})
            => r.process = s.process

(* The process that won a task runs every entry of its list that shares the task
   (entries without withoutOverlapping(), which could skip them). *)
WinnerRunsAll ==
    \A p \in Processes : \A e, f \in Entries :
        (/\ Due[e].single /\ Due[f].single /\ Due[e].task = Due[f].task
         /\ ~Due[f].overlap /\ f < entry[p]
         /\ Ran(p, e, minute[p]) /\ ~Interrupted(p))
            => Ran(p, f, minute[p])

(* The processes of a minute, when each has come to its end uninterrupted; for a task
   that may not overlap, when no other entry and no process of another minute was there
   to hold it up. *)
Started(m) == {p \in Processes : pc[p] # "absent" /\ minute[p] = m}
Through(e, m) ==
    /\ Started(m) # {}
    /\ \A p \in Started(m) : pc[p] = "done" /\ ~Interrupted(p)
    /\ Due[e].overlap => /\ Started(m) = Processes
                         /\ \A f \in Entries \ {e} : Due[f].task # Due[e].task

Served(e, m) == Through(e, m) => \E p \in Started(m) : Ran(p, e, m)

(* One of them was refused by the lock that a process of another minute, in which the
   wall clock showed the same, had taken and that was still alive. *)
Mistaken(e, m) ==
    /\ Due[e].single
    /\ \E p \in Started(m), q \in Processes :
         /\ refused[p][Due[e].task] = q
         /\ minute[q] # m /\ HourMinute[minute[q]] = HourMinute[m]

(* Neither withoutOverlapping() nor onOneServer() alone makes a minute pass unserved,
   unless the minute's lock was another minute's of the same name. *)
MinutesServed ==
    \A e \in Entries, m \in Minutes :
        ~(Due[e].overlap /\ Due[e].single) => Served(e, m) \/ Mistaken(e, m)

(* As documented, a task in a repeated hour runs twice. *)
RepeatedHourServed == \A e \in Entries, m \in Minutes : ~Due[e].overlap => Served(e, m)

(* As documented, no minute passes with both options together: the first server to
   reach a task runs it, and a run is skipped only while the previous one is still going. *)
EveryMinuteServed == \A e \in Entries, m \in Minutes : Served(e, m)

(* Nothing but the death of a process or a failing cache leaves a task's lock to
   expire: a signal between the locks and the run does not. *)
LocksReleased ==
    \A t \in Tasks, p \in Processes :
        holder[t] = p
            => \/ p \in failed \/ pc[p] = "crashed"
               \/ /\ pc[p] \in {"probing", "start", "running", "release"}
                  /\ Task(p) = t /\ At(p).overlap

Holders(t) ==
    {p \in Processes : pc[p] \in {"start", "running", "release"} /\ At(p).overlap /\ Task(p) = t}
Late(t) == {p \in Holders(t) : held[p] = Expires}
Owner(t) == {holder[t]} \ {Nobody}

(* A task's lock is used, and believed to be held, as a cache lock promises: through probes and
   calls that fail, only its holder or its time frees it, and who starts under it was granted it. *)
Promise == INSTANCE TimedLock WITH
    Names <- Tasks, Users <- Processes,
    owner <- [t \in Tasks |-> Owner(t)],
    holds <- [t \in Tasks |-> Holders(t)],
    late <- [t \in Tasks |-> Late(t)]

KeepsLocks == Promise!Spec
===============================================================================
