---------------------------- MODULE ScheduleProofs ----------------------------
(* Proofs about Schedule, for any processes, tasks and list of due entries. *)
EXTENDS Schedule, SequenceTheorems, TLAPS

-------------------------------------------------------------------------------
(* What makes the properties inductive *)

Locked == {"start", "running", "release"}

(* A process is at an entry of its list that has the option its step is about. *)
EntryInv ==
    \A p \in Processes :
        /\ pc[p] = "absent" => entry[p] = 1
        /\ pc[p] \notin {"absent", "done", "crashed"} => entry[p] \in Entries
        /\ pc[p] \in {"probe", "probing", "lock"} => At(p).overlap
        /\ pc[p] \in {"lock"} \cup Locked /\ At(p).single => decision[p][Task(p)] = "won"

(* A lock that is held has time left; the process that runs under it holds it until
   that time is over. *)
HeldInv ==
    /\ \A t \in Tasks : holder[t] = Nobody <=> left[t] = 0
    /\ \A p \in Processes :
         pc[p] \in Locked /\ At(p).overlap
             => \/ held[p] = Expires
                \/ holder[Task(p)] = p /\ held[p] + left[Task(p)] = Expires

(* Who has won a minute has its lock while that lives, and only a winner runs the task. *)
Claims(p, t) == claim[t][Clock(p)] > 0 /\ claimer[t][Clock(p)] = p

WonInv ==
    /\ \A p \in Processes, t \in Tasks :
         decision[p][t] = "won" => pc[p] # "absent" /\ (Claims(p, t) \/ p \in lapsed[t])
    /\ \A r \in ran :
         /\ pc[r.process] # "absent" /\ r.minute = minute[r.process]
         /\ Due[r.entry].single => decision[r.process][Due[r.entry].task] = "won"

ScheduleInv == EntryInv /\ HeldInv /\ WonInv /\ LocksReleased

(* Undisturbed, a process has run every entry it has passed, but for those another
   process was running, or another server had won. *)
Passed(p) ==
    /\ pc[p] = "server" => At(p).single
    /\ pc[p] = "done" => p \in stopping \/ entry[p] = Len(Due) + 1
    /\ ~Interrupted(p) =>
         /\ pc[p] \in {"running", "release"} => Ran(p, entry[p], minute[p])
         /\ \A f \in Entries :
              f < entry[p]
                => \/ Ran(p, f, minute[p])
                   \/ Due[f].overlap
                   \/ Due[f].single /\ decision[p][Due[f].task] = "lost"

PassInv == \A p \in Processes : Passed(p)

(* A process is refused by the lock of one whose clock showed the same hour and minute
   and that won, or could not tell. *)
Took(q, t, c) == q \in Processes /\ Clock(q) = c /\ decision[q][t] \in {"won", "rejected"}

LostInv ==
    /\ \A p \in Processes, t \in Tasks :
         /\ decision[p][t] # "none" => pc[p] # "absent"
         /\ decision[p][t] = "rejected" => p \in failed
         /\ decision[p][t] = "lost" => Took(refused[p][t], t, Clock(p))
    /\ \A t \in Tasks, c \in Clocks : claim[t][c] > 0 => Took(claimer[t][c], t, c)

(* The first process to reach an entry that only may not overlap runs it, or still will. *)
Alone(e) == Due[e].overlap /\ ~Due[e].single /\ \A f \in Entries \ {e} : Due[f].task # Due[e].task

Taken(p, e) == Ran(p, e, minute[p]) \/ (entry[p] = e /\ pc[p] \in {"probing", "lock", "start"})

TakenInv ==
    (\A p \in Processes : ~Interrupted(p)) =>
        \A e \in Entries, p \in Processes :
            Alone(e) /\ entry[p] > e => \E q \in Processes : Taken(q, e)

ServedInv == PassInv /\ LostInv /\ TakenInv

USE DEF Goto

Inv == TypeOK /\ ScheduleInv

(* The bounds are numbers and a free lock has no holder. *)
LEMMA Bounds ==
  /\ MaxMinute \in Nat /\ Expires \in Nat \ {0} /\ OneServer \in Nat \ {0} /\ MaxStops \in Nat
  /\ Nobody \notin Processes
<1> QED
  BY ScheduleAssumption

(* A due entry names a task and two options. *)
LEMMA DueType ==
  /\ Len(Due) \in Nat
  /\ \A i \in Entries : Due[i].task \in Tasks /\ Due[i].overlap \in BOOLEAN /\ Due[i].single \in BOOLEAN
<1>1. Due \in Seq([task : Tasks, overlap : BOOLEAN, single : BOOLEAN])
  BY ScheduleAssumption
<1>2. /\ Len(Due) \in Nat
      /\ \A i \in 1 .. Len(Due) : Due[i] \in [task : Tasks, overlap : BOOLEAN, single : BOOLEAN]
  BY <1>1, ElementOfSeq, LenProperties
<1> QED
  BY <1>2 DEF Entries

(* A process that is at work is at an entry of the list, and its task is one. *)
LEMMA AtEntry ==
  ASSUME NEW p \in Processes, EntryInv, pc[p] \notin {"absent", "done", "crashed"}
  PROVE  entry[p] \in Entries /\ Task(p) \in Tasks
<1> QED
  BY DueType DEF EntryInv, Task, At

(* What an entry is asked first is about the option it has. *)
LEMMA FirstStep ==
  ASSUME NEW i \in 1 .. Len(Due) + 1
  PROVE  /\ First(i) \in {"probe", "server", "start", "done"}
         /\ First(i) # "done" => i \in Entries
         /\ First(i) = "probe" => Due[i].overlap
         /\ First(i) = "start" => ~Due[i].overlap /\ ~Due[i].single
<1> QED
  BY DueType DEF First, Entries

(* So a process that goes on to the next entry is where that entry starts. *)
LEMMA Advances ==
  ASSUME NEW p \in Processes, entry[p] \in Entries, Advance(p)
  PROVE  /\ entry' = [entry EXCEPT ![p] = entry[p] + 1]
         /\ entry[p] + 1 \in 1 .. Len(Due) + 1
         /\ \E step \in {"probe", "server", "start", "done"} :
              /\ pc' = [pc EXCEPT ![p] = step]
              /\ step # "done" => entry[p] + 1 \in Entries
              /\ step = "probe" => Due[entry[p] + 1].overlap
              /\ step = "start" => ~Due[entry[p] + 1].overlap /\ ~Due[entry[p] + 1].single
<1>1. entry[p] + 1 \in 1 .. Len(Due) + 1
  BY DueType DEF Entries
<1> QED
  BY <1>1, FirstStep DEF Advance

(* How one process uses the lock of one task leaves the locks of the others alone: it
   takes a lock only when it is free and gives back only its own. *)
Uses(p) == UNCHANGED <<holder, left>> \/ \E t \in Tasks : Acquire(p, t) \/ Release(p, t)
Apart(p) == \A q \in Processes \ {p} : pc'[q] = pc[q] /\ entry'[q] = entry[q] /\ held'[q] = held[q]

LEMMA HeldFrame ==
  ASSUME NEW p \in Processes, EntryInv, LockType, HeldInv, Uses(p), Apart(p),
         pc'[p] \in Locked /\ At(p)'.overlap
           => \/ held'[p] = Expires
              \/ holder'[Task(p)'] = p /\ held'[p] + left'[Task(p)'] = Expires
  PROVE  HeldInv'
<1>1. \A u \in Tasks : holder'[u] = Nobody <=> left'[u] = 0
  BY Bounds DEF HeldInv, LockType, Uses, Acquire, Release
<1>2. ASSUME NEW q \in Processes \ {p}, pc'[q] \in Locked, At(q)'.overlap
      PROVE  \/ held'[q] = Expires
             \/ holder'[Task(q)'] = q /\ held'[q] + left'[Task(q)'] = Expires
  <2>1. pc[q] \in Locked /\ At(q).overlap /\ Task(q)' = Task(q) /\ held'[q] = held[q]
    BY <1>2 DEF Apart, At, Task
  <2>2. Task(q) \in Tasks
    BY <2>1, AtEntry DEF Locked
  <2>3. held[q] = Expires \/ (holder[Task(q)] = q /\ held[q] + left[Task(q)] = Expires)
    BY <2>1 DEF HeldInv
  <2>4. holder[Task(q)] = q => holder'[Task(q)] = q /\ left'[Task(q)] = left[Task(q)]
    BY <2>2, Bounds DEF LockType, Uses, Acquire, Release
  <2> QED
    BY <2>1, <2>3, <2>4
<1> QED
  BY <1>1, <1>2 DEF HeldInv

LEMMA ReleasedFrame ==
  ASSUME NEW p \in Processes, LockType, LocksReleased, Uses(p), Apart(p),
         failed \subseteq failed',
         \A u \in Tasks : holder'[u] = p
           => \/ p \in failed' \/ pc'[p] = "crashed"
              \/ /\ pc'[p] \in {"probing", "start", "running", "release"}
                 /\ Task(p)' = u /\ At(p)'.overlap
  PROVE  LocksReleased'
<1>1. ASSUME NEW u \in Tasks, NEW q \in Processes \ {p}, holder'[u] = q
      PROVE  \/ q \in failed' \/ pc'[q] = "crashed"
             \/ /\ pc'[q] \in {"probing", "start", "running", "release"}
                /\ Task(q)' = u /\ At(q)'.overlap
  <2>1. holder[u] = q
    BY <1>1, Bounds DEF LockType, Uses, Acquire, Release
  <2>2. \/ q \in failed \/ pc[q] = "crashed"
        \/ pc[q] \in {"probing", "start", "running", "release"} /\ Task(q) = u /\ At(q).overlap
    BY <2>1 DEF LocksReleased
  <2>3. pc'[q] = pc[q] /\ Task(q)' = Task(q) /\ At(q)' = At(q)
    BY DEF Apart, Task, At
  <2> QED
    BY <2>2, <2>3
<1> QED
  BY <1>1 DEF LocksReleased

(* What the wall clock shows a process is what it shows in some minute. *)
LEMMA ClockType ==
  ASSUME NEW p \in Processes, MinuteType
  PROVE  Clock(p) \in Clocks
<1> QED
  BY DEF MinuteType, Clock, Clocks

(* A minute stays won as long as its lock lives. *)
LEMMA WonFrame ==
  ASSUME MinuteType, CountType, WonInv, UNCHANGED <<minute, lapsed, ran>>,
         \A q \in Processes : pc[q] # "absent" => pc'[q] # "absent",
         \A q \in Processes, u \in Tasks : decision'[q][u] = "won" <=> decision[q][u] = "won",
         \A u \in Tasks, c \in Clocks :
           claim[u][c] > 0 => claim'[u][c] > 0 /\ claimer'[u][c] = claimer[u][c]
  PROVE  WonInv'
<1>1. ASSUME NEW q \in Processes, NEW u \in Tasks, decision'[q][u] = "won"
      PROVE  pc'[q] # "absent" /\ (Claims(q, u)' \/ q \in lapsed'[u])
  <2>1. Clock(q) \in Clocks /\ Clock(q)' = Clock(q)
    BY ClockType DEF Clock
  <2>2. Claims(q, u) => Claims(q, u)'
    BY <2>1 DEF Claims
  <2> QED
    BY <1>1, <2>2 DEF WonInv
<1>2. ASSUME NEW r \in ran'
      PROVE  /\ pc'[r.process] # "absent" /\ r.minute = minute'[r.process]
             /\ Due[r.entry].single => decision'[r.process][Due[r.entry].task] = "won"
  <2>1. r \in ran /\ r.process \in Processes /\ Due[r.entry].task \in Tasks
    BY DueType DEF CountType, Entries
  <2> QED
    BY <2>1 DEF WonInv
<1> QED
  BY <1>1, <1>2 DEF WonInv

(* A minute is won while nobody else's lock of it lives. *)
LEMMA WonNow ==
  ASSUME NEW p \in Processes, NEW t \in Tasks, MinuteType, CountType, WonInv,
         UNCHANGED <<minute, lapsed, ran>>,
         \A q \in Processes : pc[q] # "absent" => pc'[q] # "absent", pc[p] # "absent",
         claim[t][Clock(p)] = 0,
         decision' = [decision EXCEPT ![p][t] = "won"],
         Claim(p, t, Clock(p))
  PROVE  WonInv'
<1>1. Clock(p) \in Clocks /\ \A q \in Processes : Clock(q) \in Clocks /\ Clock(q)' = Clock(q)
  BY ClockType DEF Clock
<1>2. \A q \in Processes, u \in Tasks :
        decision'[q][u] = "won" <=> decision[q][u] = "won" \/ (q = p /\ u = t)
  BY DEF MinuteType
<1>3. \A u \in Tasks, c \in Clocks :
        claim[u][c] > 0 => claim'[u][c] > 0 /\ claimer'[u][c] = claimer[u][c]
  BY <1>1, Bounds DEF MinuteType, Claim
<1>4. claim'[t][Clock(p)] > 0 /\ claimer'[t][Clock(p)] = p
  BY <1>1, Bounds DEF MinuteType, Claim
<1>5. ASSUME NEW q \in Processes, NEW u \in Tasks, decision'[q][u] = "won"
      PROVE  pc'[q] # "absent" /\ (Claims(q, u)' \/ q \in lapsed'[u])
  <2>1. CASE q = p /\ u = t
    BY <1>1, <1>4, <2>1 DEF Claims
  <2>2. CASE ~ (q = p /\ u = t)
    <3>1. decision[q][u] = "won"
      BY <1>2, <1>5, <2>2
    <3>2. pc[q] # "absent" /\ (Claims(q, u) \/ q \in lapsed[u])
      BY <3>1 DEF WonInv
    <3>3. Claims(q, u) => Claims(q, u)'
      BY <1>1, <1>3 DEF Claims
    <3> QED
      BY <3>2, <3>3
  <2> QED
    BY <2>1, <2>2
<1>6. ASSUME NEW r \in ran'
      PROVE  /\ pc'[r.process] # "absent" /\ r.minute = minute'[r.process]
             /\ Due[r.entry].single => decision'[r.process][Due[r.entry].task] = "won"
  <2>1. r \in ran /\ r.process \in Processes /\ Due[r.entry].task \in Tasks
    BY DueType DEF CountType, Entries
  <2> QED
    BY <1>2, <2>1 DEF WonInv
<1> QED
  BY <1>5, <1>6 DEF WonInv

(* Where a process is, and what its step is about, is its own affair. *)
LEMMA EntryFrame ==
  ASSUME NEW p \in Processes, EntryInv, Apart(p),
         \A q \in Processes \ {p} : decision'[q] = decision[q],
         pc'[p] = "absent" => entry'[p] = 1,
         pc'[p] \notin {"absent", "done", "crashed"} => entry'[p] \in Entries,
         pc'[p] \in {"probe", "probing", "lock"} => At(p)'.overlap,
         pc'[p] \in {"lock"} \cup Locked /\ At(p)'.single => decision'[p][Task(p)'] = "won"
  PROVE  EntryInv'
<1>1. ASSUME NEW q \in Processes \ {p}
      PROVE  /\ pc'[q] = pc[q] /\ entry'[q] = entry[q] /\ At(q)' = At(q) /\ Task(q)' = Task(q)
             /\ decision'[q] = decision[q]
  BY <1>1 DEF Apart, At, Task
<1> QED
  BY <1>1 DEF EntryInv

(* A lock that is taken or given back keeps its type. *)
LEMMA LockKept ==
  ASSUME NEW p \in Processes, LockType, Uses(p), UNCHANGED held
  PROVE  LockType'
<1>1. CASE UNCHANGED <<holder, left>>
  BY <1>1 DEF LockType
<1>2. CASE \E t \in Tasks : Acquire(p, t) \/ Release(p, t)
  <2>1. PICK t \in Tasks : Acquire(p, t) \/ Release(p, t)
    BY <1>2
  <2>2. holder' \in [Tasks -> Processes \cup {Nobody}]
    BY <2>1 DEF LockType, Acquire, Release
  <2>3. 0 \in 0 .. Expires /\ Expires \in 0 .. Expires
    BY Bounds
  <2>4. left' \in [Tasks -> 0 .. Expires]
    BY <2>1, <2>3 DEF LockType, Acquire, Release
  <2> QED
    BY <2>2, <2>4 DEF LockType
<1> QED
  BY <1>1, <1>2 DEF Uses

(* Each step of a process preserves the invariant. *)
LEMMA BeginStep ==
  ASSUME NEW p \in Processes, Inv, Begin(p)
  PROVE  Inv'
<1> USE DEF Inv, TypeOK, ScheduleInv, Begin
<1>1. PICK step \in {"probe", "server", "start", "done"} :
        /\ pc' = [pc EXCEPT ![p] = step]
        /\ step # "done" => 1 \in Entries
        /\ step = "probe" => Due[1].overlap
        /\ step = "start" => ~Due[1].overlap /\ ~Due[1].single
  <2>1. 1 \in 1 .. Len(Due) + 1
    BY DueType
  <2> QED
    BY <2>1, FirstStep
<1>2. Uses(p) /\ Apart(p)
  BY <1>1 DEF StepType, LockType, Uses, Apart
<1>3. StepType'
  BY <1>1 DEF StepType
<1>4. LockType'
  BY <1>1, Bounds DEF LockType
<1>5. MinuteType'
  BY <1>1 DEF MinuteType, CountType
<1>6. CountType'
  BY DEF CountType
<1>7. EntryInv'
  BY <1>1 DEF StepType, EntryInv, MinuteType, Locked, At, Task
<1>8. pc'[p] \in Locked /\ At(p)'.overlap
        => \/ held'[p] = Expires
           \/ holder'[Task(p)'] = p /\ held'[p] + left'[Task(p)'] = Expires
  BY <1>1, Bounds DEF StepType, LockType, EntryInv, HeldInv, Locked, At, Task
<1>9. HeldInv'
  BY <1>2, <1>8, HeldFrame
<1>10. (\A t \in Tasks : decision[p][t] # "won") /\ \A r \in ran : r.process # p
  BY DEF WonInv
<1>11. \A q \in Processes \ {p} : pc'[q] = pc[q] /\ minute'[q] = minute[q]
  BY <1>1 DEF StepType, MinuteType
<1>12. \A r \in ran : r.process \in Processes
  BY DEF CountType
<1>13. WonInv'
  BY <1>10, <1>11, <1>12 DEF WonInv, Claims, Clock
<1>14. \A u \in Tasks : holder'[u] # p \/ p \in failed'
  BY DEF LocksReleased
<1>15. LocksReleased'
  BY <1>2, <1>14, ReleasedFrame
<1> QED
  BY <1>3, <1>4, <1>5, <1>6, <1>7, <1>9, <1>13, <1>15

LEMMA ProbeStep ==
  ASSUME NEW p \in Processes, Inv, Probe(p)
  PROVE  Inv'
<1> USE DEF Inv, TypeOK, ScheduleInv, Probe
<1>1. entry[p] \in Entries /\ Task(p) \in Tasks
  BY AtEntry
<1>2. Uses(p) /\ Apart(p)
  BY <1>1 DEF StepType, LockType, Uses, Apart, Acquire, Release
<1>3. StepType'
  BY <1>1 DEF StepType
<1>4. LockType'
  BY <1>2, LockKept
<1>5. MinuteType'
  BY <1>1 DEF MinuteType, CountType
<1>6. CountType'
  BY DEF CountType
<1>7. EntryInv'
  BY <1>1 DEF StepType, EntryInv, MinuteType, Locked, At, Task
<1>8. pc'[p] \in Locked /\ At(p)'.overlap
        => \/ held'[p] = Expires
           \/ holder'[Task(p)'] = p /\ held'[p] + left'[Task(p)'] = Expires
  BY <1>1, Bounds DEF StepType, LockType, EntryInv, HeldInv, Locked, At, Task, Acquire, Release
<1>9. HeldInv'
  BY <1>2, <1>8, HeldFrame
<1>10. WonInv'
  BY <1>1, WonFrame DEF StepType
<1>11. \A u \in Tasks : holder'[u] = p
        => \/ p \in failed' \/ pc'[p] = "crashed"
           \/ /\ pc'[p] \in {"probing", "start", "running", "release"}
              /\ Task(p)' = u /\ At(p)'.overlap
  BY <1>1, Bounds DEF StepType, LockType, EntryInv, LocksReleased, At, Task, Acquire, Release
<1>12. LocksReleased'
  BY <1>2, <1>11, ReleasedFrame
<1> QED
  BY <1>3, <1>4, <1>5, <1>6, <1>7, <1>9, <1>10, <1>12

LEMMA ProbeReleasedStep ==
  ASSUME NEW p \in Processes, Inv, ProbeReleased(p)
  PROVE  Inv'
<1> USE DEF Inv, TypeOK, ScheduleInv, ProbeReleased
<1>1. entry[p] \in Entries /\ Task(p) \in Tasks
  BY AtEntry
<1>2. Uses(p) /\ Apart(p)
  BY <1>1 DEF StepType, LockType, Uses, Apart, Acquire, Release
<1>3. StepType'
  BY <1>1 DEF StepType
<1>4. LockType'
  BY <1>2, LockKept
<1>5. MinuteType'
  BY <1>1 DEF MinuteType, CountType
<1>6. CountType'
  BY DEF CountType
<1>7. EntryInv'
  BY <1>1 DEF StepType, EntryInv, MinuteType, Locked, At, Task
<1>8. pc'[p] \in Locked /\ At(p)'.overlap
        => \/ held'[p] = Expires
           \/ holder'[Task(p)'] = p /\ held'[p] + left'[Task(p)'] = Expires
  BY <1>1, Bounds DEF StepType, LockType, EntryInv, HeldInv, Locked, At, Task, Acquire, Release
<1>9. HeldInv'
  BY <1>2, <1>8, HeldFrame
<1>10. WonInv'
  BY <1>1, WonFrame DEF StepType
<1>11. \A u \in Tasks : holder[u] = p => p \in failed \/ u = Task(p)
  BY DEF LocksReleased
<1>12. \A u \in Tasks : holder'[u] = p => holder[u] = p /\ u # Task(p)
  BY <1>1, Bounds DEF LockType, Release
<1>13. \A u \in Tasks : holder'[u] = p
        => \/ p \in failed' \/ pc'[p] = "crashed"
           \/ /\ pc'[p] \in {"probing", "start", "running", "release"}
              /\ Task(p)' = u /\ At(p)'.overlap
  BY <1>1, <1>11, <1>12
<1>14. LocksReleased'
  BY <1>2, <1>13, ReleasedFrame
<1> QED
  BY <1>3, <1>4, <1>5, <1>6, <1>7, <1>9, <1>10, <1>14

LEMMA OverlappingStep ==
  ASSUME NEW p \in Processes, Inv, Overlapping(p)
  PROVE  Inv'
<1> USE DEF Inv, TypeOK, ScheduleInv, Overlapping
<1>1. entry[p] \in Entries /\ Task(p) \in Tasks
  BY AtEntry
<1>2. PICK step \in {"probe", "server", "start", "done"} :
        /\ pc' = [pc EXCEPT ![p] = step]
        /\ entry' = [entry EXCEPT ![p] = entry[p] + 1] /\ entry[p] + 1 \in 1 .. Len(Due) + 1
        /\ step # "done" => entry[p] + 1 \in Entries
        /\ step = "probe" => Due[entry[p] + 1].overlap
        /\ step = "start" => ~Due[entry[p] + 1].overlap /\ ~Due[entry[p] + 1].single
  BY <1>1, Advances
<1>3. Uses(p) /\ Apart(p)
  BY <1>1, <1>2 DEF StepType, LockType, Uses, Apart
<1>4. StepType'
  BY <1>1, <1>2 DEF StepType
<1>5. LockType'
  BY <1>1, <1>2, Bounds DEF LockType
<1>6. MinuteType'
  BY <1>1, <1>2 DEF MinuteType, CountType
<1>7. CountType'
  BY DEF CountType
<1>8. EntryInv'
  BY <1>1, <1>2 DEF StepType, EntryInv, MinuteType, Locked, At, Task
<1>9. pc'[p] \in Locked /\ At(p)'.overlap
        => \/ held'[p] = Expires
           \/ holder'[Task(p)'] = p /\ held'[p] + left'[Task(p)'] = Expires
  BY <1>1, <1>2, Bounds DEF StepType, LockType, EntryInv, HeldInv, Locked, At, Task
<1>10. HeldInv'
  BY <1>3, <1>9, HeldFrame
<1>11. WonInv'
  BY <1>1, <1>2, WonFrame DEF StepType
<1>12. \A u \in Tasks : holder'[u] = p
        => \/ p \in failed' \/ pc'[p] = "crashed"
           \/ /\ pc'[p] \in {"probing", "start", "running", "release"}
              /\ Task(p)' = u /\ At(p)'.overlap
  BY <1>1, <1>2 DEF StepType, LockType, EntryInv, LocksReleased, At, Task
<1>13. LocksReleased'
  BY <1>3, <1>12, ReleasedFrame
<1> QED
  BY <1>4, <1>5, <1>6, <1>7, <1>8, <1>10, <1>11, <1>13

(* The lock of a minute is granted, and no type is disturbed. *)
LEMMA ClaimType ==
  ASSUME NEW p \in Processes, NEW t \in Tasks, MinuteType,
         Claim(p, t, Clock(p)) \/ UNCHANGED <<claim, claimer>>
  PROVE  /\ claim' \in [Tasks -> [Clocks -> 0 .. OneServer]]
         /\ claimer' \in [Tasks -> [Clocks -> Processes \cup {Nobody}]]
<1>1. PICK c \in Clocks : c = Clock(p)
  BY ClockType
<1>2. OneServer \in 0 .. OneServer
  BY Bounds
<1>3. CASE Claim(p, t, Clock(p))
  <2>1. claim' = [claim EXCEPT ![t][c] = OneServer] /\ claimer' = [claimer EXCEPT ![t][c] = p]
    BY <1>1, <1>3 DEF Claim
  <2> QED
    BY <1>2, <2>1 DEF MinuteType
<1>4. CASE UNCHANGED <<claim, claimer>>
  BY <1>4 DEF MinuteType
<1> QED
  BY <1>3, <1>4

LEMMA AcquireServerWonStep ==
  ASSUME NEW p \in Processes, Inv, AcquireServer(p), Answer(p) = "won"
  PROVE  Inv'
<1> USE DEF Inv, TypeOK, ScheduleInv
<1> DEFINE step == IF At(p).overlap THEN "lock" ELSE "start"
<1>0. /\ pc[p] = "server" /\ pc' = [pc EXCEPT ![p] = step]
      /\ decision' = [decision EXCEPT ![p][Task(p)] = "won"]
      /\ IF decision[p][Task(p)] = "none" THEN Claim(p, Task(p), Clock(p)) ELSE UNCHANGED <<claim, claimer>>
      /\ UNCHANGED <<now, holder, left, minute, entry, held, stopping, stops, failed, ran, refused, lapsed>>
  BY DEF AcquireServer
<1>1. entry[p] \in Entries /\ Task(p) \in Tasks
  BY <1>0, AtEntry
<1>2. Uses(p) /\ Apart(p)
  BY <1>0 DEF StepType, Uses, Apart
<1>3. StepType'
  BY <1>0 DEF StepType
<1>4. LockType'
  BY <1>0 DEF LockType
<1>5. MinuteType'
  BY <1>0, <1>1, ClaimType DEF MinuteType, CountType
<1>6. CountType'
  BY <1>0 DEF CountType
<1>7. /\ pc'[p] = step /\ At(p)' = At(p) /\ Task(p)' = Task(p)
      /\ decision'[p][Task(p)] = "won" /\ \A q \in Processes \ {p} : decision'[q] = decision[q]
  BY <1>0, <1>1 DEF StepType, MinuteType, At, Task
<1>8. EntryInv'
  BY <1>0, <1>1, <1>2, <1>7, EntryFrame
<1>9. pc'[p] \in Locked => ~At(p)'.overlap
  BY <1>7 DEF Locked
<1>10. HeldInv'
  BY <1>2, <1>9, HeldFrame
<1>11. (\A q \in Processes : pc[q] # "absent" => pc'[q] # "absent") /\ pc[p] # "absent"
  BY <1>0 DEF StepType
<1>12. MinuteType /\ CountType /\ WonInv /\ UNCHANGED <<minute, lapsed, ran>>
  BY <1>0
<1>13. ASSUME decision[p][Task(p)] = "none"
       PROVE  WonInv'
  <2>1. claim[Task(p)][Clock(p)] = 0
    BY <1>13 DEF Answer
  <2>2. Claim(p, Task(p), Clock(p))
    BY <1>0, <1>13
  <2> QED
    BY <1>0, <1>1, <1>11, <1>12, <2>1, <2>2, WonNow
<1>14. ASSUME decision[p][Task(p)] # "none"
       PROVE  WonInv'
  <2>1. decision[p][Task(p)] = "won" /\ UNCHANGED <<claim, claimer>>
    BY <1>0, <1>14 DEF Answer
  <2>2. \A q \in Processes, u \in Tasks : decision'[q][u] = "won" <=> decision[q][u] = "won"
    BY <1>0, <1>1, <2>1 DEF MinuteType
  <2> QED
    BY <1>11, <1>12, <2>1, <2>2, WonFrame
<1>15. WonInv'
  BY <1>13, <1>14
<1>16. \A u \in Tasks : holder'[u] # p \/ p \in failed'
  BY <1>0 DEF LocksReleased
<1>17. LocksReleased'
  BY <1>0, <1>2, <1>16, ReleasedFrame
<1> QED
  BY <1>3, <1>4, <1>5, <1>6, <1>8, <1>10, <1>15, <1>17

LEMMA AcquireServerLostStep ==
  ASSUME NEW p \in Processes, Inv, AcquireServer(p), Answer(p) # "won"
  PROVE  Inv'
<1> USE DEF Inv, TypeOK, ScheduleInv
<1>0. /\ pc[p] = "server" /\ Advance(p)
      /\ decision' = [decision EXCEPT ![p][Task(p)] = Answer(p)]
      /\ UNCHANGED <<now, holder, left, claim, claimer, minute, held, stopping, stops, failed, ran, lapsed>>
      /\ refused' = refused \/ refused' = [refused EXCEPT ![p][Task(p)] = claimer[Task(p)][Clock(p)]]
  BY DEF AcquireServer
<1>1. entry[p] \in Entries /\ Task(p) \in Tasks
  BY <1>0, AtEntry
<1>2. PICK step \in {"probe", "server", "start", "done"} :
        /\ pc' = [pc EXCEPT ![p] = step]
        /\ entry' = [entry EXCEPT ![p] = entry[p] + 1] /\ entry[p] + 1 \in 1 .. Len(Due) + 1
        /\ step # "done" => entry[p] + 1 \in Entries
        /\ step = "probe" => Due[entry[p] + 1].overlap
        /\ step = "start" => ~Due[entry[p] + 1].overlap /\ ~Due[entry[p] + 1].single
  BY <1>0, <1>1, Advances
<1>3. Uses(p) /\ Apart(p)
  BY <1>0, <1>2 DEF StepType, Uses, Apart
<1>4. StepType'
  BY <1>2 DEF StepType
<1>5. LockType'
  BY <1>0 DEF LockType
<1>6. MinuteType'
  <2>1. decision' \in [Processes -> [Tasks -> {"none", "won", "lost", "rejected"}]]
    BY <1>0, <1>1 DEF MinuteType, Answer
  <2>2. claimer[Task(p)][Clock(p)] \in Processes \cup {Nobody}
    <3>1. Clock(p) \in Clocks
      BY ClockType
    <3> QED
      BY <1>1, <3>1 DEF MinuteType
  <2>3. refused' \in [Processes -> [Tasks -> Processes \cup {Nobody}]]
    <3>1. refused \in [Processes -> [Tasks -> Processes \cup {Nobody}]]
      BY DEF MinuteType
    <3>2. refused' = refused \/ refused' = [refused EXCEPT ![p][Task(p)] = claimer[Task(p)][Clock(p)]]
      BY <1>0
    <3> HIDE DEF Inv, TypeOK, ScheduleInv
    <3> QED
      BY <1>1, <2>2, <3>1, <3>2
  <2> QED
    BY <1>0, <2>1, <2>3 DEF MinuteType, CountType
<1>7. CountType'
  BY <1>0 DEF CountType
<1>8. /\ pc'[p] = step /\ entry'[p] = entry[p] + 1 /\ At(p)' = Due[entry[p] + 1]
      /\ \A q \in Processes \ {p} : decision'[q] = decision[q]
  BY <1>0, <1>2 DEF StepType, MinuteType, At
<1>9. pc'[p] # "absent" /\ (pc'[p] \in {"lock"} \cup Locked => ~At(p)'.overlap /\ ~At(p)'.single)
  BY <1>2, <1>8 DEF Locked
<1>10. EntryInv'
  BY <1>2, <1>3, <1>8, <1>9, EntryFrame
<1>11. HeldInv'
  BY <1>3, <1>9, HeldFrame
<1>12. WonInv'
  <2>1. \A q \in Processes : pc[q] # "absent" => pc'[q] # "absent"
    BY <1>2 DEF StepType
  <2>2. Answer(p) # "won" /\ decision[p][Task(p)] # "won"
    BY DEF Answer
  <2>3. \A q \in Processes, u \in Tasks : decision'[q][u] = "won" <=> decision[q][u] = "won"
    BY <1>0, <1>1, <2>2 DEF MinuteType
  <2> QED
    BY <1>0, <2>1, <2>3, WonFrame
<1>13. \A u \in Tasks : holder'[u] # p \/ p \in failed'
  BY <1>0 DEF LocksReleased
<1>14. LocksReleased'
  BY <1>0, <1>3, <1>13, ReleasedFrame
<1> QED
  BY <1>4, <1>5, <1>6, <1>7, <1>10, <1>11, <1>12, <1>14

LEMMA LockStep ==
  ASSUME NEW p \in Processes, Inv, Lock(p)
  PROVE  Inv'
<1> USE DEF Inv, TypeOK, ScheduleInv, Lock
<1>1. entry[p] \in Entries /\ Task(p) \in Tasks
  BY AtEntry
<1>2. Uses(p) /\ Apart(p)
  BY <1>1 DEF StepType, LockType, Uses, Apart, Acquire, Release
<1>3. StepType'
  BY <1>1 DEF StepType
<1>4. LockType'
  BY <1>1, Bounds DEF LockType, Acquire, Release
<1>5. MinuteType'
  BY <1>1 DEF MinuteType, CountType
<1>6. CountType'
  BY DEF CountType
<1>7. EntryInv'
  BY <1>1 DEF StepType, EntryInv, MinuteType, Locked, At, Task
<1>8. pc'[p] \in Locked /\ At(p)'.overlap
        => \/ held'[p] = Expires
           \/ holder'[Task(p)'] = p /\ held'[p] + left'[Task(p)'] = Expires
  BY <1>1, Bounds DEF StepType, LockType, EntryInv, HeldInv, Locked, At, Task, Acquire, Release
<1>9. HeldInv'
  BY <1>2, <1>8, HeldFrame
<1>10. WonInv'
  BY <1>1, WonFrame DEF StepType
<1>11. \A u \in Tasks : holder'[u] = p
        => \/ p \in failed' \/ pc'[p] = "crashed"
           \/ /\ pc'[p] \in {"probing", "start", "running", "release"}
              /\ Task(p)' = u /\ At(p)'.overlap
  BY <1>1, Bounds DEF StepType, LockType, EntryInv, LocksReleased, At, Task, Acquire, Release
<1>12. LocksReleased'
  BY <1>2, <1>11, ReleasedFrame
<1> QED
  BY <1>3, <1>4, <1>5, <1>6, <1>7, <1>9, <1>10, <1>12

LEMMA StartStep ==
  ASSUME NEW p \in Processes, Inv, Start(p)
  PROVE  Inv'
<1> USE DEF Inv, TypeOK, ScheduleInv, Start
<1>1. entry[p] \in Entries /\ Task(p) \in Tasks
  BY AtEntry
<1>2. Uses(p) /\ Apart(p)
  BY <1>1 DEF StepType, LockType, Uses, Apart
<1>3. StepType'
  BY <1>1 DEF StepType
<1>4. LockType'
  BY <1>1, Bounds DEF LockType
<1>5. MinuteType'
  BY <1>1 DEF MinuteType, CountType
<1>6. CountType'
  BY <1>1 DEF CountType, Entries, MinuteType
<1>7. EntryInv'
  BY <1>1 DEF StepType, EntryInv, MinuteType, Locked, At, Task
<1>8. pc'[p] \in Locked /\ At(p)'.overlap
        => \/ held'[p] = Expires
           \/ holder'[Task(p)'] = p /\ held'[p] + left'[Task(p)'] = Expires
  BY <1>1, Bounds DEF StepType, LockType, EntryInv, HeldInv, Locked, At, Task
<1>9. HeldInv'
  BY <1>2, <1>8, HeldFrame
<1>10. WonInv'
  <2>1. \A q \in Processes, t \in Tasks : Claims(q, t)' <=> Claims(q, t)
    BY DEF Claims, Clock
  <2>2. \A q \in Processes : pc[q] # "absent" => pc'[q] # "absent"
    BY DEF StepType
  <2>3. ASSUME NEW r \in ran'
        PROVE  /\ pc'[r.process] # "absent" /\ r.minute = minute'[r.process]
               /\ Due[r.entry].single => decision'[r.process][Due[r.entry].task] = "won"
    <3>1. CASE r \in ran
      <4>1. r.process \in Processes
        BY <3>1 DEF CountType
      <4> QED
        BY <2>2, <3>1, <4>1 DEF WonInv
    <3>2. CASE r = [process |-> p, entry |-> entry[p], minute |-> minute[p]]
      BY <1>1, <2>2, <3>2 DEF EntryInv, Locked, At, Task
    <3> QED
      BY <2>3, <3>1, <3>2
  <2> QED
    BY <2>1, <2>2, <2>3 DEF WonInv
<1>11. \A u \in Tasks : holder'[u] = p
        => \/ p \in failed' \/ pc'[p] = "crashed"
           \/ /\ pc'[p] \in {"probing", "start", "running", "release"}
              /\ Task(p)' = u /\ At(p)'.overlap
  BY <1>1 DEF StepType, LockType, EntryInv, LocksReleased, At, Task
<1>12. LocksReleased'
  BY <1>2, <1>11, ReleasedFrame
<1> QED
  BY <1>3, <1>4, <1>5, <1>6, <1>7, <1>9, <1>10, <1>12

LEMMA FinishStep ==
  ASSUME NEW p \in Processes, Inv, Finish(p)
  PROVE  Inv'
<1> USE DEF Inv, TypeOK, ScheduleInv, Finish
<1>1. entry[p] \in Entries /\ Task(p) \in Tasks
  BY AtEntry
<1>2. Uses(p) /\ Apart(p)
  BY <1>1 DEF StepType, LockType, Uses, Apart
<1>3. StepType'
  BY <1>1 DEF StepType
<1>4. LockType'
  BY <1>1, Bounds DEF LockType
<1>5. MinuteType'
  BY <1>1 DEF MinuteType, CountType
<1>6. CountType'
  BY DEF CountType
<1>7. EntryInv'
  BY <1>1 DEF StepType, EntryInv, MinuteType, Locked, At, Task
<1>8. pc'[p] \in Locked /\ At(p)'.overlap
        => \/ held'[p] = Expires
           \/ holder'[Task(p)'] = p /\ held'[p] + left'[Task(p)'] = Expires
  BY <1>1, Bounds DEF StepType, LockType, EntryInv, HeldInv, Locked, At, Task
<1>9. HeldInv'
  BY <1>2, <1>8, HeldFrame
<1>10. WonInv'
  BY <1>1, WonFrame DEF StepType
<1>11. \A u \in Tasks : holder'[u] = p
        => \/ p \in failed' \/ pc'[p] = "crashed"
           \/ /\ pc'[p] \in {"probing", "start", "running", "release"}
              /\ Task(p)' = u /\ At(p)'.overlap
  BY <1>1 DEF StepType, LockType, EntryInv, LocksReleased, At, Task
<1>12. LocksReleased'
  BY <1>2, <1>11, ReleasedFrame
<1> QED
  BY <1>3, <1>4, <1>5, <1>6, <1>7, <1>9, <1>10, <1>12

LEMMA UnlockStep ==
  ASSUME NEW p \in Processes, Inv, Unlock(p)
  PROVE  Inv'
<1> USE DEF Inv, TypeOK, ScheduleInv, Unlock
<1>1. entry[p] \in Entries /\ Task(p) \in Tasks
  BY AtEntry
<1>2. PICK step \in {"probe", "server", "start", "done"} :
        /\ pc' = [pc EXCEPT ![p] = step]
        /\ entry' = [entry EXCEPT ![p] = entry[p] + 1] /\ entry[p] + 1 \in 1 .. Len(Due) + 1
        /\ step # "done" => entry[p] + 1 \in Entries
        /\ step = "probe" => Due[entry[p] + 1].overlap
        /\ step = "start" => ~Due[entry[p] + 1].overlap /\ ~Due[entry[p] + 1].single
  BY <1>1, Advances
<1>3. Uses(p) /\ Apart(p)
  BY <1>1, <1>2 DEF StepType, LockType, Uses, Apart, Acquire, Release
<1>4. StepType'
  BY <1>1, <1>2 DEF StepType
<1>5. LockType'
  BY <1>3, LockKept
<1>6. MinuteType'
  BY <1>1, <1>2 DEF MinuteType, CountType
<1>7. CountType'
  BY DEF CountType
<1>8. EntryInv'
  BY <1>1, <1>2 DEF StepType, EntryInv, MinuteType, Locked, At, Task
<1>9. pc'[p] \in Locked /\ At(p)'.overlap
        => \/ held'[p] = Expires
           \/ holder'[Task(p)'] = p /\ held'[p] + left'[Task(p)'] = Expires
  BY <1>1, <1>2, Bounds DEF StepType, LockType, EntryInv, HeldInv, Locked, At, Task, Acquire, Release
<1>10. HeldInv'
  BY <1>3, <1>9, HeldFrame
<1>11. WonInv'
  BY <1>1, <1>2, WonFrame DEF StepType
<1>12. \A u \in Tasks : holder'[u] = p
        => \/ p \in failed' \/ pc'[p] = "crashed"
           \/ /\ pc'[p] \in {"probing", "start", "running", "release"}
              /\ Task(p)' = u /\ At(p)'.overlap
  BY <1>1, <1>2, Bounds DEF StepType, LockType, EntryInv, LocksReleased, At, Task, Acquire, Release
<1>13. LocksReleased'
  BY <1>3, <1>12, ReleasedFrame
<1> QED
  BY <1>4, <1>5, <1>6, <1>7, <1>8, <1>10, <1>11, <1>13

LEMMA SignalStep ==
  ASSUME NEW p \in Processes, Inv, Signal(p)
  PROVE  Inv'
<1> USE DEF Inv, TypeOK, ScheduleInv, Signal
<1>1. Uses(p) /\ Apart(p)
  BY DEF StepType, LockType, Uses, Apart
<1>2. StepType'
  BY DEF StepType
<1>3. LockType'
  BY Bounds DEF LockType
<1>4. MinuteType'
  BY DEF MinuteType, CountType
<1>5. CountType'
  BY Bounds DEF CountType
<1>6. EntryInv'
  BY DEF StepType, EntryInv, MinuteType, Locked, At, Task
<1>7. pc'[p] \in Locked /\ At(p)'.overlap
        => \/ held'[p] = Expires
           \/ holder'[Task(p)'] = p /\ held'[p] + left'[Task(p)'] = Expires
  BY Bounds DEF StepType, LockType, EntryInv, HeldInv, Locked, At, Task
<1>8. HeldInv'
  BY <1>1, <1>7, HeldFrame
<1>9. WonInv'
  BY WonFrame DEF StepType
<1>10. \A u \in Tasks : holder'[u] = p
        => \/ p \in failed' \/ pc'[p] = "crashed"
           \/ /\ pc'[p] \in {"probing", "start", "running", "release"}
              /\ Task(p)' = u /\ At(p)'.overlap
  BY DEF StepType, LockType, EntryInv, LocksReleased, At, Task
<1>11. LocksReleased'
  BY <1>1, <1>10, ReleasedFrame
<1> QED
  BY <1>2, <1>3, <1>4, <1>5, <1>6, <1>8, <1>9, <1>11

LEMMA CrashStep ==
  ASSUME NEW p \in Processes, Inv, Crash(p)
  PROVE  Inv'
<1> USE DEF Inv, TypeOK, ScheduleInv, Crash
<1>1. Uses(p) /\ Apart(p)
  BY DEF StepType, LockType, Uses, Apart
<1>2. StepType'
  BY DEF StepType
<1>3. LockType'
  BY Bounds DEF LockType
<1>4. MinuteType'
  BY DEF MinuteType, CountType
<1>5. CountType'
  BY Bounds DEF CountType
<1>6. EntryInv'
  BY DEF StepType, EntryInv, MinuteType, Locked, At, Task
<1>7. pc'[p] \in Locked /\ At(p)'.overlap
        => \/ held'[p] = Expires
           \/ holder'[Task(p)'] = p /\ held'[p] + left'[Task(p)'] = Expires
  BY Bounds DEF StepType, LockType, EntryInv, HeldInv, Locked, At, Task
<1>8. HeldInv'
  BY <1>1, <1>7, HeldFrame
<1>9. WonInv'
  BY WonFrame DEF StepType
<1>10. \A u \in Tasks : holder'[u] = p
        => \/ p \in failed' \/ pc'[p] = "crashed"
           \/ /\ pc'[p] \in {"probing", "start", "running", "release"}
              /\ Task(p)' = u /\ At(p)'.overlap
  BY DEF StepType, LockType, EntryInv, LocksReleased, At, Task
<1>11. LocksReleased'
  BY <1>1, <1>10, ReleasedFrame
<1> QED
  BY <1>2, <1>3, <1>4, <1>5, <1>6, <1>8, <1>9, <1>11

LEMMA LockFailsStep ==
  ASSUME NEW p \in Processes, Inv, LockFails(p)
  PROVE  Inv'
<1> USE DEF Inv, TypeOK, ScheduleInv, LockFails, Broken
<1>1. entry[p] \in Entries /\ Task(p) \in Tasks
  BY AtEntry
<1>2. PICK step \in {"probe", "server", "start", "done"} :
        /\ pc' = [pc EXCEPT ![p] = step]
        /\ entry' = [entry EXCEPT ![p] = entry[p] + 1] /\ entry[p] + 1 \in 1 .. Len(Due) + 1
        /\ step # "done" => entry[p] + 1 \in Entries
        /\ step = "probe" => Due[entry[p] + 1].overlap
        /\ step = "start" => ~Due[entry[p] + 1].overlap /\ ~Due[entry[p] + 1].single
  BY <1>1, Advances
<1>3. Uses(p) /\ Apart(p)
  BY <1>1, <1>2 DEF StepType, LockType, Uses, Apart, Acquire, Release
<1>4. StepType'
  BY <1>1, <1>2 DEF StepType
<1>5. LockType'
  BY <1>3, LockKept
<1>6. MinuteType'
  BY <1>1, <1>2 DEF MinuteType, CountType
<1>7. CountType'
  BY Bounds DEF CountType
<1>8. EntryInv'
  BY <1>1, <1>2 DEF StepType, EntryInv, MinuteType, Locked, At, Task
<1>9. pc'[p] \in Locked /\ At(p)'.overlap
        => \/ held'[p] = Expires
           \/ holder'[Task(p)'] = p /\ held'[p] + left'[Task(p)'] = Expires
  BY <1>1, <1>2, Bounds DEF StepType, LockType, EntryInv, HeldInv, Locked, At, Task, Acquire, Release
<1>10. HeldInv'
  BY <1>3, <1>9, HeldFrame
<1>11. WonInv'
  BY <1>1, <1>2, WonFrame DEF StepType
<1>12. \A u \in Tasks : holder'[u] = p
        => \/ p \in failed' \/ pc'[p] = "crashed"
           \/ /\ pc'[p] \in {"probing", "start", "running", "release"}
              /\ Task(p)' = u /\ At(p)'.overlap
  BY <1>1, <1>2, Bounds DEF StepType, LockType, EntryInv, LocksReleased, At, Task, Acquire, Release
<1>13. LocksReleased'
  BY <1>3, <1>12, ReleasedFrame
<1> QED
  BY <1>4, <1>5, <1>6, <1>7, <1>8, <1>10, <1>11, <1>13

LEMMA DecisionFailsStep ==
  ASSUME NEW p \in Processes, Inv, DecisionFails(p)
  PROVE  Inv'
<1> USE DEF Inv, TypeOK, ScheduleInv, DecisionFails, Broken
<1>1. entry[p] \in Entries /\ Task(p) \in Tasks
  BY AtEntry
<1>2. PICK step \in {"probe", "server", "start", "done"} :
        /\ pc' = [pc EXCEPT ![p] = step]
        /\ entry' = [entry EXCEPT ![p] = entry[p] + 1] /\ entry[p] + 1 \in 1 .. Len(Due) + 1
        /\ step # "done" => entry[p] + 1 \in Entries
        /\ step = "probe" => Due[entry[p] + 1].overlap
        /\ step = "start" => ~Due[entry[p] + 1].overlap /\ ~Due[entry[p] + 1].single
  BY <1>1, Advances
<1>3. Uses(p) /\ Apart(p)
  BY <1>1, <1>2 DEF StepType, LockType, Uses, Apart
<1>4. StepType'
  BY <1>1, <1>2 DEF StepType
<1>5. LockType'
  BY <1>1, <1>2, Bounds DEF LockType
<1>6. Claim(p, Task(p), Clock(p)) \/ UNCHANGED <<claim, claimer>>
  OBVIOUS
<1>7. decision' \in [Processes -> [Tasks -> {"none", "won", "lost", "rejected"}]]
  BY <1>1 DEF MinuteType
<1>8. /\ claim' \in [Tasks -> [Clocks -> 0 .. OneServer]]
      /\ claimer' \in [Tasks -> [Clocks -> Processes \cup {Nobody}]]
  BY <1>1, <1>6, ClaimType
<1>9. MinuteType'
  BY <1>7, <1>8 DEF MinuteType, CountType
<1>10. CountType'
  BY Bounds DEF CountType
<1>11. EntryInv'
  BY <1>1, <1>2 DEF StepType, EntryInv, MinuteType, Locked, At, Task
<1>12. pc'[p] \in Locked /\ At(p)'.overlap
        => \/ held'[p] = Expires
           \/ holder'[Task(p)'] = p /\ held'[p] + left'[Task(p)'] = Expires
  BY <1>1, <1>2, Bounds DEF StepType, LockType, EntryInv, HeldInv, Locked, At, Task
<1>13. HeldInv'
  BY <1>3, <1>12, HeldFrame
<1>14. \A q \in Processes, u \in Tasks : decision'[q][u] = "won" <=> decision[q][u] = "won"
  BY <1>1 DEF MinuteType
<1>15. \A u \in Tasks, c \in Clocks :
         claim[u][c] > 0 => claim'[u][c] > 0 /\ claimer'[u][c] = claimer[u][c]
  <2>1. CASE claim[Task(p)][Clock(p)] = 0 /\ Claim(p, Task(p), Clock(p))
    BY <1>1, <2>1, Bounds, ClockType DEF MinuteType, Claim
  <2>2. CASE UNCHANGED <<claim, claimer>>
    BY <2>2
  <2> QED
    BY <2>1, <2>2
<1>16. WonInv'
  BY <1>2, <1>14, <1>15, WonFrame DEF StepType
<1>17. \A u \in Tasks : holder'[u] = p
        => \/ p \in failed' \/ pc'[p] = "crashed"
           \/ /\ pc'[p] \in {"probing", "start", "running", "release"}
              /\ Task(p)' = u /\ At(p)'.overlap
  BY <1>1, <1>2 DEF StepType, LockType, EntryInv, LocksReleased, At, Task
<1>18. LocksReleased'
  BY <1>3, <1>17, ReleasedFrame
<1> QED
  BY <1>4, <1>5, <1>9, <1>10, <1>11, <1>13, <1>16, <1>18

(* A minute in which locks expire does so as well. *)
LEMMA TickStep ==
  ASSUME Inv, Tick
  PROVE  Inv'
<1> USE DEF Inv, TypeOK, ScheduleInv, Tick
<1>1. \A n \in Nat : Less(n) \in Nat /\ Less(n) <= n /\ (n > 1 => Less(n) = n - 1) /\ (n <= 1 => Less(n) = 0)
  BY DEF Less
<1>2. \A q \in Processes : Task(q)' = Task(q) /\ At(q)' = At(q)
  BY DEF Task, At
<1>3. StepType'
  BY DEF StepType
<1>4. LockType'
  <2>1. \A t \in Tasks : left[t] \in Nat /\ left[t] <= Expires
    BY Bounds DEF LockType
  <2>2. \A t \in Tasks : Less(left[t]) \in 0 .. Expires
    BY <1>1, <2>1, Bounds
  <2>3. \A q \in Processes : held'[q] \in 0 .. Expires
    BY Bounds DEF LockType
  <2> QED
    BY <2>2, <2>3 DEF LockType
<1>5. MinuteType'
  <2>1. claim' \in [Tasks -> [Clocks -> 0 .. OneServer]]
    <3>1. \A t \in Tasks, c \in Clocks : Less(claim[t][c]) \in 0 .. OneServer
      BY <1>1, Bounds DEF MinuteType
    <3> QED
      BY <3>1
  <2>2. claimer' \in [Tasks -> [Clocks -> Processes \cup {Nobody}]]
    BY DEF MinuteType
  <2>3. lapsed' \in [Tasks -> SUBSET Processes]
    BY DEF MinuteType
  <2> QED
    BY <2>1, <2>2, <2>3 DEF MinuteType
<1>6. CountType'
  BY Bounds DEF CountType, Minutes
<1>7. EntryInv'
  BY <1>2 DEF EntryInv
<1>8. \A t \in Tasks : left[t] \in Nat
  BY Bounds DEF LockType
<1>9. \A t \in Tasks : holder'[t] = Nobody <=> left'[t] = 0
  BY <1>1, <1>8, Bounds DEF LockType, HeldInv
<1>10. ASSUME NEW p \in Processes, pc'[p] \in Locked, At(p)'.overlap
       PROVE  held'[p] = Expires \/ (holder'[Task(p)'] = p /\ held'[p] + left'[Task(p)'] = Expires)
  <2>1. pc[p] \in Locked /\ At(p).overlap /\ Task(p) \in Tasks
    BY <1>2, <1>10, AtEntry DEF Locked
  <2>2. held[p] = Expires \/ (holder[Task(p)] = p /\ held[p] + left[Task(p)] = Expires)
    BY <2>1 DEF HeldInv
  <2>3. held[p] \in 0 .. Expires /\ left[Task(p)] \in Nat
    BY <1>8, <2>1 DEF LockType
  <2>4. held'[p] = IF held[p] < Expires THEN held[p] + 1 ELSE Expires
    OBVIOUS
  <2>5. /\ left'[Task(p)] = Less(left[Task(p)])
        /\ left[Task(p)] > 1 => holder'[Task(p)] = holder[Task(p)]
    BY <2>1, <2>3
  <2> QED
    BY <1>1, <1>2, <2>2, <2>3, <2>4, <2>5, Bounds
<1>11. HeldInv'
  BY <1>9, <1>10 DEF HeldInv
<1>12. ASSUME NEW q \in Processes, NEW t \in Tasks, Claims(q, t)
       PROVE  Claims(q, t)' \/ q \in lapsed'[t]
  <2>0. Clock(q) \in Clocks
    BY ClockType
  <2>1. /\ Clock(q)' = Clock(q)
        /\ claim[t][Clock(q)] \in Nat /\ claim[t][Clock(q)] > 0 /\ claimer[t][Clock(q)] = q
    <3>1. Clock(q)' = Clock(q)
      BY DEF Clock
    <3>2. claim[t][Clock(q)] \in 0 .. OneServer
      BY <2>0 DEF MinuteType
    <3> QED
      BY <1>12, <3>1, <3>2, Bounds DEF Claims
  <2>2. CASE claim[t][Clock(q)] = 1
    BY <2>0, <2>1, <2>2
  <2>3. CASE claim[t][Clock(q)] > 1
    <3>1. claim'[t][Clock(q)] = Less(claim[t][Clock(q)]) /\ claimer'[t][Clock(q)] = q
      BY <2>0, <2>1, <2>3
    <3> QED
      BY <1>1, <2>1, <2>3, <3>1 DEF Claims
  <2> QED
    BY <2>1, <2>2, <2>3
<1>13. WonInv'
  <2>1. \A t \in Tasks : lapsed[t] \subseteq lapsed'[t]
    BY DEF MinuteType
  <2> QED
    BY <1>12, <2>1 DEF WonInv
<1>14. LocksReleased'
  BY <1>2, Bounds DEF LockType, LocksReleased
<1> QED
  BY <1>3, <1>4, <1>5, <1>6, <1>7, <1>11, <1>13, <1>14

-------------------------------------------------------------------------------

(* The invariant holds at first, ... *)
LEMMA InitInv ==
  Init => Inv
<1> SUFFICES ASSUME Init
             PROVE  Inv
  OBVIOUS
<1> USE Bounds, DueType DEF Init
<1>1. TypeOK
  BY DEF TypeOK, StepType, LockType, MinuteType, CountType, Minutes
<1>2. EntryInv /\ HeldInv /\ WonInv /\ LocksReleased
  BY DEF EntryInv, HeldInv, WonInv, LocksReleased, Locked
<1> QED
  BY <1>1, <1>2 DEF Inv, ScheduleInv

(* ... every step preserves it, ... *)
LEMMA NextInv ==
  Inv /\ [Next]_vars => Inv'
<1> SUFFICES ASSUME Inv, [Next]_vars
             PROVE  Inv'
  OBVIOUS
<1>1. ASSUME NEW p \in Processes, Proceed(p)
      PROVE  Inv'
  BY <1>1, ProbeStep, ProbeReleasedStep, OverlappingStep, AcquireServerWonStep, AcquireServerLostStep,
         LockStep, StartStep, FinishStep, UnlockStep
  DEF Proceed
<1>2. ASSUME NEW p \in Processes, Begin(p) \/ Signal(p) \/ Crash(p) \/ LockFails(p) \/ DecisionFails(p)
      PROVE  Inv'
  BY <1>2, BeginStep, SignalStep, CrashStep, LockFailsStep, DecisionFailsStep
<1>3. CASE UNCHANGED vars
  BY <1>3
  DEF vars, Inv, TypeOK, StepType, LockType, MinuteType, CountType, ScheduleInv, EntryInv, HeldInv, WonInv,
      Claims, Clock, LocksReleased, At, Task
<1> QED
  BY <1>1, <1>2, <1>3, TickStep DEF Next

(* ... and so it always holds. *)
LEMMA Invariance ==
  Spec => []Inv
<1> QED
  BY InitInv, NextInv, PTL DEF Spec

(* Every variable keeps to its type: no list is read past its end. *)
THEOREM TypeCorrect ==
  Spec => []TypeOK
<1>1. Inv => TypeOK
  BY DEF Inv
<1> QED
  BY <1>1, Invariance, PTL

(* Two processes run one task of withoutOverlapping() at a time only when one of them
   runs for longer than its lock lives: that process holds the lock until then. *)
THEOREM RunsDoNotOverlap ==
  Spec => []NoOverlap
<1>1. ASSUME Inv, NEW p \in Processes, NEW q \in Processes, p # q, Running(p), Running(q), Task(p) = Task(q),
             held[p] # Expires, held[q] # Expires
      PROVE  FALSE
  <2>1. holder[Task(p)] = p /\ holder[Task(q)] = q
    BY <1>1 DEF Inv, ScheduleInv, HeldInv, Running, Locked
  <2> QED
    BY <1>1, <2>1
<1>2. Inv => NoOverlap
  BY <1>1 DEF NoOverlap
<1> QED
  BY <1>2, Invariance, PTL

(* onOneServer(): the processes that ran one task for one hour and minute of the wall
   clock are one process, as long as the locks they took live. *)
THEOREM OneServerPerMinute ==
  Spec => []OneServerRuns
<1>1. ASSUME Inv, NEW r \in ran, NEW s \in ran, NEW t, t = Due[r.entry].task,
             Due[r.entry].single, Due[s.entry].single, Due[s.entry].task = t,
             HourMinute[r.minute] = HourMinute[s.minute],
             {r.process, s.process} \cap lapsed[t] = {}
      PROVE  r.process = s.process
  <2>1. t \in Tasks /\ r.process \in Processes /\ s.process \in Processes
    BY <1>1, DueType DEF Inv, TypeOK, CountType, Entries
  <2>2. /\ r.minute = minute[r.process] /\ s.minute = minute[s.process]
        /\ decision[r.process][t] = "won" /\ decision[s.process][t] = "won"
    BY <1>1 DEF Inv, ScheduleInv, WonInv
  <2>3. Claims(r.process, t) /\ Claims(s.process, t)
    BY <1>1, <2>1, <2>2 DEF Inv, ScheduleInv, WonInv
  <2> QED
    BY <1>1, <2>2, <2>3 DEF Claims, Clock
<1>2. Inv => OneServerRuns
  BY <1>1 DEF OneServerRuns
<1> QED
  BY <1>2, Invariance, PTL

(* Only a crash or a failing cache leaves a task's lock to expire by itself. *)
THEOREM LocksGivenBack ==
  Spec => []LocksReleased
<1>1. Inv => LocksReleased
  BY DEF Inv, ScheduleInv
<1> QED
  BY <1>1, Invariance, PTL
-------------------------------------------------------------------------------
(* Every minute is served: the second inductive invariant, which rests on the first. *)

(* Only p moves, what it was told once it keeps, and what is recorded stays so. *)
Moves(p) ==
    /\ \A q \in Processes \ {p} :
         /\ pc'[q] = pc[q] /\ entry'[q] = entry[q] /\ minute'[q] = minute[q]
         /\ decision'[q] = decision[q] /\ refused'[q] = refused[q]
    /\ \A u \in Tasks :
         decision[p][u] # "none" => decision'[p][u] = decision[p][u] /\ refused'[p][u] = refused[p][u]
    /\ ran \subseteq ran' /\ stopping \subseteq stopping' /\ failed \subseteq failed'

(* Where an entry starts, and what the end of the list means. *)
LEMMA Starts ==
  ASSUME NEW p \in Processes, entry[p] \in Entries, StepType, Advance(p)
  PROVE  /\ entry' = [entry EXCEPT ![p] = entry[p] + 1]
         /\ pc'[p] \in {"probe", "server", "start", "done"}
         /\ pc'[p] = "server" => Due[entry[p] + 1].single
         /\ pc'[p] = "done" => p \in stopping \/ entry[p] = Len(Due)
         /\ \A q \in Processes \ {p} : pc'[q] = pc[q] /\ entry'[q] = entry[q]
<1>1. pc'[p] = (IF p \in stopping THEN "done" ELSE First(entry[p] + 1))
  BY DEF Advance, StepType
<1>2. CASE p \in stopping
  BY <1>1, <1>2 DEF Advance, StepType
<1>3. CASE p \notin stopping
  <2>1. CASE entry[p] + 1 > Len(Due)
    <3>1. pc'[p] = "done" /\ entry[p] = Len(Due)
      BY <1>1, <1>3, <2>1, DueType DEF First, Entries
    <3> QED
      BY <3>1 DEF Advance, StepType
  <2>2. CASE entry[p] + 1 <= Len(Due)
    <3>1. pc'[p] \in {"probe", "server", "start"} /\ (pc'[p] = "server" => Due[entry[p] + 1].single)
      BY <1>1, <1>3, <2>2, DueType DEF First, Entries
    <3> QED
      BY <3>1 DEF Advance, StepType
  <2> QED
    BY <2>1, <2>2, DueType DEF Entries
<1> QED
  BY <1>2, <1>3

LEMMA StepMoves ==
  ASSUME NEW p \in Processes, TypeOK, Next,
         \/ Begin(p) /\ \A u \in Tasks : decision[p][u] = "none"
         \/ Proceed(p) \/ Signal(p) \/ Crash(p) \/ LockFails(p) \/ DecisionFails(p)
  PROVE  Moves(p)
<1> USE DEF TypeOK, StepType, MinuteType, Moves
<1>1. CASE Begin(p)
  BY <1>1 DEF Begin
<1>2. CASE Probe(p) \/ ProbeReleased(p) \/ Lock(p) \/ Start(p) \/ Finish(p)
  BY <1>2 DEF Probe, ProbeReleased, Lock, Start, Finish
<1>3. CASE Overlapping(p) \/ Unlock(p)
  BY <1>3 DEF Overlapping, Unlock, Advance
<1>4. CASE AcquireServer(p)
  BY <1>4 DEF AcquireServer, Answer, Advance
<1>5. CASE Signal(p) \/ Crash(p)
  BY <1>5 DEF Signal, Crash
<1>6. CASE LockFails(p)
  BY <1>6 DEF LockFails, Broken, Advance
<1>7. CASE DecisionFails(p)
  BY <1>7 DEF DecisionFails, Broken, Advance
<1> QED
  BY <1>1, <1>2, <1>3, <1>4, <1>5, <1>6, <1>7 DEF Proceed

(* The other processes have passed what they had, ... *)
LEMMA PassedFrame ==
  ASSUME NEW p \in Processes, NEW q \in Processes \ {p}, Moves(p), Passed(q)
  PROVE  Passed(q)'
<1>1. pc'[q] = pc[q] /\ entry'[q] = entry[q] /\ minute'[q] = minute[q] /\ decision'[q] = decision[q]
      /\ ran \subseteq ran' /\ stopping \subseteq stopping' /\ failed \subseteq failed'
  BY DEF Moves
<1>2. Interrupted(q) => Interrupted(q)'
  BY <1>1 DEF Interrupted
<1>3. \A e, m : Ran(q, e, m) => Ran(q, e, m)'
  BY <1>1 DEF Ran
<1> QED
  BY <1>1, <1>2, <1>3 DEF Passed, At

(* ... and so has a process that stays at its entry, ... *)
LEMMA PassedStay ==
  ASSUME NEW p \in Processes, Moves(p), Passed(p), TypeOK, pc[p] # "crashed",
         entry'[p] = entry[p], minute'[p] = minute[p], pc'[p] # "done",
         pc'[p] = "server" => At(p).single,
         ~ Interrupted(p)' /\ pc'[p] \in {"running", "release"} => Ran(p, entry[p], minute[p])'
  PROVE  Passed(p)'
<1>1. Interrupted(p) => Interrupted(p)'
  BY DEF Moves, Interrupted
<1>2. \A e, m : Ran(p, e, m) => Ran(p, e, m)'
  BY DEF Moves, Ran
<1>3. \A f \in Entries : decision[p][Due[f].task] = "lost" => decision'[p][Due[f].task] = "lost"
  BY DueType DEF Moves
<1> QED
  BY <1>1, <1>2, <1>3 DEF Passed, At, Ran

(* ... or leaves it for a reason. *)
LEMMA PassedOn ==
  ASSUME NEW p \in Processes, Moves(p), Passed(p), TypeOK, Advance(p), pc[p] # "crashed",
         entry[p] \in Entries, minute'[p] = minute[p],
         ~ Interrupted(p)'
           => \/ Ran(p, entry[p], minute[p])
              \/ At(p).overlap
              \/ At(p).single /\ decision'[p][Task(p)] = "lost"
  PROVE  Passed(p)'
<1>1. Interrupted(p) => Interrupted(p)'
  BY DEF Moves, Interrupted
<1>2. \A e, m : Ran(p, e, m) => Ran(p, e, m)'
  BY DEF Moves, Ran
<1>3. \A f \in Entries : decision[p][Due[f].task] = "lost" => decision'[p][Due[f].task] = "lost"
  BY DueType DEF Moves
<1>4. /\ entry'[p] = entry[p] + 1 /\ pc'[p] \in {"probe", "server", "start", "done"}
      /\ pc'[p] = "server" => Due[entry[p] + 1].single
      /\ pc'[p] = "done" => p \in stopping \/ entry[p] = Len(Due)
  BY Starts DEF TypeOK, StepType
<1>5. \A f \in Entries : f < entry[p] + 1 => f < entry[p] \/ f = entry[p]
  BY DueType DEF Entries
<1>6. ASSUME ~ Interrupted(p)', NEW f \in Entries, f < entry'[p]
      PROVE  \/ Ran(p, f, minute[p])'
             \/ Due[f].overlap
             \/ Due[f].single /\ decision'[p][Due[f].task] = "lost"
  <2>1. CASE f < entry[p]
    BY <1>1, <1>2, <1>3, <1>6, <2>1 DEF Passed
  <2>2. CASE f = entry[p]
    BY <1>2, <1>6, <2>2 DEF At, Task
  <2> QED
    BY <1>4, <1>5, <1>6, <2>1, <2>2
<1>7. (pc'[p] = "server" => At(p)'.single) /\ (pc'[p] = "done" => p \in stopping' \/ entry'[p] = Len(Due) + 1)
  BY <1>4 DEF At, Moves
<1>8. Ran(p, entry[p], minute[p])' <=> [process |-> p, entry |-> entry'[p], minute |-> minute[p]] \in ran'
  BY DEF Ran
<1> QED
  BY <1>4, <1>6, <1>7 DEF Passed, Ran

(* Each step keeps what was passed. *)
LEMMA PassedStep ==
  ASSUME NEW p \in Processes, Inv, PassInv, LostInv, Moves(p),
         Begin(p) \/ Proceed(p) \/ Signal(p) \/ Crash(p) \/ LockFails(p) \/ DecisionFails(p)
  PROVE  PassInv'
<1> SUFFICES Passed(p)'
  BY PassedFrame DEF PassInv
<1> USE DEF Inv, TypeOK, StepType, ScheduleInv
<1>1. Passed(p)
  BY DEF PassInv
<1>2. CASE Begin(p)
  <2>1. pc[p] = "absent" /\ entry[p] = 1 /\ entry'[p] = 1 /\ pc'[p] = First(1)
    BY <1>2 DEF Begin, EntryInv
  <2>2. /\ pc'[p] \notin {"running", "release"}
        /\ pc'[p] = "server" => Due[1].single
        /\ pc'[p] = "done" => Len(Due) = 0
    BY <2>1, DueType DEF First, Entries
  <2> QED
    BY <2>1, <2>2, DueType DEF Passed, At, Entries
<1>3. CASE Probe(p) \/ Lock(p)
  BY <1>1, <1>3, PassedStay DEF Probe, Lock, MinuteType
<1>4. CASE ProbeReleased(p)
  BY <1>1, <1>4, PassedStay DEF ProbeReleased, MinuteType
<1>5. CASE Start(p)
  <2>1. ~ Interrupted(p)' => Ran(p, entry[p], minute[p])'
    BY <1>5 DEF Start, Interrupted, Ran
  <2> QED
    BY <1>1, <1>5, <2>1, PassedStay DEF Start
<1>6. CASE Finish(p)
  <2>1. ~ Interrupted(p)' => Ran(p, entry[p], minute[p])'
    BY <1>1, <1>6 DEF Finish, Interrupted, Ran, Passed
  <2> QED
    BY <1>1, <1>6, <2>1, PassedStay DEF Finish
<1>7. CASE Overlapping(p)
  <2>1. entry[p] \in Entries /\ At(p).overlap
    BY <1>7 DEF Overlapping, EntryInv
  <2> QED
    BY <1>1, <1>7, <2>1, PassedOn DEF Overlapping
<1>8. CASE Unlock(p)
  <2>1. entry[p] \in Entries
    BY <1>8 DEF Unlock, EntryInv
  <2>2. ~ Interrupted(p)' => Ran(p, entry[p], minute[p])
    BY <1>1, <1>8 DEF Unlock, Interrupted, Passed
  <2> QED
    BY <1>1, <1>8, <2>1, <2>2, PassedOn DEF Unlock
<1>9. CASE AcquireServer(p)
  <2>1. entry[p] \in Entries /\ Task(p) \in Tasks
    BY <1>9, AtEntry DEF AcquireServer
  <2>2. At(p).single
    BY <1>1, <1>9 DEF AcquireServer, Passed
  <2>3. CASE Answer(p) = "won"
    BY <1>1, <1>9, <2>3, PassedStay DEF AcquireServer
  <2>4. CASE Answer(p) # "won"
    <3>1. Advance(p) /\ minute'[p] = minute[p] /\ decision'[p][Task(p)] = Answer(p) /\ pc[p] # "crashed"
          /\ UNCHANGED <<stopping, failed>>
      BY <1>9, <2>1, <2>4 DEF AcquireServer, MinuteType
    <3>2. Answer(p) \in {"lost", "rejected"}
      BY <2>1, <2>4 DEF Answer, MinuteType
    <3>3. ~ Interrupted(p)' => decision'[p][Task(p)] = "lost"
      BY <2>1, <3>1, <3>2 DEF LostInv, Interrupted, Answer
    <3> QED
      BY <1>1, <2>1, <2>2, <3>1, <3>3, PassedOn
  <2> QED
    BY <2>3, <2>4
<1>10. CASE Signal(p)
  <2>1. Interrupted(p)' /\ pc'[p] = pc[p] /\ pc[p] \notin {"done", "crashed"}
        /\ entry'[p] = entry[p] /\ minute'[p] = minute[p]
    BY <1>10 DEF Signal, Interrupted
  <2>2. pc[p] = "server" => At(p).single
    BY <1>1 DEF Passed
  <2> QED
    BY <1>1, <2>1, <2>2, PassedStay
<1>11. CASE Crash(p)
  BY <1>1, <1>11, PassedStay DEF Crash
<1>12. CASE LockFails(p)
  <2>1. entry[p] \in Entries /\ Interrupted(p)' /\ pc[p] # "crashed"
    BY <1>12 DEF LockFails, Broken, EntryInv, Interrupted
  <2> QED
    BY <1>1, <1>12, <2>1, PassedOn DEF LockFails, Broken
<1>13. CASE DecisionFails(p)
  <2>1. entry[p] \in Entries /\ Interrupted(p)' /\ pc[p] # "crashed"
    BY <1>13 DEF DecisionFails, Broken, EntryInv, Interrupted
  <2> QED
    BY <1>1, <1>13, <2>1, PassedOn DEF DecisionFails, Broken
<1> QED
  BY <1>2, <1>3, <1>4, <1>5, <1>6, <1>7, <1>8, <1>9, <1>10, <1>11, <1>12, <1>13 DEF Proceed
(* Who took a lock of a minute has done so, and a process that has not begun took none. *)
LEMMA TookKept ==
  ASSUME NEW p \in Processes, TypeOK, LostInv, Moves(p),
         pc[p] # "absent" => minute'[p] = minute[p]
  PROVE  \A q, t, c : t \in Tasks /\ Took(q, t, c) => Took(q, t, c)'
<1> SUFFICES ASSUME NEW q, NEW t \in Tasks, NEW c, Took(q, t, c)
             PROVE  Took(q, t, c)'
  OBVIOUS
<1>1. q \in Processes /\ decision[q][t] \in {"won", "rejected"} /\ HourMinute[minute[q]] = c
  BY DEF Took, Clock
<1>2. minute'[q] = minute[q] /\ decision'[q][t] = decision[q][t]
  BY <1>1 DEF Moves, LostInv
<1> QED
  BY <1>1, <1>2 DEF Took, Clock

(* A step that asks for no minute. *)
LEMMA LostKept ==
  ASSUME NEW p \in Processes, TypeOK, LostInv, Moves(p),
         UNCHANGED <<decision, claim, claimer, refused>>,
         pc[p] # "absent" => minute'[p] = minute[p],
         pc'[p] # "absent"
  PROVE  LostInv'
<1>1. \A q, t, c : t \in Tasks /\ Took(q, t, c) => Took(q, t, c)'
  BY TookKept
<1>2. ASSUME NEW q \in Processes, NEW t \in Tasks, decision[q][t] # "none"
      PROVE  /\ pc'[q] # "absent" /\ Clock(q)' = Clock(q)
             /\ decision[q][t] = "rejected" => q \in failed'
  BY <1>2 DEF LostInv, Moves, Clock
<1> QED
  BY <1>1, <1>2 DEF LostInv

(* A process asks for its minute and is told. *)
LEMMA LostTold ==
  ASSUME NEW p \in Processes, TypeOK, LostInv, Moves(p), NEW u \in Tasks, NEW told,
         pc'[p] # "absent", pc[p] # "absent", UNCHANGED minute,
         decision' = [decision EXCEPT ![p][u] = told],
         told = "rejected" => p \in failed',
         told = "lost" => Took(refused'[p][u], u, Clock(p)),
         Claim(p, u, Clock(p)) \/ UNCHANGED <<claim, claimer>>,
         UNCHANGED <<claim, claimer>> \/ told \in {"won", "rejected"},
         \A t \in Tasks \ {u} : refused'[p][t] = refused[p][t]
  PROVE  LostInv'
<1>1. \A q, t, c : t \in Tasks /\ Took(q, t, c) => Took(q, t, c)'
  BY TookKept
<1>2. \A q \in Processes, t \in Tasks :
        /\ decision'[q][t] = IF q = p /\ t = u THEN told ELSE decision[q][t]
        /\ Clock(q)' = Clock(q)
  BY DEF TypeOK, MinuteType, Clock
<1>3. told \in {"won", "rejected"} => Took(p, u, Clock(p))'
  BY <1>2 DEF Took
<1>4. ASSUME NEW q \in Processes, NEW t \in Tasks
      PROVE  /\ decision'[q][t] # "none" => pc'[q] # "absent"
             /\ decision'[q][t] = "rejected" => q \in failed'
             /\ decision'[q][t] = "lost" => Took(refused[q][t], t, Clock(q))'
  <2>1. CASE q = p /\ t = u
    <3>1. \A x : told = "lost" /\ x = refused'[p][u] => Took(x, u, Clock(p))'
      BY <1>1, <1>2 DEF Took
    <3> QED
      BY <1>2, <2>1, <3>1 DEF Took
  <2>2. CASE ~ (q = p /\ t = u)
    <3>1. (q \in failed => q \in failed') /\ (pc[q] # "absent" => pc'[q] # "absent")
      BY DEF Moves
    <3>2. refused'[q][t] = refused[q][t] /\ decision'[q][t] = decision[q][t] /\ Clock(q)' = Clock(q)
      BY <1>2, <2>2 DEF Moves
    <3>3. decision[q][t] = "lost" => Took(refused[q][t], t, Clock(q))'
      BY <1>1, <3>2 DEF LostInv, Took, Clock
    <3> QED
      BY <3>1, <3>2, <3>3 DEF LostInv
  <2> QED
    BY <2>1, <2>2
<1>5. ASSUME NEW t \in Tasks, NEW c \in Clocks, claim'[t][c] > 0
      PROVE  Took(claimer[t][c], t, c)'
  <2>1. CASE t = u /\ c = Clock(p) /\ Claim(p, u, Clock(p)) /\ told \in {"won", "rejected"}
    <3>1. claimer'[t][c] = p
      BY <2>1 DEF Claim, TypeOK, MinuteType
    <3> QED
      BY <1>2, <1>3, <2>1, <3>1 DEF Took
  <2>2. CASE ~ (t = u /\ c = Clock(p) /\ Claim(p, u, Clock(p)) /\ told \in {"won", "rejected"})
    <3>1. claim[t][c] > 0 /\ claimer'[t][c] = claimer[t][c]
      BY <1>5, <2>2 DEF Claim, TypeOK, MinuteType
    <3> QED
      BY <1>1, <3>1 DEF LostInv, Took, Clock
  <2> QED
    BY <2>1, <2>2
<1> QED
  BY <1>4, <1>5 DEF LostInv

LEMMA LostStep ==
  ASSUME NEW p \in Processes, Inv, LostInv, Moves(p),
         Begin(p) \/ Proceed(p) \/ Signal(p) \/ Crash(p) \/ LockFails(p) \/ DecisionFails(p)
  PROVE  LostInv'
<1> USE DEF Inv, TypeOK, StepType, ScheduleInv
<1>1. CASE Begin(p)
  <2>1. pc'[p] = First(1) /\ pc[p] = "absent"
    BY <1>1 DEF Begin
  <2>2. pc'[p] # "absent"
    BY <2>1, DueType, FirstStep
  <2> QED
    BY <1>1, <2>1, <2>2, LostKept DEF Begin
<1>2. CASE Probe(p) \/ ProbeReleased(p) \/ Lock(p) \/ Start(p) \/ Finish(p) \/ Signal(p) \/ Crash(p)
  BY <1>2, LostKept DEF Probe, ProbeReleased, Lock, Start, Finish, Signal, Crash
<1>3. CASE Overlapping(p) \/ Unlock(p) \/ LockFails(p)
  <2>1. entry[p] \in Entries
    BY <1>3 DEF Overlapping, Unlock, LockFails, EntryInv
  <2>2. Advance(p) /\ UNCHANGED <<decision, claim, claimer, refused, minute>>
    BY <1>3 DEF Overlapping, Unlock, LockFails, Broken
  <2>3. pc'[p] # "absent"
    BY <2>1, <2>2, Starts
  <2> QED
    BY <2>2, <2>3, LostKept
<1>4. CASE AcquireServer(p)
  <2>1. entry[p] \in Entries /\ Task(p) \in Tasks /\ minute[p] \in Minutes /\ pc[p] = "server"
    BY <1>4, AtEntry DEF AcquireServer, MinuteType
  <2>2. pc'[p] # "absent"
    <3>1. CASE Answer(p) = "won"
      BY <1>4, <3>1 DEF AcquireServer
    <3>2. CASE Answer(p) # "won"
      BY <1>4, <2>1, <3>2, Starts DEF AcquireServer
    <3> QED
      BY <3>1, <3>2
  <2>3. \A t \in Tasks \ {Task(p)} : refused'[p][t] = refused[p][t]
    BY <1>4, <2>1 DEF AcquireServer, MinuteType
  <2>4. Answer(p) = "lost" => Took(refused'[p][Task(p)], Task(p), Clock(p))
    <3>1. ASSUME decision[p][Task(p)] = "none", Answer(p) = "lost"
          PROVE  Took(refused'[p][Task(p)], Task(p), Clock(p))
      <4>1. claim[Task(p)][Clock(p)] > 0 /\ Clock(p) \in Clocks
        <5>1. Clock(p) \in Clocks
          BY ClockType
        <5>2. claim[Task(p)][Clock(p)] \in 0 .. OneServer
          BY <2>1, <5>1 DEF MinuteType
        <5> QED
          BY <3>1, <5>1, <5>2, Bounds DEF Answer
      <4>2. refused'[p][Task(p)] = claimer[Task(p)][Clock(p)]
        BY <1>4, <2>1, <3>1 DEF AcquireServer, MinuteType
      <4> QED
        BY <2>1, <4>1, <4>2 DEF LostInv
    <3>2. ASSUME decision[p][Task(p)] # "none", Answer(p) = "lost"
          PROVE  Took(refused'[p][Task(p)], Task(p), Clock(p))
      <4>1. decision[p][Task(p)] = "lost" /\ refused'[p][Task(p)] = refused[p][Task(p)]
        BY <2>1, <3>2 DEF Answer, Moves
      <4> QED
        BY <2>1, <4>1 DEF LostInv
    <3> QED
      BY <3>1, <3>2
  <2>5. Answer(p) = "rejected" => p \in failed'
    BY <1>4, <2>1 DEF LostInv, Answer, AcquireServer
  <2>6. /\ UNCHANGED minute
        /\ decision' = [decision EXCEPT ![p][Task(p)] = Answer(p)]
        /\ Claim(p, Task(p), Clock(p)) \/ UNCHANGED <<claim, claimer>>
        /\ UNCHANGED <<claim, claimer>> \/ Answer(p) \in {"won", "rejected"}
    BY <1>4 DEF AcquireServer
  <2> HIDE DEF Inv, TypeOK, StepType, ScheduleInv
  <2> QED
    BY <2>1, <2>2, <2>3, <2>4, <2>5, <2>6, LostTold DEF Inv
<1>5. CASE DecisionFails(p)
  <2>1. entry[p] \in Entries /\ Task(p) \in Tasks /\ pc[p] = "server"
    BY <1>5, AtEntry DEF DecisionFails
  <2>2. pc'[p] # "absent"
    BY <1>5, <2>1, Starts DEF DecisionFails
  <2>3. /\ UNCHANGED <<minute, refused>> /\ p \in failed' /\ pc[p] # "absent" /\ "rejected" # "lost"
        /\ decision' = [decision EXCEPT ![p][Task(p)] = "rejected"]
        /\ Claim(p, Task(p), Clock(p)) \/ UNCHANGED <<claim, claimer>>
    BY <1>5 DEF DecisionFails, Broken
  <2>4. /\ TypeOK /\ UNCHANGED minute /\ \A t \in Tasks \ {Task(p)} : refused'[p][t] = refused[p][t]
        /\ UNCHANGED <<claim, claimer>> \/ "rejected" \in {"won", "rejected"}
    BY <2>3
  <2> HIDE DEF Inv, TypeOK, StepType, ScheduleInv
  <2> QED
    BY <2>1, <2>2, <2>3, <2>4, LostTold
<1> QED
  BY <1>1, <1>2, <1>3, <1>4, <1>5 DEF Proceed

(* The process that holds a lock is at the entry, or has lost it to a crash or the cache. *)
LEMMA HolderTakes ==
  ASSUME NEW p \in Processes, NEW e \in Entries, Inv, PassInv, Alone(e), entry[p] = e,
         pc[p] \in {"probe", "lock"}, holder[Task(p)] # Nobody,
         \A q \in Processes : ~ Interrupted(q)
  PROVE  \E q \in Processes \ {p} : Taken(q, e)
<1> USE DEF Inv, TypeOK, ScheduleInv
<1>1. Task(p) = Due[e].task /\ Task(p) \in Tasks
  BY DueType DEF Task, At
<1>2. PICK q \in Processes : holder[Task(p)] = q
  BY <1>1 DEF LockType
<1>3. pc[q] \in {"probing", "start", "running", "release"} /\ Task(q) = Task(p)
  BY <1>1, <1>2 DEF LocksReleased, Interrupted
<1>4. q # p /\ entry[q] = e
  BY <1>1, <1>3, AtEntry DEF Alone, Task, At
<1>5. Taken(q, e)
  BY <1>3, <1>4 DEF Taken, PassInv, Passed
<1> QED
  BY <1>4, <1>5

(* Who takes an entry runs it, or leaves it to the one that holds its lock. *)
LEMMA TakenFrame ==
  ASSUME NEW p \in Processes, TypeOK, TakenInv, Moves(p), pc[p] # "crashed",
         ASSUME NEW e \in Entries, Alone(e), \A q \in Processes : ~ Interrupted(q)',
                \A q \in Processes : ~ Interrupted(q),
                Taken(p, e) \/ (entry'[p] > e /\ ~ (entry[p] > e))
         PROVE  \E q \in Processes : Taken(q, e)'
  PROVE  TakenInv'
<1> SUFFICES ASSUME \A q \in Processes : ~ Interrupted(q)', NEW e \in Entries, NEW x \in Processes,
                    Alone(e), entry'[x] > e
             PROVE  \E q \in Processes : Taken(q, e)'
  BY DEF TakenInv, Alone
<1>1. ASSUME NEW q \in Processes PROVE ~ Interrupted(q)
  BY DEF Moves, Interrupted
<1>2. CASE entry[x] > e
  <2>1. PICK q \in Processes : Taken(q, e)
    BY <1>1, <1>2 DEF TakenInv
  <2>2. CASE q = p
    BY <1>1, <2>1, <2>2
  <2>3. CASE q # p
    <3>1. Taken(q, e)'
      BY <2>1, <2>3 DEF Taken, Moves, Ran
    <3> QED
      BY <3>1
  <2> QED
    BY <2>2, <2>3
<1>3. CASE ~ (entry[x] > e)
  <2>1. x = p
    BY <1>3 DEF Moves
  <2> QED
    BY <1>1, <1>3, <2>1
<1> QED
  BY <1>2, <1>3

LEMMA TakenStep ==
  ASSUME NEW p \in Processes, Inv, PassInv, TakenInv, Moves(p),
         Begin(p) \/ Proceed(p) \/ Signal(p) \/ Crash(p) \/ LockFails(p) \/ DecisionFails(p)
  PROVE  TakenInv'
<1> USE DEF Inv, TypeOK, StepType, ScheduleInv
<1>1. CASE Signal(p) \/ Crash(p) \/ LockFails(p) \/ DecisionFails(p)
  <2>1. Interrupted(p)'
    BY <1>1 DEF Signal, Crash, LockFails, DecisionFails, Broken, Interrupted
  <2> QED
    BY <2>1 DEF TakenInv
<1> SUFFICES ASSUME Begin(p) \/ Proceed(p), NEW e \in Entries, Alone(e),
                    \A q \in Processes : ~ Interrupted(q)', \A q \in Processes : ~ Interrupted(q),
                    Taken(p, e) \/ (entry'[p] > e /\ ~ (entry[p] > e))
             PROVE  \E q \in Processes : Taken(q, e)'
  <2>1. pc[p] # "crashed" \/ Signal(p) \/ Crash(p) \/ LockFails(p) \/ DecisionFails(p)
    BY DEF Begin, Proceed, Probe, ProbeReleased, Overlapping, AcquireServer, Lock, Start, Finish,
           Unlock
  <2> HIDE DEF Inv, TypeOK, StepType, ScheduleInv
  <2> QED
    BY <1>1, <2>1, TakenFrame DEF Inv
<1>2. \A m : Ran(p, e, m) => Ran(p, e, m)'
  BY DEF Moves, Ran
<1>3. \A q \in Processes : ~ Interrupted(q)
  OBVIOUS
<1>4. CASE Begin(p)
  <2>1. pc[p] = "absent" /\ entry'[p] = entry[p]
    BY <1>4 DEF Begin
  <2>2. ~ Ran(p, e, minute[p])
    BY <2>1 DEF Ran, WonInv
  <2> QED
    BY <2>1, <2>2 DEF Taken
<1>5. CASE Probe(p) \/ Lock(p) \/ ProbeReleased(p) \/ Finish(p)
  <2>1. entry'[p] = entry[p] /\ minute'[p] = minute[p]
    BY <1>5 DEF Probe, Lock, ProbeReleased, Finish
  <2>2. entry[p] = e /\ pc[p] \in {"probing", "lock", "start"} => pc'[p] \in {"lock", "start"}
    BY <1>5 DEF Probe, Lock, ProbeReleased, Finish, Alone, At
  <2>3. Taken(p, e)'
    BY <1>2, <2>1, <2>2 DEF Taken, Ran
  <2> QED
    BY <2>3
<1>6. CASE Start(p)
  <2>1. entry'[p] = entry[p] /\ minute'[p] = minute[p] /\ Ran(p, entry[p], minute[p])'
    BY <1>3, <1>6 DEF Start, Interrupted, Ran
  <2>2. Taken(p, e)'
    BY <1>2, <1>6, <2>1 DEF Taken, Ran
  <2> QED
    BY <2>2
<1>7. CASE Overlapping(p)
  <2>1. entry[p] \in Entries /\ entry'[p] = entry[p] + 1 /\ minute'[p] = minute[p] /\ ran' = ran
    BY <1>7, AtEntry, Starts DEF Overlapping
  <2>2. CASE entry[p] = e
    <3>1. PICK q \in Processes \ {p} : Taken(q, e)
      BY <1>3, <1>7, <2>2, HolderTakes DEF Overlapping
    <3>2. Taken(q, e)'
      BY <3>1 DEF Taken, Moves, Ran
    <3> QED
      BY <3>2
  <2>3. CASE entry[p] # e
    <3>1. Taken(p, e)
      BY <2>1, <2>3, DueType DEF Entries
    <3>2. Taken(p, e)'
      BY <1>2, <2>1, <2>3, <3>1 DEF Taken, Ran
    <3> QED
      BY <3>2
  <2> QED
    BY <2>2, <2>3
<1>8. CASE AcquireServer(p)
  <2>1. entry[p] \in Entries /\ pc[p] = "server" /\ minute'[p] = minute[p] /\ At(p).single
    BY <1>8, AtEntry DEF AcquireServer, PassInv, Passed
  <2>2. entry[p] # e
    BY <2>1 DEF Alone, At
  <2>3. entry'[p] \in {entry[p], entry[p] + 1}
    BY <1>8, <2>1 DEF AcquireServer, Advance
  <2>4. Taken(p, e)
    BY <2>1, <2>2, <2>3, DueType DEF Entries
  <2>5. Taken(p, e)'
    BY <1>2, <2>1, <2>2, <2>4 DEF Taken, Ran
  <2> QED
    BY <2>5
<1>9. CASE Unlock(p)
  <2>1. entry[p] \in Entries /\ entry'[p] = entry[p] + 1 /\ minute'[p] = minute[p] /\ pc[p] = "release"
    BY <1>9, AtEntry, Starts DEF Unlock
  <2>2. entry[p] = e => Ran(p, e, minute[p])
    BY <1>3, <2>1 DEF PassInv, Passed
  <2>3. Ran(p, e, minute[p])
    BY <2>1, <2>2, DueType DEF Taken, Entries
  <2>4. Taken(p, e)'
    BY <1>2, <2>1, <2>3 DEF Taken, Ran
  <2> QED
    BY <2>4
<1> QED
  BY <1>4, <1>5, <1>6, <1>7, <1>8, <1>9 DEF Proceed

LEMMA TickServed ==
  ASSUME Inv, ServedInv, Tick
  PROVE  ServedInv'
<1> USE DEF Inv, TypeOK, MinuteType
<1>1. UNCHANGED <<pc, minute, entry, decision, stopping, failed, ran, refused>>
  BY DEF Tick
<1>2. PassInv'
  BY <1>1 DEF ServedInv, PassInv, Passed, Interrupted, Ran, At
<1>3. \A q, t, c : Took(q, t, c)' <=> Took(q, t, c)
  BY <1>1 DEF Took, Clock
<1>4. ASSUME NEW t \in Tasks, NEW c \in Clocks, claim'[t][c] > 0
      PROVE  claim[t][c] > 0 /\ claimer'[t][c] = claimer[t][c]
  <2>1. claim[t][c] \in Nat /\ claim'[t][c] = Less(claim[t][c])
        /\ claimer'[t][c] = IF claim[t][c] <= 1 THEN Nobody ELSE claimer[t][c]
    BY Bounds DEF Tick
  <2> QED
    BY <1>4, <2>1 DEF Less
<1>5. LostInv'
  BY <1>1, <1>3, <1>4 DEF ServedInv, LostInv, Took, Clock
<1>6. TakenInv'
  BY <1>1 DEF ServedInv, TakenInv, Taken, Ran, Interrupted, Alone
<1> QED
  BY <1>2, <1>5, <1>6 DEF ServedInv

LEMMA ServedInvariance ==
  Spec => [](Inv /\ ServedInv)
<1>1. Init => ServedInv
  <2> SUFFICES ASSUME Init PROVE ServedInv
    OBVIOUS
  <2>1. PassInv
    <3>1. \A p \in Processes : pc[p] = "absent" /\ entry[p] = 1
      BY DEF Init
    <3>2. \A f \in Entries : ~ (f < 1)
      BY DueType DEF Entries
    <3> QED
      BY <3>1, <3>2 DEF PassInv, Passed
  <2>2. LostInv
    BY DEF Init, LostInv
  <2>3. TakenInv
    BY DueType DEF Init, TakenInv, Entries
  <2> QED
    BY <2>1, <2>2, <2>3 DEF ServedInv
<1>2. Inv /\ ServedInv /\ [Next]_vars => ServedInv'
  <2> SUFFICES ASSUME Inv, ServedInv, [Next]_vars PROVE ServedInv'
    OBVIOUS
  <2>1. ASSUME NEW p \in Processes, Next,
               Begin(p) \/ Proceed(p) \/ Signal(p) \/ Crash(p) \/ LockFails(p) \/ DecisionFails(p)
        PROVE  ServedInv'
    <3>1. Begin(p) => \A u \in Tasks : decision[p][u] = "none"
      BY DEF Begin, ServedInv, LostInv
    <3>2. Moves(p)
      BY <2>1, <3>1, StepMoves DEF Inv
    <3> QED
      BY <2>1, <3>2, PassedStep, LostStep, TakenStep DEF ServedInv
  <2>2. CASE UNCHANGED vars
    BY <2>2 DEF vars, ServedInv, PassInv, Passed, LostInv, Took, Clock, TakenInv, Taken, Ran, Interrupted,
                At, Alone
  <2> QED
    BY <2>1, <2>2, TickServed DEF Next
<1> QED
  BY <1>1, <1>2, Invariance, PTL DEF Spec

(* The process that won a task on this server runs every entry of its list that shares
   the task, but those it might find running elsewhere. *)
THEOREM WinnerRuns ==
  Spec => []WinnerRunsAll
<1>1. ASSUME Inv, ServedInv, NEW p \in Processes, NEW e \in Entries, NEW f \in Entries,
             Due[e].single, Due[f].single, Due[e].task = Due[f].task, ~ Due[f].overlap, f < entry[p],
             Ran(p, e, minute[p]), ~ Interrupted(p)
      PROVE  Ran(p, f, minute[p])
  <2>1. decision[p][Due[e].task] = "won"
    BY <1>1 DEF Inv, ScheduleInv, WonInv, Ran
  <2> QED
    BY <1>1, <2>1 DEF ServedInv, PassInv, Passed
<1>2. Inv /\ ServedInv => WinnerRunsAll
  BY <1>1 DEF WinnerRunsAll
<1> QED
  BY <1>2, ServedInvariance, PTL

(* Neither option alone makes a minute pass unserved, whatever the number of servers
   and entries and whatever the wall clock shows: somebody ran the task, a process of
   that minute was interrupted, or one was refused by a living lock that a process of
   another minute had taken under the same name. *)
THEOREM NoMinuteUnserved ==
  Spec => []MinutesServed
<1>1. ASSUME Inv, ServedInv, NEW e \in Entries, ~ (Due[e].overlap /\ Due[e].single),
             NEW m \in Minutes, Through(e, m), ~ Mistaken(e, m)
      PROVE  \E p \in Started(m) : Ran(p, e, m)
  <2>1. PICK x \in Started(m) : TRUE
    BY <1>1 DEF Through
  <2>2. \A p \in Started(m) :
          /\ p \in Processes /\ pc[p] = "done" /\ minute[p] = m /\ ~ Interrupted(p)
          /\ p \notin stopping \cup failed /\ e < entry[p]
    <3>1. ASSUME NEW p \in Started(m)
          PROVE  p \in Processes /\ pc[p] = "done" /\ minute[p] = m /\ ~ Interrupted(p)
      BY <1>1 DEF Through, Started
    <3>2. ASSUME NEW p \in Started(m)
          PROVE  p \notin stopping \cup failed /\ e < entry[p]
      <4>1. Passed(p) /\ p \notin stopping \cup failed
        BY <1>1, <3>1 DEF ServedInv, PassInv, Interrupted
      <4>2. entry[p] = Len(Due) + 1
        BY <3>1, <4>1 DEF Passed
      <4> QED
        BY <4>1, <4>2, DueType DEF Entries
    <3> QED
      BY <3>1, <3>2
  <2>3. CASE Due[e].overlap
    <3>1. Alone(e) /\ Started(m) = Processes
      BY <1>1, <2>3, DueType DEF Alone, Through
    <3>2. entry[x] > e
      BY <1>1, <2>1, <2>2, DueType DEF Inv, TypeOK, StepType, Entries
    <3>3. PICK q \in Processes : Taken(q, e)
      BY <1>1, <2>2, <3>1, <3>2 DEF ServedInv, TakenInv, Started
    <3> QED
      BY <2>2, <3>1, <3>3 DEF Taken
  <2>4. CASE ~ Due[e].overlap
    <3>1. \A p \in Started(m) :
            \/ Ran(p, e, m)
            \/ Due[e].single /\ decision[p][Due[e].task] = "lost"
      <4>1. ASSUME NEW p \in Started(m)
            PROVE  Ran(p, e, m) \/ (Due[e].single /\ decision[p][Due[e].task] = "lost")
        <5>1. Passed(p) /\ ~ Interrupted(p) /\ minute[p] = m /\ e < entry[p]
          BY <1>1, <2>2 DEF ServedInv, PassInv
        <5>2. \/ Ran(p, e, minute[p])
              \/ Due[e].overlap
              \/ Due[e].single /\ decision[p][Due[e].task] = "lost"
          BY <5>1 DEF Passed
        <5> QED
          BY <2>4, <5>1, <5>2
      <4> QED
        BY <4>1
    <3>2. CASE Ran(x, e, m)
      BY <3>2
    <3>3. CASE Due[e].single /\ decision[x][Due[e].task] = "lost"
      <4>1. PICK q \in Processes : q = refused[x][Due[e].task] /\ Took(q, Due[e].task, Clock(x))
        BY <1>1, <2>2, <3>3, DueType DEF ServedInv, LostInv, Took
      <4>2. minute[q] = m
        BY <1>1, <2>1, <2>2, <3>3, <4>1 DEF Mistaken, Took, Clock
      <4>3. pc[q] # "absent" /\ (decision[q][Due[e].task] = "rejected" => q \in failed)
        <5>1. Due[e].task \in Tasks /\ decision[q][Due[e].task] # "none"
          BY <4>1, DueType DEF Took
        <5>2. LostInv
          BY <1>1 DEF ServedInv
        <5> QED
          BY <5>1, <5>2 DEF LostInv
      <4>4. q \in Started(m)
        BY <4>2, <4>3 DEF Started
      <4>5. decision[q][Due[e].task] = "won"
        BY <2>2, <4>1, <4>3, <4>4 DEF Took
      <4> QED
        BY <3>1, <4>4, <4>5
    <3> QED
      BY <3>1, <3>2, <3>3
  <2> QED
    BY <2>3, <2>4
<1>2. Inv /\ ServedInv => MinutesServed
  BY <1>1 DEF MinutesServed, Served
<1> QED
  BY <1>2, ServedInvariance, PTL

-------------------------------------------------------------------------------
(* The locks of tasks keep the promise of TimedLock *)

(* A process works under a lock only between "start" and "release". *)
Outside(p) == pc[p] \notin Locked \/ ~At(p).overlap

(* What a step of p does to who holds a lock: it changes p's part of it alone. *)
LEMMA HoldsMoved ==
  ASSUME NEW p \in Processes, NEW t \in Tasks, Apart(p)
  PROVE  /\ p \notin Holders(t) /\ p \notin Holders(t)' => Holders(t)' = Holders(t) /\ Late(t)' = Late(t)
         /\ p \notin Holders(t)' => Holders(t)' = Holders(t) \ {p} /\ Late(t)' = Late(t) \ {p}
         /\ p \in Holders(t)' /\ p \notin Late(t)' /\ p \notin Holders(t)
              => Holders(t)' = Holders(t) \cup {p} /\ Late(t)' = Late(t)
         /\ (p \in Holders(t)' <=> p \in Holders(t)) /\ held'[p] = held[p]
              => Holders(t)' = Holders(t) /\ Late(t)' = Late(t)
<1>1. ASSUME NEW q \in Processes \ {p}
      PROVE  (q \in Holders(t)' <=> q \in Holders(t)) /\ (q \in Late(t)' <=> q \in Late(t))
  <2>1. q \in Holders(t)' <=> q \in Holders(t)
    BY <1>1 DEF Apart, Holders, At, Task
  <2>2. held'[q] = held[q]
    BY <1>1 DEF Apart
  <2> QED
    BY <2>1, <2>2 DEF Late
<1>2. /\ Holders(t) \subseteq Processes /\ Late(t) \subseteq Holders(t)
      /\ Holders(t)' \subseteq Processes /\ Late(t)' \subseteq Holders(t)'
      /\ (p \in Holders(t)' <=> p \in Holders(t)) /\ held'[p] = held[p] => (p \in Late(t)' <=> p \in Late(t))
  BY DEF Holders, Late
<1> DEFINE H == Holders(t)
           H1 == Holders(t)'
           L == Late(t)
           L1 == Late(t)'
<1>3. /\ \A q \in Processes \ {p} : (q \in H1 <=> q \in H) /\ (q \in L1 <=> q \in L)
      /\ H \subseteq Processes /\ L \subseteq H /\ H1 \subseteq Processes /\ L1 \subseteq H1
      /\ (p \in H1 <=> p \in H) /\ held'[p] = held[p] => (p \in L1 <=> p \in L)
  BY <1>1, <1>2
<1> HIDE DEF H, H1, L, L1
<1>4. p \notin H /\ p \notin H1 => H1 = H /\ L1 = L
  BY <1>3
<1>5. p \notin H1 => H1 = H \ {p} /\ L1 = L \ {p}
  BY <1>3
<1>6. p \in H1 /\ p \notin L1 /\ p \notin H => H1 = H \cup {p} /\ L1 = L
  BY <1>3
<1>7. (p \in H1 <=> p \in H) /\ held'[p] = held[p] => H1 = H /\ L1 = L
  BY <1>3
<1> QED
  BY <1>4, <1>5, <1>6, <1>7 DEF H, H1, L, L1

LEMMA OutsideHolds ==
  ASSUME NEW p \in Processes, NEW t \in Tasks
  PROVE  /\ Outside(p) => p \notin Holders(t)
         /\ Outside(p)' => p \notin Holders(t)'
         /\ t # Task(p) => p \notin Holders(t)
<1>1. Outside(p) => p \notin Holders(t)
  BY DEF Outside, Holders, Locked
<1>2. Outside(p)' => p \notin Holders(t)'
  BY DEF Outside, Holders, Locked
<1>3. t # Task(p) => p \notin Holders(t)
  BY DEF Holders
<1> QED
  BY <1>1, <1>2, <1>3

LEMMA NoPromise ==
  ASSUME \A t \in Tasks : Owner(t)' = Owner(t) /\ Holders(t)' = Holders(t) /\ Late(t)' = Late(t)
  PROVE  UNCHANGED Promise!vars
BY DEF Promise!vars

(* A process that works under no lock before nor after a step has no part in it. *)
LEMMA ApartPromise ==
  ASSUME NEW p \in Processes, Apart(p), Outside(p), Outside(p)', UNCHANGED holder
  PROVE  UNCHANGED Promise!vars
<1>1. ASSUME NEW t \in Tasks PROVE Holders(t)' = Holders(t) /\ Late(t)' = Late(t)
  BY HoldsMoved, OutsideHolds
<1> QED
  BY <1>1, NoPromise DEF Owner

LEMMA StayPromise ==
  ASSUME NEW p \in Processes, Apart(p), UNCHANGED <<holder, entry, held>>, {pc[p], pc'[p]} \subseteq Locked
  PROVE  UNCHANGED Promise!vars
<1>1. ASSUME NEW t \in Tasks PROVE p \in Holders(t)' <=> p \in Holders(t)
  BY DEF Holders, At, Task, Locked
<1>2. ASSUME NEW t \in Tasks PROVE Holders(t)' = Holders(t) /\ Late(t)' = Late(t)
  BY <1>1, HoldsMoved
<1> QED
  BY <1>2, NoPromise DEF Owner

LEMMA TryPromise ==
  ASSUME NEW p \in Processes, NEW t \in Tasks, LockType, Apart(p), Outside(p), Outside(p)', Acquire(p, t)
  PROVE  Promise!Next
<1>1. ASSUME NEW u \in Tasks PROVE Holders(u)' = Holders(u) /\ Late(u)' = Late(u)
  BY HoldsMoved, OutsideHolds
<1>2. Owner(t) = {} /\ Owner(t)' = {p} /\ \A u \in Tasks \ {t} : Owner(u)' = Owner(u)
  BY Bounds DEF Acquire, Owner, LockType
<1>3. Promise!Try(p, t)
  BY <1>1, <1>2 DEF Promise!Try
<1> QED
  BY <1>3 DEF Promise!Next

LEMMA GrantPromise ==
  ASSUME NEW p \in Processes, NEW t \in Tasks, LockType, Apart(p), Outside(p), Acquire(p, t),
         Task(p)' = t, pc'[p] \in Locked, At(p)'.overlap, held'[p] # Expires
  PROVE  Promise!Next
<1>1. Holders(t)' = Holders(t) \cup {p} /\ Late(t)' = Late(t)
  <2>1. p \in Holders(t)' /\ p \notin Late(t)'
    BY DEF Holders, Late, Locked
  <2> QED
    BY <2>1, HoldsMoved, OutsideHolds
<1>2. ASSUME NEW u \in Tasks \ {t} PROVE Holders(u)' = Holders(u) /\ Late(u)' = Late(u)
  <2>1. p \notin Holders(u)'
    BY <1>2 DEF Holders
  <2> QED
    BY <1>2, <2>1, HoldsMoved, OutsideHolds
<1>3. Owner(t) = {} /\ Owner(t)' = {p} /\ \A u \in Tasks \ {t} : Owner(u)' = Owner(u)
  BY Bounds DEF Acquire, Owner, LockType
<1>4. Promise!Acquire(p, t)
  BY <1>1, <1>2, <1>3 DEF Promise!Acquire
<1> QED
  BY <1>4 DEF Promise!Next

(* Who leaves an entry works under its lock no longer, whether it gives the lock back or not. *)
LEMMA LeavePromise ==
  ASSUME NEW p \in Processes, NEW t \in Tasks, t = Task(p), LockType, Apart(p), Outside(p)',
         Release(p, t) \/ UNCHANGED holder
  PROVE  Promise!Next
<1>1. Holders(t)' = Holders(t) \ {p} /\ Late(t)' = Late(t) \ {p}
  BY HoldsMoved, OutsideHolds
<1>2. ASSUME NEW u \in Tasks \ {t} PROVE Holders(u)' = Holders(u) /\ Late(u)' = Late(u)
  BY <1>2, HoldsMoved, OutsideHolds
<1>3. CASE UNCHANGED holder
  <2>1. \A u \in Tasks : Owner(u)' = Owner(u)
    BY <1>3 DEF Owner
  <2>2. Promise!Quit(p, t)
    BY <1>1, <1>2, <2>1 DEF Promise!Quit
  <2> QED
    BY <2>2 DEF Promise!Next
<1>4. CASE Release(p, t)
  <2>1. Owner(t)' = Owner(t) \ {p} /\ \A u \in Tasks \ {t} : Owner(u)' = Owner(u)
    <3>1. CASE holder[t] = p
      <4>1. holder' = [holder EXCEPT ![t] = Nobody]
        BY <1>4, <3>1 DEF Release
      <4> QED
        BY <3>1, <4>1, Bounds DEF Owner, LockType
    <3>2. CASE holder[t] # p
      <4>1. holder' = holder
        BY <1>4, <3>2 DEF Release
      <4> QED
        BY <3>2, <4>1 DEF Owner
    <3> QED
      BY <3>1, <3>2
  <2>2. Promise!Release(p, t)
    BY <1>1, <1>2, <2>1 DEF Promise!Release
  <2> QED
    BY <2>2 DEF Promise!Next
<1> QED
  BY <1>3, <1>4

(* Where a process that went on to the next entry is, it holds no lock yet. *)
LEMMA OnwardOutside ==
  ASSUME NEW p \in Processes, StepType, entry[p] \in Entries, Advance(p)
  PROVE  Outside(p)'
<1>1. entry'[p] = entry[p] + 1
  BY Advances DEF StepType
<1>2. PICK step \in {"probe", "server", "start", "done"} :
          pc' = [pc EXCEPT ![p] = step] /\ (step = "start" => ~Due[entry[p] + 1].overlap)
  BY Advances
<1>3. pc'[p] = step
  BY <1>2 DEF StepType
<1> QED
  BY <1>1, <1>2, <1>3 DEF Outside, Locked, At

(* When a minute passes, a lock expires together with the time of who works under it. *)
LEMMA TickPromise ==
  ASSUME Inv, Tick
  PROVE  Promise!Next
<1> DEFINE S == {t \in Tasks : left[t] = 1}
<1>1. /\ holder \in [Tasks -> Processes \cup {Nobody}] /\ left \in [Tasks -> 0 .. Expires]
      /\ held \in [Processes -> 0 .. Expires] /\ Expires \in Nat \ {0} /\ Nobody \notin Processes
      /\ \A t \in Tasks : holder[t] = Nobody <=> left[t] = 0
  BY Bounds DEF Inv, TypeOK, LockType, ScheduleInv, HeldInv
<1>2. ASSUME NEW t \in Tasks PROVE Holders(t)' = Holders(t)
  BY DEF Tick, Holders, At, Task
<1>3. ASSUME NEW t \in Tasks PROVE Owner(t)' = IF t \in S THEN {} ELSE Owner(t)
  <2>1. holder'[t] = IF left[t] <= 1 THEN Nobody ELSE holder[t]
    BY <1>3 DEF Tick
  <2>2. CASE left[t] = 0
    BY <1>1, <2>1, <2>2 DEF Owner
  <2>3. CASE left[t] = 1
    BY <1>1, <2>1, <2>3 DEF Owner
  <2>4. CASE left[t] > 1
    BY <1>1, <2>1, <2>4 DEF Owner
  <2> QED
    BY <1>1, <2>2, <2>3, <2>4
<1>4. ASSUME NEW t \in Tasks
      PROVE  Late(t)' = IF t \in S THEN Late(t) \cup (Owner(t) \cap Holders(t)) ELSE Late(t)
  <2>1. ASSUME NEW p \in Holders(t)
        PROVE  held'[p] = Expires <=> held[p] = Expires \/ (left[t] = 1 /\ p \in Owner(t))
    <3>1. /\ p \in Processes /\ Task(p) = t /\ held[p] \in 0 .. Expires /\ left[t] \in 0 .. Expires
          /\ held[p] = Expires \/ (holder[t] = p /\ held[p] + left[t] = Expires)
      BY <1>1, <2>1 DEF Inv, ScheduleInv, HeldInv, Holders, Locked
    <3>2. held'[p] = IF held[p] < Expires THEN held[p] + 1 ELSE Expires
      BY <3>1 DEF Tick
    <3>3. p \in Owner(t) <=> holder[t] = p
      BY <1>1, <3>1 DEF Owner
    <3> QED
      BY <1>1, <3>1, <3>2, <3>3
  <2>2. Late(t)' = {p \in Holders(t) : held'[p] = Expires}
    BY <1>2 DEF Late
  <2> QED
    BY <2>1, <2>2 DEF Late
<1>5. Promise!Expire(S)
  BY <1>2, <1>3, <1>4 DEF Promise!Expire
<1>6. S \in SUBSET Tasks
  OBVIOUS
<1> HIDE DEF S
<1> QED
  BY <1>5, <1>6 DEF Promise!Next

(* KeepsLocks: for any processes, tasks and lists of entries, the scheduler and its locks of tasks
   implement TimedLock, through probes, signals, crashes and cache calls that fail halfway. *)
THEOREM ImplementsTimedLock ==
  Spec => KeepsLocks
<1> DEFINE Goal == Promise!Next \/ UNCHANGED Promise!vars
<1>1. Init => Promise!Init
  BY DEF Init, Promise!Init, Owner, Holders, Late
<1>2. ASSUME Inv, NEW p \in Processes, Begin(p) PROVE Goal
  <2>1. Apart(p) /\ Outside(p) /\ UNCHANGED holder /\ pc'[p] = First(1) /\ entry'[p] = 1
    BY <1>2 DEF Inv, TypeOK, StepType, ScheduleInv, EntryInv, Begin, Goto, Apart, Outside, Locked
  <2>2. Outside(p)'
    BY <2>1, FirstStep, DueType DEF Outside, At, Locked
  <2> QED
    BY <2>1, <2>2, ApartPromise
<1>3. ASSUME Inv, NEW p \in Processes,
             Proceed(p) \/ Signal(p) \/ Crash(p) \/ LockFails(p) \/ DecisionFails(p)
      PROVE  Goal
  <2>1. /\ entry[p] \in Entries /\ Task(p) \in Tasks
        /\ StepType /\ LockType
    <3>1. pc[p] \notin {"absent", "done", "crashed"}
      BY <1>3 DEF Proceed, Probe, ProbeReleased, Overlapping, AcquireServer, Lock, Start, Finish, Unlock,
                  Signal, Crash, LockFails, DecisionFails
    <3>2. StepType /\ LockType /\ EntryInv
      BY <1>3 DEF Inv, TypeOK, ScheduleInv
    <3> QED
      BY <3>1, <3>2, AtEntry
  <2>2. ASSUME Advance(p), UNCHANGED held PROVE Apart(p) /\ Outside(p)'
    BY <2>1, <2>2, OnwardOutside DEF StepType, Advance, Apart, Goto
  <2>3. ASSUME NEW step, Goto(p, step), UNCHANGED entry, \A q \in Processes \ {p} : held'[q] = held[q]
        PROVE  Apart(p) /\ pc'[p] = step
    BY <2>1, <2>3 DEF StepType, Apart, Goto
  <2>4. CASE Probe(p)
    <3>1. Apart(p) /\ pc[p] = "probe" /\ pc'[p] = "probing" /\ Acquire(p, Task(p))
      BY <2>3, <2>4 DEF Probe
    <3> QED
      BY <2>1, <3>1, TryPromise DEF Outside, Locked
  <2>5. CASE ProbeReleased(p)
    <3>1. Apart(p) /\ pc'[p] \in {"server", "lock"} /\ Release(p, Task(p))
      BY <2>3, <2>5 DEF ProbeReleased
    <3> QED
      BY <2>1, <3>1, LeavePromise DEF Outside, Locked
  <2>6. CASE Overlapping(p)
    <3>1. Apart(p) /\ Outside(p)' /\ pc[p] \in {"probe", "lock"} /\ UNCHANGED holder
      BY <2>2, <2>6 DEF Overlapping
    <3> QED
      BY <3>1, ApartPromise DEF Outside, Locked
  <2>7. CASE AcquireServer(p)
    <3>1. pc[p] = "server" /\ UNCHANGED <<holder, held>>
      BY <2>7 DEF AcquireServer
    <3>2. CASE Goto(p, IF At(p).overlap THEN "lock" ELSE "start") /\ UNCHANGED entry
      <4>1. Apart(p) /\ pc'[p] = (IF At(p).overlap THEN "lock" ELSE "start")
        BY <2>3, <3>1, <3>2
      <4>2. Outside(p)'
        BY <3>2, <4>1 DEF Outside, Locked, At
      <4> QED
        BY <3>1, <4>1, <4>2, ApartPromise DEF Outside, Locked
    <3>3. CASE Advance(p)
      BY <2>2, <3>1, <3>3, ApartPromise DEF Outside, Locked
    <3> QED
      BY <2>7, <3>2, <3>3 DEF AcquireServer
  <2>8. CASE Lock(p)
    <3>1. /\ Apart(p) /\ pc[p] = "lock" /\ pc'[p] = "start" /\ Acquire(p, Task(p)) /\ UNCHANGED entry
          /\ held'[p] = 0
      BY <2>1, <2>3, <2>8 DEF Lock, LockType
    <3>2. At(p)'.overlap /\ Task(p)' = Task(p)
      BY <1>3, <3>1 DEF Inv, ScheduleInv, EntryInv, At, Task
    <3> QED
      BY <2>1, <3>1, <3>2, GrantPromise, Bounds DEF Outside, Locked
  <2>9. CASE Start(p) \/ Finish(p)
    <3>1. PICK step \in {"release", "running"} : Goto(p, step)
      BY <2>9 DEF Start, Finish
    <3>2. UNCHANGED <<holder, entry, held>> /\ pc[p] \in {"start", "running"}
      BY <2>9 DEF Start, Finish
    <3> QED
      BY <2>3, <3>1, <3>2, StayPromise DEF Locked
  <2>10. CASE Unlock(p)
    <3>1. /\ Apart(p) /\ Outside(p)' /\ UNCHANGED held
          /\ IF At(p).overlap THEN Release(p, Task(p)) ELSE UNCHANGED holder
      BY <2>2, <2>10 DEF Unlock
    <3> QED
      BY <2>1, <3>1, LeavePromise
  <2>11. CASE Signal(p)
    BY <2>11, NoPromise DEF Signal, Owner, Holders, Late, At, Task
  <2>12. CASE Crash(p)
    <3>1. Apart(p) /\ pc'[p] = "crashed" /\ UNCHANGED holder
      BY <2>3, <2>12 DEF Crash
    <3> QED
      BY <2>1, <3>1, LeavePromise DEF Outside, Locked
  <2>13. CASE LockFails(p)
    <3>1. Apart(p) /\ Outside(p)'
      BY <2>2, <2>13 DEF LockFails, Broken
    <3>2. CASE pc[p] \in {"probe", "lock"} /\ Acquire(p, Task(p))
      BY <2>1, <3>1, <3>2, TryPromise DEF Outside, Locked
    <3>3. CASE Release(p, Task(p)) \/ UNCHANGED holder
      BY <2>1, <3>1, <3>3, LeavePromise
    <3> QED
      BY <2>13, <3>2, <3>3 DEF LockFails
  <2>14. CASE DecisionFails(p)
    <3>1. Apart(p) /\ Outside(p)' /\ pc[p] = "server" /\ UNCHANGED holder
      BY <2>2, <2>14 DEF DecisionFails, Broken
    <3> QED
      BY <3>1, ApartPromise DEF Outside, Locked
  <2> QED
    BY <1>3, <2>4, <2>5, <2>6, <2>7, <2>8, <2>9, <2>10, <2>11, <2>12, <2>13, <2>14 DEF Proceed
<1>4. ASSUME UNCHANGED vars PROVE Goal
  <2>1. UNCHANGED <<pc, entry, holder, held>>
    BY <1>4 DEF vars
  <2> QED
    BY <2>1, NoPromise DEF Owner, Holders, Late, At, Task
<1>5. ASSUME Inv, [Next]_vars PROVE [Promise!Next]_(Promise!vars)
  BY <1>2, <1>3, <1>4, <1>5, TickPromise DEF Next
<1> QED
  BY <1>1, <1>5, Invariance, PTL DEF Spec, KeepsLocks, Promise!Spec
===============================================================================
